------------------------------- MODULE Escrow -------------------------------
(***************************************************************************)
(* pallet-escrow: service agreements between a buyer and a provider, the   *)
(* buyer's money held in reserve, and every door through which an          *)
(* agreement is closed.  With it, the state the escrow calls reach in the  *)
(* pallets around it:                                                      *)
(*                                                                         *)
(*   pallet-agents   the registration (AgentStake) and the slot count      *)
(*                   (ActiveEscrowCount) that decides whether a provider   *)
(*                   may take its stake away;                              *)
(*   pallet-oracle   the dispute questions, seen from outside the panel:   *)
(*                   posted, answered by enough agents or not, closed;     *)
(*   Currency        the balances.                                         *)
(*                                                                         *)
(* Every dispatchable is one atomic step: FRAME rolls back a call that     *)
(* returns an error, so a failing call is a step that does not happen.     *)
(* The one exception in this code is the verdict of the oracle, whose      *)
(* callback error finalise_request swallows: see FailedVerdict.            *)
(***************************************************************************)
EXTENDS Integers, Sequences, FiniteSets, Functions, Currency

CONSTANTS
  Buyers, Providers,     \* accounts that open agreements, accounts they name
  Treasury, Panel,       \* where fees go; the agents who answer questions
  Amounts,               \* amounts a buyer may offer
  Endowment,             \* free balance of every buyer at the start
  \* runtime parameters
  MinAgreementAmount, MinDeliveryBlocks, MaxAgreementSpan,
  MaxAgreementsPerPair, BuyerResponseWindow, DisputeTimeoutWindow,
  DisputeResponseWindow, MinChallengeWindow, ExpiryGrace,
  DisputeBountyBps, MinDisputeBounty, CompletionFeeBps, DisputeBurnBps,
  MaxOpenRequests, UnstakeCooldown,
  \* bounds of the instance
  MaxSeq,                \* sequence numbers of a pair; u32::MAX in the code
  MaxBlock,              \* the last block of the run
  LastOpening,           \* no agreement is opened after this block ...
  LastDispute,           \* ... and no dispute after this one
  PanelWinners,          \* how many respondents may share a bounty
  Movers,                \* providers that register, unstake or are slashed
  MaySlash               \* whether governance may evict a provider by slashing

Accounts == Buyers \cup Providers \cup {Treasury, Panel}

ASSUME RuntimeParameters ==
  /\ {MinAgreementAmount, MinDeliveryBlocks, MaxAgreementSpan,
      MaxAgreementsPerPair, BuyerResponseWindow, DisputeTimeoutWindow,
      DisputeResponseWindow, MinChallengeWindow, ExpiryGrace,
      DisputeBountyBps, MinDisputeBounty, CompletionFeeBps, DisputeBurnBps,
      MaxOpenRequests, UnstakeCooldown, Endowment, MaxSeq, MaxBlock,
      LastOpening, LastDispute} \subseteq Nat
  /\ Amounts \subseteq Nat
  /\ PanelWinners \subseteq Nat \ {0}
  /\ Movers \subseteq Providers
  /\ MaySlash \in BOOLEAN

\* A fee is a part of the amount: auto-params keeps the completion fee at or
\* below 2500 bps, and the runtime's burn of a dispute is 0.
ASSUME FeesAreShares == CompletionFeeBps <= 10000 /\ DisputeBurnBps <= 10000

VARIABLES
  now,                   \* frame_system block number
  agreements,            \* Agreements: the open ones, by (buyer, provider, seq)
  nextSeq,               \* NextSeq, by (buyer, provider)
  pendingAcceptance,     \* keys of PendingAcceptance
  disputeToAgreement,    \* DisputeToAgreement
  activeAgreementCount,  \* ActiveAgreementCount
  agentStake,            \* agents: accounts with an AgentStake entry
  members,               \* the ranked collective's members
  unstakeAt,             \* agents: UnstakeAt
  capable,               \* agents that hold the capability agreements may ask
  activeEscrowCount,     \* agents: ActiveEscrowCount
  eraVolume,             \* agents: EraEscrowVolume, since the last era
  ledger,                \* balances
  requests,              \* oracle: the open dispute questions
  payouts                \* history: the releases made on account of each agreement

escrowVars == <<agreements, nextSeq, pendingAcceptance, disputeToAgreement,
                activeAgreementCount, payouts>>
agentVars  == <<agentStake, members, unstakeAt, capable, activeEscrowCount,
                eraVolume>>
vars == <<now, escrowVars, agentVars, ledger, requests>>

-----------------------------------------------------------------------------
(* Agreements and the questions about them.                                *)

\* The key of an agreement.  Sequence numbers are never used twice, so a key
\* names one agreement for ever; the oracle derives a question's id by hashing
\* the same triple, so a key also names the question.
Ids == {id \in Buyers \X Providers \X (0 .. MaxSeq - 1) : id[1] # id[2]}

Buyer(id)    == id[1]
Provider(id) == id[2]
Pair(id)     == <<id[1], id[2]>>

Status == {"Created", "Delivered", "Disputed"}

Agreement == [amount : Nat, deliverBy : Nat, createdAt : Nat, openedAt : Nat,
              status : Status, needsCapability : BOOLEAN]

Question == [bounty : Nat, deadline : Nat, answered : BOOLEAN]

Open == DOMAIN agreements

\* consent_state: no PendingAcceptance entry reads as accepted.
Accepted(id) == id \notin pendingAcceptance

\* The agreements that bind provider p: the ones its slot count stands for.
Obligations(p) == {id \in Open : Provider(id) = p /\ Accepted(id)}

HasCapability(p, needed) == needed => p \in capable

Put(f, key, value) ==
  [x \in DOMAIN f \cup {key} |-> IF x = key THEN value ELSE f[x]]

Without(f, key) == Restrict(f, DOMAIN f \ {key})

Saturating(n) == IF n < 0 THEN 0 ELSE n

Share(amount, bps) == (amount * bps) \div 10000

Init ==
  /\ now = 0
  /\ agreements = [id \in {} |-> 0]
  /\ nextSeq = [pair \in Buyers \X Providers |-> 0]
  /\ pendingAcceptance = {}
  /\ disputeToAgreement = {}
  /\ activeAgreementCount = 0
  /\ agentStake = Buyers \cup Providers
  /\ members = Buyers \cup Providers
  /\ unstakeAt = [a \in {} |-> 0]
  /\ capable = Providers
  /\ activeEscrowCount = [p \in Providers |-> 0]
  /\ eraVolume = [p \in Providers |-> 0]
  /\ ledger = [free     |-> [a \in Accounts |-> IF a \in Buyers THEN Endowment ELSE 0],
               reserved |-> [a \in Accounts |-> 0]]
  /\ requests = [id \in {} |-> 0]
  /\ payouts = [id \in Ids |-> <<>>]

-----------------------------------------------------------------------------
(* What the calls share.                                                   *)

\* decrement_active_escrow saturates: releasing a slot nobody holds would go
\* unnoticed, and take a slot that stands for another agreement.
SlotReleased(p) == [activeEscrowCount EXCEPT ![p] = Saturating(@ - 1)]

SlotTaken(p) == [activeEscrowCount EXCEPT ![p] = @ + 1]

\* Mutant: the agreement is settled but stays in Agreements.
SettleAndKeep(id) ==
  /\ agreements' = agreements
  /\ activeAgreementCount' = Saturating(activeAgreementCount - 1)

CloseAgreement(id) ==
  /\ agreements' = Without(agreements, id)
  /\ activeAgreementCount' = Saturating(activeAgreementCount - 1)

Released(id, how) == [payouts EXCEPT ![id] = Append(@, how)]

\* NextSeq before it is incremented.
FreshSeq(b, p) == nextSeq[<<b, p>>]

\* Mutant: the question's mapping is left behind.
DisputesStill(id) == disputeToAgreement

DisputesWithout(id) == disputeToAgreement \ {id}

\* Mutant: expiry releases a slot whether or not the provider ever accepted.
SlotsAfterAnyExpiry(id) == SlotReleased(Provider(id))

\* The slot count after an agreement leaves by expiry: only an accepted one
\* ever held a slot.
SlotsAfterExpiry(id) ==
  IF Accepted(id) THEN SlotReleased(Provider(id)) ELSE activeEscrowCount

\* Block after which the buyer may take the money back with claim_refund.
RefundDue(a) ==
  IF a.status = "Disputed" THEN a.openedAt + DisputeTimeoutWindow - 1
                           ELSE a.deliverBy + BuyerResponseWindow

\* Mutant: only an undelivered agreement can be closed by anyone, which is what
\* expire_agreement did before its windows were extended to every status.
ExpiryDueOnlyUndelivered(a) ==
  IF a.status = "Created" THEN a.deliverBy + ExpiryGrace ELSE MaxBlock

\* Block after which anyone may close the agreement.
ExpiryDue(a) ==
  CASE a.status = "Created"   -> a.deliverBy + ExpiryGrace
    [] a.status = "Delivered" -> a.deliverBy + BuyerResponseWindow + ExpiryGrace
    [] a.status = "Disputed"  -> a.openedAt + DisputeTimeoutWindow + ExpiryGrace

Bounty(a) ==
  LET part == Share(a.amount, DisputeBountyBps)
  IN  IF part >= MinDisputeBounty THEN part ELSE MinDisputeBounty

-----------------------------------------------------------------------------
(* The buyer's and the provider's calls.                                   *)

Tick ==
  /\ now < MaxBlock
  /\ now' = now + 1
  /\ UNCHANGED <<escrowVars, agentVars, ledger, requests>>

CreateAgreement(b, p, amount, deliverBy, needsCapability) ==
  LET seq == FreshSeq(b, p)
      id  == <<b, p, seq>>
  IN
  /\ now <= LastOpening
  /\ b # p
  /\ {b, p} \subseteq agentStake
  /\ amount >= MinAgreementAmount
  /\ HasCapability(p, needsCapability)
  /\ deliverBy > now + MinDeliveryBlocks
  /\ deliverBy <= now + MaxAgreementSpan
  /\ seq < MaxSeq
  /\ Cardinality({i \in Open : Pair(i) = <<b, p>>}) < MaxAgreementsPerPair
  /\ CanReserve(ledger, b, amount)
  /\ nextSeq' = [nextSeq EXCEPT ![<<b, p>>] = @ + 1]
  /\ agreements' = Put(agreements, id,
       [amount |-> amount, deliverBy |-> deliverBy, createdAt |-> now,
        openedAt |-> 0, status |-> "Created", needsCapability |-> needsCapability])
  /\ ledger' = Reserve(ledger, b, amount)
  /\ pendingAcceptance' = pendingAcceptance \cup {id}
  /\ activeAgreementCount' = activeAgreementCount + 1
  /\ UNCHANGED <<now, disputeToAgreement, payouts, agentVars, requests>>

AcceptAgreement(id) ==
  /\ id \in Open
  /\ id \in pendingAcceptance
  /\ HasCapability(Provider(id), agreements[id].needsCapability)
  /\ now <= agreements[id].deliverBy
  /\ Provider(id) \in agentStake
  /\ activeEscrowCount' = SlotTaken(Provider(id))
  /\ pendingAcceptance' = pendingAcceptance \ {id}
  /\ UNCHANGED <<now, agreements, nextSeq, disputeToAgreement,
                 activeAgreementCount, payouts, agentStake, members, unstakeAt,
                 capable, eraVolume, ledger, requests>>

\* reject_agreement by the provider and cancel_pending by the buyer.
ClosePending(id) ==
  /\ id \in Open
  /\ id \in pendingAcceptance
  /\ ledger' = Unreserve(ledger, Buyer(id), agreements[id].amount)
  /\ pendingAcceptance' = pendingAcceptance \ {id}
  /\ CloseAgreement(id)
  /\ payouts' = Released(id, "refunded")
  /\ UNCHANGED <<now, nextSeq, disputeToAgreement, agentVars, requests>>

Deliverable(a, p) ==
  /\ a.status = "Created"
  /\ HasCapability(p, a.needsCapability)
  /\ now <= a.deliverBy
  /\ now >= a.createdAt + MinDeliveryBlocks

\* Mutant: consent is not asked for.
OpenToDelivery(id) == id \in Open

\* Consent is checked before the agreement is looked up; a key with neither a
\* pending entry nor an agreement fails on the lookup.
MayRecordDelivery(id) == id \in Open /\ Accepted(id)

RecordDelivery(id) ==
  /\ MayRecordDelivery(id)
  /\ Deliverable(agreements[id], Provider(id))
  /\ agreements' = [agreements EXCEPT ![id].status = "Delivered"]
  /\ UNCHANGED <<now, nextSeq, pendingAcceptance, disputeToAgreement,
                 activeAgreementCount, payouts, agentVars, ledger, requests>>

ExtendDeadline(id, deadline) ==
  /\ id \in Open
  /\ agreements[id].status = "Created"
  /\ deadline > agreements[id].deliverBy
  /\ deadline <= now + MaxAgreementSpan
  /\ deadline <= agreements[id].createdAt + MaxAgreementSpan
  /\ agreements' = [agreements EXCEPT ![id].deliverBy = deadline]
  /\ UNCHANGED <<now, nextSeq, pendingAcceptance, disputeToAgreement,
                 activeAgreementCount, payouts, agentVars, ledger, requests>>

\* add_era_escrow_volume fails for a provider that is no longer an agent, and
\* then the whole call is rolled back.
ConfirmDelivery(id) ==
  LET amount == agreements[id].amount
      fee    == Share(amount, CompletionFeeBps)
  IN
  /\ id \in Open
  /\ agreements[id].status = "Delivered"
  /\ Provider(id) \in agentStake
  /\ ledger' = Repatriate(
                 Repatriate(ledger, Buyer(id), Provider(id), Saturating(amount - fee)),
                 Buyer(id), Treasury, fee)
  /\ activeEscrowCount' = SlotReleased(Provider(id))
  /\ eraVolume' = [eraVolume EXCEPT ![Provider(id)] = @ + amount]
  /\ CloseAgreement(id)
  /\ payouts' = Released(id, "paid")
  /\ UNCHANGED <<now, nextSeq, pendingAcceptance, disputeToAgreement, agentStake,
                 members, unstakeAt, capable, requests>>

\* The bounty leaves the agreement's amount, and the oracle reserves it from
\* the buyer's free balance: the part carved out stays reserved as well.
DisputeDelivery(id) ==
  LET a      == agreements[id]
      bounty == Bounty(a)
  IN
  /\ now <= LastDispute
  /\ id \in Open
  /\ a.status = "Delivered"
  /\ Cardinality(DOMAIN requests) < MaxOpenRequests
  /\ CanReserve(ledger, Buyer(id), bounty)
  /\ agreements' = [agreements EXCEPT ![id] =
       [a EXCEPT !.amount = Saturating(@ - bounty),
                 !.status = "Disputed", !.openedAt = now]]
  /\ requests' = Put(requests, id,
       [bounty |-> bounty, deadline |-> now + DisputeResponseWindow,
        answered |-> FALSE])
  /\ ledger' = Reserve(ledger, Buyer(id), bounty)
  /\ disputeToAgreement' = disputeToAgreement \cup {id}
  /\ UNCHANGED <<now, nextSeq, pendingAcceptance, activeAgreementCount, payouts,
                 agentVars>>

ClaimRefund(id) ==
  /\ id \in Open
  /\ Accepted(id)
  /\ now > RefundDue(agreements[id])
  /\ ledger' = Unreserve(ledger, Buyer(id), agreements[id].amount)
  /\ activeEscrowCount' = SlotReleased(Provider(id))
  /\ disputeToAgreement' = DisputesWithout(id)
  /\ CloseAgreement(id)
  /\ payouts' = Released(id, "refunded")
  /\ UNCHANGED <<now, nextSeq, pendingAcceptance, agentStake, members, unstakeAt,
                 capable, eraVolume, requests>>

\* Anyone may call this one.
ExpireAgreement(id) ==
  /\ id \in Open
  /\ now > ExpiryDue(agreements[id])
  /\ ledger' = Unreserve(ledger, Buyer(id), agreements[id].amount)
  /\ activeEscrowCount' = SlotsAfterExpiry(id)
  /\ pendingAcceptance' = pendingAcceptance \ {id}
  /\ disputeToAgreement' = DisputesWithout(id)
  /\ CloseAgreement(id)
  /\ payouts' = Released(id, "refunded")
  /\ UNCHANGED <<now, nextSeq, agentStake, members, unstakeAt, capable,
                 eraVolume, requests>>


-----------------------------------------------------------------------------
(* The oracle's calls on a dispute question.                               *)

\* submit_response up to the third answer, which is what finalise_request asks
\* for.  Who answers what is chosen in the verdict.
PanelAnswers(id) ==
  /\ id \in DOMAIN requests
  /\ ~requests[id].answered
  /\ now <= requests[id].deadline
  /\ requests' = [requests EXCEPT ![id].answered = TRUE]
  /\ UNCHANGED <<now, escrowVars, agentVars, ledger>>

\* Too few answers at the deadline: the bounty is released, and the escrow is
\* not called.
ExpireRequest(id) ==
  /\ id \in DOMAIN requests
  /\ ~requests[id].answered
  /\ now > requests[id].deadline
  /\ ledger' = Unreserve(ledger, Buyer(id), requests[id].bounty)
  /\ requests' = Without(requests, id)
  /\ UNCHANGED <<now, escrowVars, agentVars>>

\* settle_dispute_from_oracle, in the balances left once the bounty is dealt
\* with.  The agreement's status is not looked at.
VerdictTooLate(id, balances) ==
  /\ id \notin Open
  /\ ledger' = balances
  /\ UNCHANGED <<escrowVars, agentVars>>

SettleDispute(id, how) ==
  /\ activeEscrowCount' = SlotReleased(Provider(id))
  /\ disputeToAgreement' = DisputesWithout(id)
  /\ CloseAgreement(id)
  /\ payouts' = Released(id, how)
  /\ UNCHANGED <<nextSeq, pendingAcceptance, agentStake, members, unstakeAt,
                 capable>>

BuyerWins(id, balances) ==
  /\ id \in Open
  /\ ledger' = Unreserve(balances, Buyer(id), agreements[id].amount)
  /\ SettleDispute(id, "refunded")
  /\ UNCHANGED eraVolume

DisputeFee(id) == Share(agreements[id].amount, DisputeBurnBps)

NetOfFee(id) == Saturating(agreements[id].amount - DisputeFee(id))

\* Mutant: the volume credited is what the buyer agreed to pay, bounty included.
VolumeBeforeBounty(id) == agreements[id].amount + Bounty(agreements[id])

\* The volume a provider earns by a verdict is what it is paid, while a
\* confirmation credits the fee as well.
VerdictVolume(id) == NetOfFee(id)

PaidByVerdict(id, balances) ==
  LET fee == DisputeFee(id)
  IN  Repatriate(Repatriate(balances, Buyer(id), Treasury, fee),
                 Buyer(id), Provider(id), NetOfFee(id))

ProviderWins(id, balances) ==
  /\ id \in Open
  /\ Provider(id) \in agentStake
  /\ ledger' = PaidByVerdict(id, balances)
  /\ eraVolume' = [eraVolume EXCEPT ![Provider(id)] = @ + VerdictVolume(id)]
  /\ SettleDispute(id, "paid")

\* The provider was evicted while the panel deliberated.  The money has moved
\* when add_era_escrow_volume refuses; the error undoes the removal of the
\* agreement, nothing after it runs, and finalise_request ignores it.
FailedVerdict(id, balances) ==
  /\ id \in Open
  /\ Provider(id) \notin agentStake
  /\ ledger' = PaidByVerdict(id, balances)
  /\ payouts' = Released(id, "paid")
  /\ UNCHANGED <<agreements, nextSeq, pendingAcceptance, disputeToAgreement,
                 activeAgreementCount, agentVars>>

VerdictDue(id) ==
  /\ id \in DOMAIN requests
  /\ requests[id].answered
  /\ now > requests[id].deadline + MinChallengeWindow

\* Mutant: every respondent is paid the whole bounty.
BountyToEach(id, n) ==
  Repatriate(ledger, Buyer(id), Panel, requests[id].bounty * n)

\* n of the panel agree and share the bounty; what the division leaves stays
\* in the buyer's reserve.
BountyShared(id, n) ==
  Repatriate(ledger, Buyer(id), Panel, (requests[id].bounty \div n) * n)

FinaliseForProvider(id) ==
  /\ VerdictDue(id)
  /\ requests' = Without(requests, id)
  /\ \E n \in PanelWinners :
       LET balances == BountyShared(id, n)
       IN  \/ ProviderWins(id, balances)
           \/ FailedVerdict(id, balances)
           \/ VerdictTooLate(id, balances)
  /\ UNCHANGED now

\* No consensus also decides for the buyer, who then keeps the bounty.
FinaliseForBuyer(id) ==
  /\ VerdictDue(id)
  /\ requests' = Without(requests, id)
  /\ \E balances \in {BountyShared(id, n) : n \in PanelWinners}
                     \cup {Unreserve(ledger, Buyer(id), requests[id].bounty)} :
       \/ BuyerWins(id, balances)
       \/ VerdictTooLate(id, balances)
  /\ UNCHANGED now

FinaliseRequest(id) == FinaliseForProvider(id) \/ FinaliseForBuyer(id)

-----------------------------------------------------------------------------
(* The agents pallet.  The stake itself is locked, outside the ledger.     *)

\* The collective refuses to induct a member twice, so an account evicted by
\* execute_slash, which leaves its membership behind, cannot come back.
Register(a) ==
  /\ a \notin agentStake
  /\ a \notin members
  /\ agentStake' = agentStake \cup {a}
  /\ members' = members \cup {a}
  /\ UNCHANGED <<now, escrowVars, unstakeAt, capable, activeEscrowCount,
                 eraVolume, ledger, requests>>

HoldsNoSlot(a) == activeEscrowCount[a] = 0

RequestUnstake(a) ==
  /\ a \in agentStake
  /\ a \notin DOMAIN unstakeAt
  /\ HoldsNoSlot(a)
  /\ unstakeAt' = Put(unstakeAt, a, now + UnstakeCooldown)
  /\ UNCHANGED <<now, escrowVars, agentStake, members, capable,
                 activeEscrowCount, eraVolume, ledger, requests>>

\* Mutant: the slots are looked at when the unstake is requested only.
MayLeaveUnchecked(a) ==
  /\ a \in agentStake
  /\ a \in DOMAIN unstakeAt
  /\ now >= unstakeAt[a]

\* The slots are counted again: an agreement may have been accepted meanwhile.
MayLeave(a) ==
  /\ a \in agentStake
  /\ a \in DOMAIN unstakeAt
  /\ now >= unstakeAt[a]
  /\ HoldsNoSlot(a)

CompleteUnstake(a) ==
  /\ MayLeave(a)
  /\ agentStake' = agentStake \ {a}
  /\ members' = members \ {a}
  /\ unstakeAt' = Without(unstakeAt, a)
  /\ capable' = capable \ {a}
  /\ UNCHANGED <<now, escrowVars, activeEscrowCount, eraVolume, ledger, requests>>

SetCapability(a) ==
  /\ a \in agentStake
  /\ capable' \in {capable \cup {a}, capable \ {a}}
  /\ UNCHANGED <<now, escrowVars, agentStake, members, unstakeAt,
                 activeEscrowCount, eraVolume, ledger, requests>>

\* A slash that leaves less than MinStake.  Only the AgentStake entry goes:
\* UnstakeAt, the membership, the capabilities and the slot count stay.
ExecuteSlash(a) ==
  /\ MaySlash
  /\ a \in agentStake
  /\ agentStake' = agentStake \ {a}
  /\ UNCHANGED <<now, escrowVars, members, unstakeAt, capable,
                 activeEscrowCount, eraVolume, ledger, requests>>

-----------------------------------------------------------------------------

AgreementCall(id) ==
  \/ AcceptAgreement(id) \/ ClosePending(id)   \/ RecordDelivery(id)
  \/ ConfirmDelivery(id) \/ DisputeDelivery(id) \/ ClaimRefund(id)
  \/ ExpireAgreement(id)
  \/ \E deadline \in 0 .. MaxBlock : ExtendDeadline(id, deadline)

OracleCall(id) == PanelAnswers(id) \/ ExpireRequest(id) \/ FinaliseRequest(id)

AgentCall(a) ==
  \/ Register(a) \/ RequestUnstake(a) \/ CompleteUnstake(a)
  \/ SetCapability(a) \/ ExecuteSlash(a)

Next ==
  \/ Tick
  \/ \E b \in Buyers, p \in Providers, amount \in Amounts,
       deliverBy \in 0 .. MaxBlock, needed \in BOOLEAN :
       CreateAgreement(b, p, amount, deliverBy, needed)
  \/ \E id \in Ids : AgreementCall(id) \/ OracleCall(id)
  \/ \E a \in Movers : AgentCall(a)

Spec == Init /\ [][Next]_vars

\* Blocks keep coming, and somebody makes the calls anyone may make.  Nothing
\* is assumed of the buyer, of the provider or of the panel.
Keepers ==
  /\ WF_vars(Tick)
  /\ \A id \in Ids : /\ WF_vars(ExpireAgreement(id))
                     /\ WF_vars(ExpireRequest(id))
                     /\ WF_vars(FinaliseRequest(id))

FairSpec == Spec /\ Keepers

-----------------------------------------------------------------------------
(* Properties.                                                             *)

\* Every variable keeps its shape, and every balance and count stays a natural
\* number although the calls subtract from them.
TypeOK ==
  /\ now \in Nat
  /\ Open \subseteq Ids
  /\ agreements \in [Open -> Agreement]
  /\ nextSeq \in [Buyers \X Providers -> 0 .. MaxSeq]
  /\ pendingAcceptance \subseteq Ids
  /\ disputeToAgreement \subseteq Ids
  /\ activeAgreementCount \in Nat
  /\ agentStake \subseteq Buyers \cup Providers
  /\ members \subseteq Buyers \cup Providers
  /\ DOMAIN unstakeAt \subseteq Providers
  /\ unstakeAt \in [DOMAIN unstakeAt -> Nat]
  /\ capable \subseteq Providers
  /\ activeEscrowCount \in [Providers -> Nat]
  /\ eraVolume \in [Providers -> Nat]
  /\ ledger \in Ledger(Accounts)
  /\ DOMAIN requests \subseteq Ids
  /\ requests \in [DOMAIN requests -> Question]
  /\ payouts \in [Ids -> Seq({"paid", "refunded"})]

\* ActiveEscrowCount is exactly the number of agreements a provider accepted
\* and that are still open, whichever of the eight doors the others left by and
\* in whatever order; ActiveAgreementCount counts the open ones.
SlotsMatchObligations ==
  /\ activeAgreementCount = Cardinality(Open)
  /\ \A p \in Providers : activeEscrowCount[p] = Cardinality(Obligations(p))

\* A provider that owes work has not completed an unstake, even when it accepted
\* the agreement while its unstake was cooling down.  (execute_slash takes the
\* AgentStake entry and leaves the membership; complete_unstake takes both.)
ObligedProviderHasNotLeft ==
  \A id \in Open : Accepted(id) => Provider(id) \in members

\* An agreement nobody consented to is open and has seen no delivery and no
\* dispute: no call reads a missing PendingAcceptance entry as consent by
\* mistake, and no closed agreement leaves an entry behind.
PendingIsUntouched ==
  \A id \in pendingAcceptance : id \in Open /\ agreements[id].status = "Created"

\* DisputeToAgreement holds the disputed agreements and nothing else.
DisputeMapExact ==
  disputeToAgreement = {id \in Open : agreements[id].status = "Disputed"}

\* A question whose key names an open agreement is about that very dispute.
QuestionsAreForDisputes ==
  \A id \in DOMAIN requests \cap Open : agreements[id].status = "Disputed"

\* Every door out of a dispute clears its entry in DisputeToAgreement and no other
\* door does; a question may outlive its agreement, but its late verdict never
\* decides an agreement opened since between the same two parties.
DisputesMatched == DisputeMapExact /\ QuestionsAreForDisputes

AgreementAmounts == [id \in Open |-> agreements[id].amount]
Bounties         == [id \in DOMAIN requests |-> requests[id].bounty]

\* What buyer b's reserve has to answer for.
Promised(b) ==
    SumFunctionOnSet(AgreementAmounts, {id \in Open : Buyer(id) = b})
  + SumFunctionOnSet(Bounties, {id \in DOMAIN requests : Buyer(id) = b})

\* The undivided reserve of a buyer covers all its open agreements and bounties,
\* so no best-effort release ever comes up short and takes from another.
ReserveCoversPromises == \A b \in Buyers : Promised(b) <= ledger.reserved[b]

\* The volume providers are credited for, which sizes their emissions, was paid
\* to them or as the fee on it.
EarnedVolumeWasPaid ==
  SumFunction(eraVolume) <=
    SumFunctionOnSet(ledger.free, Providers \cup {Treasury})

\* Every agreement is closed in the end, by the keepers if by nobody else: a
\* silent buyer, provider or panel cannot hold money or a slot for ever.
AgreementsClose == \A id \in Ids : (id \in Open) ~> (id \notin Open)

\* The removal from Agreements is the once-only token: an agreement's money is
\* released once.
PaidOnce == \A id \in Ids : Len(payouts[id]) <= 1

\* Once a buyer's agreements and questions are all closed, by whichever doors,
\* nothing of the buyer's stays reserved: the bounty carved out of a disputed
\* agreement's amount is the bounty the oracle releases.
NothingStranded ==
  \A b \in Buyers :
    (\A id \in Open \cup DOMAIN requests : Buyer(id) # b) => ledger.reserved[b] = 0

\* Where an agreement stands, as AgreementLifecycle sees it.
StageOf(id) ==
  CASE id \in Open /\ id \in pendingAcceptance  -> "pending"
    [] id \in Open /\ Accepted(id)              ->
         IF agreements[id].status = "Created" THEN "accepted"
                                              ELSE agreements[id].status
    [] id \notin Open                           ->
         IF id[3] < nextSeq[Pair(id)] THEN "closed" ELSE "none"

Stage == [id \in Ids |-> StageOf(id)]

Lifecycle == INSTANCE AgreementLifecycle WITH stage <- Stage

\* The escrow implements the life of an agreement as its two parties see it.
LifecycleSpec == Lifecycle!Spec

=============================================================================
