---------------------------- MODULE EscrowProofs ----------------------------
(***************************************************************************)
(* Machine-checked facts about Escrow, for every set of buyers and         *)
(* providers and every value of the runtime's parameters: its types, the   *)
(* counts and maps kept beside the agreements, the money behind them, and  *)
(* that it implements AgreementLifecycle.                                  *)
(***************************************************************************)
EXTENDS Escrow, CurrencyProofs, FiniteSetTheorems, TLAPS

-----------------------------------------------------------------------------
(* The operators the model is built from.                                  *)

\* Writing a key of a table leaves the others as they were.
LEMMA PutKey ==
  ASSUME NEW f, NEW key, NEW value
  PROVE  /\ DOMAIN Put(f, key, value) = DOMAIN f \cup {key}
         /\ Put(f, key, value)[key] = value
         /\ \A x \in DOMAIN f \ {key} : Put(f, key, value)[x] = f[x]
BY DEF Put

\* A table keeps the type of its values when a key is removed or written.
LEMMA TableType ==
  ASSUME NEW K, NEW V, NEW f, f \in [DOMAIN f -> V], DOMAIN f \subseteq K, NEW key
  PROVE  /\ DOMAIN Without(f, key) \subseteq K
         /\ Without(f, key) \in [DOMAIN Without(f, key) -> V]
         /\ \A value \in V : key \in K =>
              /\ DOMAIN Put(f, key, value) \subseteq K
              /\ Put(f, key, value) \in [DOMAIN Put(f, key, value) -> V]
BY DEF Without, Restrict, Put

\* A share of an amount, and a saturated difference, are natural numbers.
LEMMA Arithmetic ==
  /\ \A amount, bps \in Nat : Share(amount, bps) \in Nat
  /\ \A n \in Int : Saturating(n) \in Nat
<1>1. ASSUME NEW amount \in Nat, NEW bps \in Nat PROVE Share(amount, bps) \in Nat
  <2>1. amount * bps \in Nat
    OBVIOUS
  <2> QED BY <2>1 DEF Share
<1> QED BY <1>1 DEF Saturating

-----------------------------------------------------------------------------
(* The type invariant.                                                     *)

LEMMA TypeInit == Init => TypeOK
<1> SUFFICES ASSUME Init PROVE TypeOK
  OBVIOUS
<1> USE RuntimeParameters DEF Init
<1>1. ledger \in Ledger(Accounts)
  BY DEF Ledger
<1>2. nextSeq \in [Buyers \X Providers -> 0 .. MaxSeq]
  OBVIOUS
<1>3. /\ Open = {} /\ DOMAIN unstakeAt = {} /\ DOMAIN requests = {}
      /\ agreements \in [Open -> Agreement]
      /\ unstakeAt \in [DOMAIN unstakeAt -> Nat]
      /\ requests \in [DOMAIN requests -> Question]
  BY DEF Open
<1>4. payouts \in [Ids -> Seq({"paid", "refunded"})]
  OBVIOUS
<1>5. /\ activeEscrowCount \in [Providers -> Nat]
      /\ eraVolume \in [Providers -> Nat]
      /\ now \in Nat /\ activeAgreementCount \in Nat
  OBVIOUS
<1> QED BY <1>1, <1>2, <1>3, <1>4, <1>5 DEF TypeOK

\* What a key stands for.
LEMMA IdType ==
  ASSUME NEW id \in Ids
  PROVE  /\ Buyer(id) \in Buyers /\ Provider(id) \in Providers
         /\ Pair(id) \in Buyers \X Providers
         /\ id[3] \in Nat /\ id[3] < MaxSeq
         /\ Buyer(id) \in Accounts /\ Provider(id) \in Accounts
         /\ id = <<Buyer(id), Provider(id), id[3]>>
<1>1. /\ id \in Buyers \X Providers \X (0 .. MaxSeq - 1)
      /\ MaxSeq \in Nat
  BY RuntimeParameters DEF Ids
<1> QED BY <1>1 DEF Buyer, Provider, Pair, Accounts

\* Closing an agreement, and the slot and history it leaves.
LEMMA CloseType ==
  ASSUME TypeOK, NEW id \in Open, CloseAgreement(id)
  PROVE  /\ Open' = Open \ {id}
         /\ Open' \subseteq Ids
         /\ agreements' \in [Open' -> Agreement]
         /\ \A i \in Open' : agreements'[i] = agreements[i]
         /\ activeAgreementCount' \in Nat
<1>1. activeAgreementCount' \in Nat
  BY Arithmetic DEF TypeOK, CloseAgreement
<1>2. /\ DOMAIN agreements' = DOMAIN agreements \ {id}
      /\ \A i \in DOMAIN agreements' : agreements'[i] = agreements[i]
      /\ agreements' \in [DOMAIN agreements' -> Agreement]
  BY DEF CloseAgreement, TypeOK, Open, Without, Restrict
<1> QED BY <1>1, <1>2 DEF TypeOK, Open

LEMMA BookkeepingType ==
  ASSUME TypeOK, NEW id \in Ids
  PROVE  /\ SlotReleased(Provider(id)) \in [Providers -> Nat]
         /\ SlotTaken(Provider(id)) \in [Providers -> Nat]
         /\ SlotsAfterExpiry(id) \in [Providers -> Nat]
         /\ \A how \in {"paid", "refunded"} :
              Released(id, how) \in [Ids -> Seq({"paid", "refunded"})]
         /\ DisputesWithout(id) \subseteq Ids
<1>1. Provider(id) \in Providers
  BY IdType
<1>2. SlotReleased(Provider(id)) \in [Providers -> Nat]
  BY <1>1, Arithmetic DEF TypeOK, SlotReleased
<1>3. SlotTaken(Provider(id)) \in [Providers -> Nat]
  BY <1>1 DEF TypeOK, SlotTaken
<1>4. ASSUME NEW how \in {"paid", "refunded"}
      PROVE  Released(id, how) \in [Ids -> Seq({"paid", "refunded"})]
  BY <1>4 DEF TypeOK, Released
<1> QED BY <1>2, <1>3, <1>4 DEF TypeOK, SlotsAfterExpiry, DisputesWithout

\* The ledgers a verdict leaves, whatever is left in the reserve.
LEMMA VerdictLedgers ==
  ASSUME TypeOK, NEW id \in Open, NEW balances \in Ledger(Accounts)
  PROVE  /\ VerdictVolume(id) \in Nat
         /\ PaidByVerdict(id, balances) \in Ledger(Accounts)
         /\ Unreserve(balances, Buyer(id), agreements[id].amount) \in Ledger(Accounts)
<1>1. /\ agreements[id].amount \in Nat /\ DisputeBurnBps \in Nat
      /\ Buyer(id) \in Accounts /\ Provider(id) \in Accounts /\ Treasury \in Accounts
  BY IdType, RuntimeParameters DEF TypeOK, Agreement, Accounts
<1>2. DisputeFee(id) \in Nat
  BY <1>1, Arithmetic DEF DisputeFee
<1>3. NetOfFee(id) \in Nat /\ VerdictVolume(id) \in Nat
  BY <1>1, <1>2 DEF VerdictVolume, NetOfFee, Saturating
<1>4. PaidByVerdict(id, balances) \in Ledger(Accounts)
  <2>1. Repatriate(balances, Buyer(id), Treasury, DisputeFee(id)) \in Ledger(Accounts)
    BY <1>1, <1>2, RepatriateType
  <2> QED BY <1>1, <1>3, <2>1, RepatriateType DEF PaidByVerdict
<1> QED BY <1>1, <1>3, <1>4, UnreserveType

LEMMA BountyLedgers ==
  ASSUME TypeOK, NEW id \in DOMAIN requests
  PROVE  /\ \A n \in PanelWinners : BountyShared(id, n) \in Ledger(Accounts)
         /\ Unreserve(ledger, Buyer(id), requests[id].bounty) \in Ledger(Accounts)
<1>1. /\ requests[id].bounty \in Nat
      /\ Buyer(id) \in Accounts /\ Panel \in Accounts
      /\ ledger \in Ledger(Accounts)
  BY IdType DEF TypeOK, Question, Accounts
<1>2. ASSUME NEW n \in PanelWinners
      PROVE  BountyShared(id, n) \in Ledger(Accounts)
  <2>1. n \in Nat \ {0}
    BY RuntimeParameters
  <2>2. requests[id].bounty \div n \in Nat
    BY <1>1, <2>1
  <2>3. (requests[id].bounty \div n) * n \in Nat
    BY <2>1, <2>2
  <2> QED BY <1>1, <2>3, RepatriateType DEF BountyShared
<1> QED BY <1>1, <1>2, UnreserveType

\* The escrow's own calls keep the types.
LEMMA TypeAgreementCall ==
  ASSUME TypeOK, NEW id \in Ids, AgreementCall(id)
  PROVE  TypeOK'
<1>1. /\ Buyer(id) \in Accounts /\ Provider(id) \in Accounts
      /\ Treasury \in Accounts /\ Provider(id) \in Providers
  BY IdType DEF Accounts
<1>2. ASSUME id \in Open
      PROVE  /\ agreements[id] \in Agreement /\ agreements[id].amount \in Nat
             /\ Unreserve(ledger, Buyer(id), agreements[id].amount) \in Ledger(Accounts)
  BY <1>1, <1>2, UnreserveType DEF TypeOK, Agreement
<1>3. CASE AcceptAgreement(id)
  BY <1>3, BookkeepingType DEF AcceptAgreement, TypeOK, Open
<1>4. CASE ClosePending(id)
  <2>1. id \in Open /\ CloseAgreement(id)
    BY <1>4 DEF ClosePending
  <2> QED BY <1>2, <1>4, <2>1, CloseType, BookkeepingType
          DEF ClosePending, TypeOK, agentVars
<1>5. CASE RecordDelivery(id)
  <2>1. id \in Open /\ agreements' = [agreements EXCEPT ![id].status = "Delivered"]
    BY <1>5 DEF RecordDelivery, MayRecordDelivery
  <2>2. Open' = Open /\ agreements' \in [Open -> Agreement]
    BY <1>2, <2>1 DEF TypeOK, Open, Agreement, Status
  <2> QED BY <1>5, <2>2 DEF RecordDelivery, TypeOK, agentVars
<1>6. CASE ConfirmDelivery(id)
  <2> DEFINE amount == agreements[id].amount
             fee    == Share(amount, CompletionFeeBps)
             net    == Repatriate(ledger, Buyer(id), Provider(id), Saturating(amount - fee))
  <2>1. id \in Open /\ CloseAgreement(id)
    BY <1>6 DEF ConfirmDelivery
  <2>2. amount \in Nat /\ fee \in Nat /\ Saturating(amount - fee) \in Nat
    <3>1. amount \in Nat /\ CompletionFeeBps \in Nat
      BY <1>2, <2>1, RuntimeParameters
    <3>2. fee \in Nat
      BY <3>1, Arithmetic
    <3> QED BY <3>1, <3>2 DEF Saturating
  <2>3. net \in Ledger(Accounts)
    BY <1>1, <2>2, RepatriateType DEF TypeOK
  <2>4. ledger' \in Ledger(Accounts)
    BY <1>1, <1>6, <2>2, <2>3, RepatriateType DEF ConfirmDelivery
  <2>5. eraVolume' \in [Providers -> Nat]
    BY <1>1, <1>6, <2>2 DEF ConfirmDelivery, TypeOK
  <2> QED BY <1>6, <2>1, <2>4, <2>5, CloseType, BookkeepingType
          DEF ConfirmDelivery, TypeOK
<1>7. CASE DisputeDelivery(id)
  <2> DEFINE a == agreements[id]
  <2>1. id \in Open
    BY <1>7 DEF DisputeDelivery
  <2>2. a.amount \in Nat /\ Bounty(a) \in Nat
    BY <1>2, <2>1, Arithmetic, RuntimeParameters DEF Bounty
  <2>3. Saturating(a.amount - Bounty(a)) \in Nat
    BY <2>2 DEF Saturating
  <2>4. ledger' \in Ledger(Accounts)
    BY <1>1, <1>7, <2>2, ReserveType DEF DisputeDelivery, TypeOK
  <2>5. Open' = Open /\ agreements' \in [Open -> Agreement]
    BY <1>2, <1>7, <2>1, <2>3 DEF DisputeDelivery, TypeOK, Open, Agreement, Status
  <2>6. [bounty |-> Bounty(a), deadline |-> now + DisputeResponseWindow,
         answered |-> FALSE] \in Question
    <3>1. DisputeResponseWindow \in Nat /\ now \in Nat
      BY RuntimeParameters DEF TypeOK
    <3>2. now + DisputeResponseWindow \in Nat
      BY <3>1
    <3> QED BY <2>2, <3>2 DEF Question
  <2>7. /\ DOMAIN requests' \subseteq Ids
        /\ requests' \in [DOMAIN requests' -> Question]
    BY <1>7, <2>6 DEF DisputeDelivery, TypeOK, Put
  <2>8. disputeToAgreement' \subseteq Ids
    BY <1>7 DEF DisputeDelivery, TypeOK
  <2> QED BY <1>7, <2>4, <2>5, <2>7, <2>8 DEF DisputeDelivery, TypeOK, agentVars
<1>8. CASE ClaimRefund(id)
  <2>1. id \in Open /\ CloseAgreement(id)
    BY <1>8 DEF ClaimRefund
  <2> QED BY <1>2, <1>8, <2>1, CloseType, BookkeepingType DEF ClaimRefund, TypeOK
<1>9. CASE ExpireAgreement(id)
  <2>1. id \in Open /\ CloseAgreement(id)
    BY <1>9 DEF ExpireAgreement
  <2> QED BY <1>2, <1>9, <2>1, CloseType, BookkeepingType DEF ExpireAgreement, TypeOK
<1>10. CASE \E deadline \in 0 .. MaxBlock : ExtendDeadline(id, deadline)
  <2>1. PICK deadline \in 0 .. MaxBlock : ExtendDeadline(id, deadline)
    BY <1>10
  <2>2. deadline \in Nat
    BY RuntimeParameters
  <2>3. Open' = Open /\ agreements' \in [Open -> Agreement]
    <3>1. agreements' = [agreements EXCEPT ![id].deliverBy = deadline]
      BY <2>1 DEF ExtendDeadline
    <3>2. [agreements[id] EXCEPT !.deliverBy = deadline] \in Agreement
      BY <1>2, <2>1, <2>2 DEF ExtendDeadline, Agreement
    <3> QED BY <3>1, <3>2 DEF TypeOK, Open
  <2> QED BY <2>1, <2>3 DEF ExtendDeadline, TypeOK, agentVars
<1> QED BY <1>3, <1>4, <1>5, <1>6, <1>7, <1>8, <1>9, <1>10 DEF AgreementCall

\* What the three verdicts and the swallowed one do to the types.
LEMMA TypeVerdict ==
  ASSUME TypeOK, NEW id \in Ids, NEW balances \in Ledger(Accounts),
         requests' = Without(requests, id), now' = now,
         \/ BuyerWins(id, balances)    \/ ProviderWins(id, balances)
         \/ FailedVerdict(id, balances) \/ VerdictTooLate(id, balances)
  PROVE  TypeOK'
<1>1. /\ DOMAIN requests' \subseteq Ids
      /\ requests' \in [DOMAIN requests' -> Question]
  BY DEF TypeOK, Without, Restrict
<1>2. CASE BuyerWins(id, balances)
  <2>1. id \in Open /\ CloseAgreement(id)
    BY <1>2 DEF BuyerWins, SettleDispute
  <2> QED BY <1>1, <1>2, <2>1, VerdictLedgers, CloseType, BookkeepingType
          DEF BuyerWins, SettleDispute, TypeOK
<1>3. CASE ProviderWins(id, balances)
  <2>1. id \in Open /\ CloseAgreement(id)
    BY <1>3 DEF ProviderWins, SettleDispute
  <2>2. eraVolume' \in [Providers -> Nat]
    <3>1. eraVolume' = [eraVolume EXCEPT ![Provider(id)] =
                          eraVolume[Provider(id)] + VerdictVolume(id)]
      BY <1>3 DEF ProviderWins
    <3>2. Provider(id) \in Providers
      BY IdType
    <3>3. VerdictVolume(id) \in Nat
      BY <2>1, VerdictLedgers
    <3> QED BY <3>1, <3>2, <3>3 DEF TypeOK
  <2> QED BY <1>1, <1>3, <2>1, <2>2, VerdictLedgers, CloseType, BookkeepingType
          DEF ProviderWins, SettleDispute, TypeOK
<1>4. CASE FailedVerdict(id, balances)
  BY <1>1, <1>4, VerdictLedgers, BookkeepingType
     DEF FailedVerdict, TypeOK, Open, agentVars
<1>5. CASE VerdictTooLate(id, balances)
  BY <1>1, <1>5 DEF VerdictTooLate, TypeOK, Open, escrowVars, agentVars
<1> QED BY <1>2, <1>3, <1>4, <1>5

LEMMA TypeOracleCall ==
  ASSUME TypeOK, NEW id \in Ids, OracleCall(id)
  PROVE  TypeOK'
<1>1. CASE PanelAnswers(id)
  <2>1. /\ DOMAIN requests' \subseteq Ids
        /\ requests' \in [DOMAIN requests' -> Question]
    BY <1>1 DEF PanelAnswers, TypeOK, Question
  <2> QED BY <1>1, <2>1 DEF PanelAnswers, TypeOK, Open, escrowVars, agentVars
<1>2. CASE ExpireRequest(id)
  <2>1. /\ DOMAIN requests' \subseteq Ids
        /\ requests' \in [DOMAIN requests' -> Question]
    BY <1>2 DEF ExpireRequest, TypeOK, Without, Restrict
  <2>2. ledger' \in Ledger(Accounts)
    BY <1>2, BountyLedgers DEF ExpireRequest
  <2> QED BY <1>2, <2>1, <2>2 DEF ExpireRequest, TypeOK, Open, escrowVars, agentVars
<1>3. CASE FinaliseForProvider(id)
  BY <1>3, BountyLedgers, TypeVerdict DEF FinaliseForProvider, VerdictDue
<1>4. CASE FinaliseForBuyer(id)
  BY <1>4, BountyLedgers, TypeVerdict DEF FinaliseForBuyer, VerdictDue
<1> QED BY <1>1, <1>2, <1>3, <1>4 DEF OracleCall, FinaliseRequest

LEMMA TypeAgentCall ==
  ASSUME TypeOK, NEW a \in Movers, AgentCall(a)
  PROVE  TypeOK'
<1>1. a \in Providers /\ now + UnstakeCooldown \in Nat
  <2>1. a \in Providers /\ UnstakeCooldown \in Nat /\ now \in Nat
    BY RuntimeParameters DEF TypeOK
  <2> QED BY <2>1
<1>2. CASE Register(a)
  BY <1>1, <1>2 DEF Register, TypeOK, Open, escrowVars
<1>3. CASE RequestUnstake(a)
  <2>1. /\ DOMAIN unstakeAt' \subseteq Providers
        /\ unstakeAt' \in [DOMAIN unstakeAt' -> Nat]
    BY <1>1, <1>3 DEF RequestUnstake, TypeOK, Put
  <2> QED BY <1>3, <2>1 DEF RequestUnstake, TypeOK, Open, escrowVars
<1>4. CASE CompleteUnstake(a)
  <2>1. /\ DOMAIN unstakeAt' \subseteq Providers
        /\ unstakeAt' \in [DOMAIN unstakeAt' -> Nat]
    BY <1>4 DEF CompleteUnstake, TypeOK, Without, Restrict
  <2> QED BY <1>4, <2>1 DEF CompleteUnstake, TypeOK, Open, escrowVars
<1>5. CASE SetCapability(a)
  BY <1>1, <1>5 DEF SetCapability, TypeOK, Open, escrowVars
<1>6. CASE ExecuteSlash(a)
  BY <1>6 DEF ExecuteSlash, TypeOK, Open, escrowVars
<1> QED BY <1>2, <1>3, <1>4, <1>5, <1>6 DEF AgentCall

\* What create_agreement writes: a key never handed out before, and a fresh
\* entry under it.
NextId(b, p) == <<b, p, nextSeq[<<b, p>>]>>

Opens(b, p) ==
  /\ NextId(b, p) \in Ids /\ Pair(NextId(b, p)) = <<b, p>>
  /\ nextSeq[<<b, p>>] \in Nat /\ nextSeq[<<b, p>>] < MaxSeq
  /\ nextSeq' = [nextSeq EXCEPT ![<<b, p>>] = @ + 1]
  /\ Open' = Open \cup {NextId(b, p)}
  /\ \A i \in Open \ {NextId(b, p)} : agreements'[i] = agreements[i]
  /\ agreements' \in [Open' -> Agreement]
  /\ agreements'[NextId(b, p)].status = "Created"
  /\ pendingAcceptance' = pendingAcceptance \cup {NextId(b, p)}
  /\ ledger' \in Ledger(Accounts)

LEMMA Creation ==
  ASSUME TypeOK, NEW b \in Buyers, NEW p \in Providers, NEW amount \in Amounts,
         NEW deliverBy \in 0 .. MaxBlock, NEW needed \in BOOLEAN,
         CreateAgreement(b, p, amount, deliverBy, needed)
  PROVE  Opens(b, p)
<1> DEFINE id == <<b, p, nextSeq[<<b, p>>]>>
           entry == [amount |-> amount, deliverBy |-> deliverBy, createdAt |-> now,
                     openedAt |-> 0, status |-> "Created", needsCapability |-> needed]
<1>1. /\ b # p /\ nextSeq[<<b, p>>] < MaxSeq /\ nextSeq[<<b, p>>] \in Nat
      /\ amount \in Nat /\ MaxSeq \in Nat /\ b \in Accounts
  BY RuntimeParameters DEF CreateAgreement, FreshSeq, TypeOK, Accounts
<1>2. id \in Ids /\ Pair(id) = <<b, p>>
  BY <1>1 DEF Ids, Pair
<1>3. entry \in Agreement /\ entry.status = "Created"
  <2>1. deliverBy \in Nat /\ now \in Nat
    BY RuntimeParameters DEF TypeOK
  <2> QED BY <1>1, <2>1 DEF Agreement, Status
<1>4. agreements' = Put(agreements, id, entry)
  BY DEF CreateAgreement, FreshSeq
<1>5. /\ Open' = Open \cup {id}
      /\ \A i \in Open \ {id} : agreements'[i] = agreements[i]
      /\ agreements'[id] = entry
      /\ agreements' \in [Open' -> Agreement]
  <2> HIDE DEF entry, id
  <2> QED BY <1>3, <1>4 DEF Put, Open, TypeOK
<1>6. ledger' \in Ledger(Accounts)
  BY <1>1, ReserveType DEF CreateAgreement, TypeOK
<1>7. /\ pendingAcceptance' = pendingAcceptance \cup {id}
      /\ nextSeq' = [nextSeq EXCEPT ![<<b, p>>] = @ + 1]
  BY DEF CreateAgreement, FreshSeq
<1> QED BY <1>1, <1>2, <1>3, <1>5, <1>6, <1>7 DEF Opens, NextId

LEMMA TypeCreateAgreement ==
  ASSUME TypeOK, NEW b \in Buyers, NEW p \in Providers, NEW amount \in Amounts,
         NEW deliverBy \in 0 .. MaxBlock, NEW needed \in BOOLEAN,
         CreateAgreement(b, p, amount, deliverBy, needed)
  PROVE  TypeOK'
<1> DEFINE id == NextId(b, p)
<1>0. Opens(b, p)
  BY Creation
<1>1. /\ id \in Ids /\ ledger' \in Ledger(Accounts)
      /\ nextSeq[<<b, p>>] \in Nat /\ nextSeq[<<b, p>>] < MaxSeq
      /\ nextSeq' = [nextSeq EXCEPT ![<<b, p>>] = @ + 1]
      /\ Open' = Open \cup {id} /\ agreements' \in [Open' -> Agreement]
      /\ pendingAcceptance' = pendingAcceptance \cup {id}
  BY <1>0 DEF Opens
<1>2. nextSeq' \in [Buyers \X Providers -> 0 .. MaxSeq]
  <2>1. MaxSeq \in Nat /\ nextSeq \in [Buyers \X Providers -> 0 .. MaxSeq]
    BY RuntimeParameters DEF TypeOK
  <2>2. nextSeq[<<b, p>>] + 1 \in 0 .. MaxSeq
    BY <1>1, <2>1
  <2> QED BY <1>1, <2>1, <2>2
<1>3. Open' \subseteq Ids /\ pendingAcceptance' \subseteq Ids
  BY <1>1 DEF TypeOK
<1>4. activeAgreementCount' \in Nat
  BY DEF CreateAgreement, TypeOK
<1>5. UNCHANGED <<now, disputeToAgreement, payouts, agentVars, requests>>
  BY DEF CreateAgreement
<1> QED BY <1>1, <1>2, <1>3, <1>4, <1>5 DEF TypeOK, agentVars

LEMMA TypeStep == TypeOK /\ [Next]_vars => TypeOK'
<1> SUFFICES ASSUME TypeOK, [Next]_vars PROVE TypeOK'
  OBVIOUS
<1>1. CASE Tick
  BY <1>1 DEF Tick, TypeOK, Open, escrowVars, agentVars
<1>2. CASE \E b \in Buyers, p \in Providers, amount \in Amounts,
             deliverBy \in 0 .. MaxBlock, needed \in BOOLEAN :
             CreateAgreement(b, p, amount, deliverBy, needed)
  BY <1>2, TypeCreateAgreement
<1>3. CASE \E id \in Ids : AgreementCall(id) \/ OracleCall(id)
  BY <1>3, TypeAgreementCall, TypeOracleCall
<1>4. CASE \E a \in Movers : AgentCall(a)
  BY <1>4, TypeAgentCall
<1>5. CASE UNCHANGED vars
  BY <1>5 DEF vars, TypeOK, Open, escrowVars, agentVars
<1> QED BY <1>1, <1>2, <1>3, <1>4, <1>5 DEF Next

\* Balances, counts and histories keep their types for ever: the saturating
\* counters and the best-effort balance operations never leave the naturals.
THEOREM TypeCorrect == Spec => []TypeOK
<1> QED BY TypeInit, TypeStep, PTL DEF Spec

-----------------------------------------------------------------------------
(* The inductive invariant.                                                *)
(*                                                                         *)
(* None of the safety invariants is inductive alone.  The slot counts need *)
(* the pending entries to be of undelivered agreements, or a door that is  *)
(* open to accepted agreements only could meet a pending one; those need   *)
(* the dispute questions to be about disputes, because the verdict looks   *)
(* at no status; and those need keys never to be used twice, which is the  *)
(* one fact the runs do not check.                                         *)

\* Every key in use was handed out by NextSeq.
KeysWereHandedOut ==
  \A id \in Open \cup DOMAIN requests : id[3] < nextSeq[Pair(id)]

Safe ==
  /\ IsFiniteSet(Open)
  /\ KeysWereHandedOut
  /\ agentStake \subseteq members
  /\ SlotsMatchObligations
  /\ ObligedProviderHasNotLeft
  /\ PendingIsUntouched
  /\ DisputeMapExact
  /\ QuestionsAreForDisputes

IInv == TypeOK /\ Safe

LEMMA SafeInit == Init => Safe
<1> SUFFICES ASSUME Init PROVE Safe
  OBVIOUS
<1>1. Open = {} /\ DOMAIN requests = {} /\ pendingAcceptance = {}
      /\ disputeToAgreement = {} /\ activeAgreementCount = 0
      /\ activeEscrowCount = [p \in Providers |-> 0] /\ agentStake = members
  BY DEF Init, Open
<1>2. IsFiniteSet({}) /\ Cardinality({}) = 0
  BY FS_EmptySet
<1>3. \A p \in Providers : Obligations(p) = {}
  BY <1>1 DEF Obligations
<1>4. SlotsMatchObligations
  BY <1>1, <1>2, <1>3 DEF SlotsMatchObligations
<1> QED BY <1>1, <1>2, <1>4 DEF Safe, KeysWereHandedOut, ObligedProviderHasNotLeft,
        PendingIsUntouched, DisputeMapExact, QuestionsAreForDisputes

LEMMA ObligationsFinite ==
  ASSUME IsFiniteSet(Open), NEW p
  PROVE  IsFiniteSet(Obligations(p))
<1>1. Obligations(p) \subseteq Open
  BY DEF Obligations
<1> QED BY <1>1, FS_Subset

\* The counts after an agreement has left by any door: the slot is released
\* exactly when the agreement held one.
LEMMA CountsAfterDoor ==
  ASSUME TypeOK, Safe, NEW id \in Open, Open' = Open \ {id},
         activeAgreementCount' = Saturating(activeAgreementCount - 1),
         activeEscrowCount' = IF Accepted(id) THEN SlotReleased(Provider(id))
                                              ELSE activeEscrowCount,
         pendingAcceptance' = pendingAcceptance \ {id}
  PROVE  SlotsMatchObligations'
<1>1. Provider(id) \in Providers
  BY IdType DEF TypeOK
<1>2. activeAgreementCount' = Cardinality(Open')
  <2>1. /\ Cardinality(Open \ {id}) = Cardinality(Open) - 1
        /\ Cardinality(Open) \in Nat
        /\ Cardinality(Open \ {id}) \in Nat
    <3>1. IsFiniteSet(Open)
      BY DEF Safe
    <3>2. IsFiniteSet(Open \ {id})
      BY <3>1, FS_RemoveElement
    <3> QED BY <3>1, <3>2, FS_RemoveElement, FS_CardinalityType
  <2>2. activeAgreementCount = Cardinality(Open)
    BY DEF Safe, SlotsMatchObligations
  <2> QED BY <2>1, <2>2 DEF Saturating
<1>3. ASSUME NEW p \in Providers
      PROVE  activeEscrowCount'[p] = Cardinality(Obligations(p)')
  <2>1. Obligations(p)' = Obligations(p) \ {id}
    BY DEF Obligations, Accepted
  <2>2. activeEscrowCount[p] = Cardinality(Obligations(p))
    BY DEF Safe, SlotsMatchObligations
  <2>3. CASE id \in Obligations(p)
    <3>1. Accepted(id) /\ Provider(id) = p
      BY <2>3 DEF Obligations
    <3>2. activeEscrowCount'[p] = Saturating(activeEscrowCount[p] - 1)
      BY <3>1 DEF SlotReleased, TypeOK
    <3>3. IsFiniteSet(Obligations(p))
      BY ObligationsFinite DEF Safe
    <3>4. Cardinality(Obligations(p) \ {id}) = Cardinality(Obligations(p)) - 1
      BY <2>3, <3>3, FS_RemoveElement
    <3>5. Cardinality(Obligations(p) \ {id}) \in Nat /\ Cardinality(Obligations(p)) \in Nat
      BY <3>3, FS_RemoveElement, FS_CardinalityType
    <3> QED BY <2>1, <2>2, <3>2, <3>4, <3>5 DEF Saturating
  <2>4. CASE id \notin Obligations(p)
    <3>1. Obligations(p)' = Obligations(p)
      BY <2>1, <2>4
    <3>2. ~(Accepted(id) /\ Provider(id) = p)
      BY <2>4 DEF Obligations
    <3>3. activeEscrowCount'[p] = activeEscrowCount[p]
      BY <1>1, <3>2 DEF SlotReleased, TypeOK
    <3> QED BY <2>2, <3>1, <3>3
  <2> QED BY <2>3, <2>4
<1> QED BY <1>2, <1>3 DEF SlotsMatchObligations

\* Every door out of an agreement is of this shape, and keeps the invariant.
LEMMA SafeDoor ==
  ASSUME TypeOK, Safe, NEW id \in Open, CloseAgreement(id),
         activeEscrowCount' = IF Accepted(id) THEN SlotReleased(Provider(id))
                                              ELSE activeEscrowCount,
         pendingAcceptance' = pendingAcceptance \ {id},
         disputeToAgreement' = disputeToAgreement \ {id},
         DOMAIN requests' \subseteq DOMAIN requests,
         UNCHANGED <<nextSeq, agentStake, members>>
  PROVE  Safe'
<1>1. Open' = Open \ {id} /\ \A i \in Open' : agreements'[i] = agreements[i]
  BY CloseType
<1>2. IsFiniteSet(Open')
  BY <1>1, FS_RemoveElement DEF Safe
<1>3. SlotsMatchObligations'
  BY <1>1, CountsAfterDoor DEF CloseAgreement
<1>4. KeysWereHandedOut'
  BY <1>1 DEF Safe, KeysWereHandedOut
<1>5. ObligedProviderHasNotLeft'
  BY <1>1 DEF Safe, ObligedProviderHasNotLeft, Accepted
<1>6. PendingIsUntouched'
  BY <1>1 DEF Safe, PendingIsUntouched
<1>7. DisputeMapExact'
  BY <1>1 DEF Safe, DisputeMapExact
<1>8. QuestionsAreForDisputes'
  BY <1>1 DEF Safe, QuestionsAreForDisputes
<1> QED BY <1>2, <1>3, <1>4, <1>5, <1>6, <1>7, <1>8 DEF Safe

\* A step that opens and closes nothing, and changes no consent and no status.
LEMMA SafeAside ==
  ASSUME TypeOK, Safe, Open' = Open,
         \A i \in Open : agreements'[i].status = agreements[i].status,
         DOMAIN requests' \subseteq DOMAIN requests,
         agentStake' \subseteq members',
         \A id \in Open : Accepted(id) => Provider(id) \in members',
         UNCHANGED <<nextSeq, pendingAcceptance, disputeToAgreement,
                     activeAgreementCount, activeEscrowCount>>
  PROVE  Safe'
<1>1. SlotsMatchObligations'
  BY DEF Safe, SlotsMatchObligations, Obligations, Accepted
<1>2. KeysWereHandedOut'
  BY DEF Safe, KeysWereHandedOut
<1>3. ObligedProviderHasNotLeft'
  BY DEF Safe, ObligedProviderHasNotLeft, Accepted
<1>4. PendingIsUntouched'
  BY DEF Safe, PendingIsUntouched
<1>5. DisputeMapExact'
  BY DEF Safe, DisputeMapExact
<1>6. QuestionsAreForDisputes'
  BY DEF Safe, QuestionsAreForDisputes
<1> QED BY <1>1, <1>2, <1>3, <1>4, <1>5, <1>6 DEF Safe

\* A new agreement: a key no open agreement and no question has, pending, and
\* on nobody's slot count.
LEMMA SafeCreateAgreement ==
  ASSUME TypeOK, Safe, NEW b \in Buyers, NEW p \in Providers, NEW amount \in Amounts,
         NEW deliverBy \in 0 .. MaxBlock, NEW needed \in BOOLEAN,
         CreateAgreement(b, p, amount, deliverBy, needed)
  PROVE  Safe'
<1> DEFINE id == NextId(b, p)
<1>0. Opens(b, p)
  BY Creation
<1>1. /\ id \in Ids /\ Pair(id) = <<b, p>> /\ id[3] = nextSeq[<<b, p>>]
      /\ nextSeq[<<b, p>>] \in Nat
      /\ nextSeq' = [nextSeq EXCEPT ![<<b, p>>] = @ + 1]
      /\ Open' = Open \cup {id}
      /\ \A i \in Open \ {id} : agreements'[i] = agreements[i]
      /\ agreements'[id].status = "Created"
      /\ pendingAcceptance' = pendingAcceptance \cup {id}
  BY <1>0 DEF Opens, NextId
<1>2. /\ activeAgreementCount' = activeAgreementCount + 1
      /\ UNCHANGED <<disputeToAgreement, agentStake, members, activeEscrowCount, requests>>
  BY DEF CreateAgreement, agentVars
<1>3. id \notin Open /\ id \notin DOMAIN requests
  <2>1. id[3] = nextSeq[Pair(id)]
    BY <1>1
  <2> QED BY <1>1, <2>1 DEF Safe, KeysWereHandedOut
<1>4. id \notin pendingAcceptance /\ id \notin disputeToAgreement
  BY <1>3 DEF Safe, PendingIsUntouched, DisputeMapExact
<1> HIDE DEF id
<1>5. IsFiniteSet(Open') /\ Cardinality(Open') = Cardinality(Open) + 1
  BY <1>1, <1>3, FS_AddElement DEF Safe
<1>6. SlotsMatchObligations'
  <2>1. ASSUME NEW q \in Providers PROVE Obligations(q)' = Obligations(q)
    BY <1>1, <1>3 DEF Obligations, Accepted
  <2> QED BY <1>2, <1>5, <2>1 DEF Safe, SlotsMatchObligations
<1>7. KeysWereHandedOut'
  <2>1. ASSUME NEW i \in Open' \cup DOMAIN requests' PROVE i[3] < nextSeq'[Pair(i)]
    <3>1. i \in Ids /\ Pair(i) \in Buyers \X Providers /\ i[3] \in Nat
      BY <1>1, <1>2, <2>1, IdType DEF TypeOK
    <3>2. nextSeq[Pair(i)] \in Nat /\ nextSeq[Pair(i)] <= nextSeq'[Pair(i)]
      <4>1. MaxSeq \in Nat /\ nextSeq \in [Buyers \X Providers -> 0 .. MaxSeq]
        BY RuntimeParameters DEF TypeOK
      <4>2. nextSeq[Pair(i)] \in Nat
        BY <3>1, <4>1
      <4>3. \/ nextSeq'[Pair(i)] = nextSeq[Pair(i)]
            \/ nextSeq'[Pair(i)] = nextSeq[Pair(i)] + 1
        BY <1>1, <3>1, <4>1
      <4> QED BY <4>2, <4>3
    <3>3. CASE i = id
      BY <1>1, <3>1, <3>3 DEF TypeOK
    <3>4. CASE i # id
      <4>1. i[3] < nextSeq[Pair(i)]
        BY <1>1, <1>2, <2>1, <3>4 DEF Safe, KeysWereHandedOut
      <4>2. nextSeq'[Pair(i)] \in Nat
        BY <1>1, <3>1, <3>2 DEF TypeOK
      <4> QED BY <3>1, <3>2, <4>1, <4>2
    <3> QED BY <3>3, <3>4
  <2> QED BY <2>1 DEF KeysWereHandedOut
<1>8. ObligedProviderHasNotLeft'
  BY <1>1, <1>2 DEF Safe, ObligedProviderHasNotLeft, Accepted
<1>9. PendingIsUntouched'
  BY <1>1, <1>3 DEF Safe, PendingIsUntouched
<1>10. DisputeMapExact'
  BY <1>1, <1>2, <1>3 DEF Safe, DisputeMapExact
<1>11. QuestionsAreForDisputes'
  BY <1>1, <1>2, <1>3 DEF Safe, QuestionsAreForDisputes
<1>12. agentStake' \subseteq members'
  BY <1>2 DEF Safe
<1> QED BY <1>5, <1>6, <1>7, <1>8, <1>9, <1>10, <1>11, <1>12 DEF Safe

\* Consent: the provider takes a slot for an agreement it held none for.
LEMMA SafeAcceptAgreement ==
  ASSUME TypeOK, Safe, NEW id \in Ids, AcceptAgreement(id)
  PROVE  Safe'
<1>1. /\ id \in Open /\ id \in pendingAcceptance /\ Provider(id) \in agentStake
      /\ Provider(id) \in Providers
      /\ activeEscrowCount' = SlotTaken(Provider(id))
      /\ pendingAcceptance' = pendingAcceptance \ {id}
      /\ UNCHANGED <<agreements, nextSeq, disputeToAgreement, activeAgreementCount,
                     agentStake, members, requests>>
  BY IdType DEF AcceptAgreement
<1>2. Open' = Open
  BY <1>1 DEF Open
<1>3. ASSUME NEW p \in Providers
      PROVE  activeEscrowCount'[p] = Cardinality(Obligations(p)')
  <2>1. /\ activeEscrowCount[p] = Cardinality(Obligations(p))
        /\ IsFiniteSet(Obligations(p))
    BY ObligationsFinite DEF Safe, SlotsMatchObligations
  <2>2. CASE p = Provider(id)
    <3>1. Obligations(p)' = Obligations(p) \cup {id} /\ id \notin Obligations(p)
      BY <1>1, <1>2, <2>2 DEF Obligations, Accepted
    <3>2. Cardinality(Obligations(p) \cup {id}) = Cardinality(Obligations(p)) + 1
      BY <2>1, <3>1, FS_AddElement
    <3>3. activeEscrowCount'[p] = activeEscrowCount[p] + 1
      BY <1>1, <2>2 DEF SlotTaken, TypeOK
    <3> QED BY <2>1, <3>1, <3>2, <3>3
  <2>3. CASE p # Provider(id)
    <3>1. Obligations(p)' = Obligations(p)
      BY <1>1, <1>2, <2>3 DEF Obligations, Accepted
    <3>2. activeEscrowCount'[p] = activeEscrowCount[p]
      BY <1>1, <2>3 DEF SlotTaken, TypeOK
    <3> QED BY <2>1, <3>1, <3>2
  <2> QED BY <2>2, <2>3
<1>4. SlotsMatchObligations'
  BY <1>1, <1>2, <1>3 DEF Safe, SlotsMatchObligations
<1>5. ObligedProviderHasNotLeft'
  BY <1>1, <1>2 DEF Safe, ObligedProviderHasNotLeft, Accepted
<1> QED BY <1>1, <1>2, <1>4, <1>5 DEF Safe, KeysWereHandedOut, PendingIsUntouched,
        DisputeMapExact, QuestionsAreForDisputes

\* Delivery: only of an accepted agreement, so no pending one changes status.
LEMMA SafeRecordDelivery ==
  ASSUME TypeOK, Safe, NEW id \in Ids, RecordDelivery(id)
  PROVE  Safe'
<1>1. /\ id \in Open /\ Accepted(id) /\ agreements[id].status = "Created"
      /\ agreements' = [agreements EXCEPT ![id].status = "Delivered"]
      /\ UNCHANGED <<nextSeq, pendingAcceptance, disputeToAgreement,
                     activeAgreementCount, activeEscrowCount, agentStake, members,
                     requests>>
  BY DEF RecordDelivery, MayRecordDelivery, Deliverable, agentVars
<1>2. /\ Open' = Open
      /\ \A i \in Open \ {id} : agreements'[i] = agreements[i]
      /\ agreements'[id].status = "Delivered"
  BY <1>1 DEF Open, TypeOK, Agreement
<1>3. id \notin DOMAIN requests /\ id \notin disputeToAgreement
  BY <1>1 DEF Safe, QuestionsAreForDisputes, DisputeMapExact
<1>4. SlotsMatchObligations'
  BY <1>1, <1>2 DEF Safe, SlotsMatchObligations, Obligations, Accepted
<1>5. ObligedProviderHasNotLeft' /\ KeysWereHandedOut'
  BY <1>1, <1>2 DEF Safe, ObligedProviderHasNotLeft, KeysWereHandedOut, Accepted
<1>6. PendingIsUntouched'
  BY <1>1, <1>2 DEF Safe, PendingIsUntouched, Accepted
<1>7. DisputeMapExact'
  BY <1>1, <1>2, <1>3 DEF Safe, DisputeMapExact
<1>8. QuestionsAreForDisputes'
  BY <1>1, <1>2, <1>3 DEF Safe, QuestionsAreForDisputes
<1> QED BY <1>1, <1>2, <1>4, <1>5, <1>6, <1>7, <1>8 DEF Safe

\* A dispute: the one step that posts a question, about a delivered agreement.
LEMMA SafeDisputeDelivery ==
  ASSUME TypeOK, Safe, NEW id \in Ids, DisputeDelivery(id)
  PROVE  Safe'
<1>1. /\ id \in Open /\ agreements[id].status = "Delivered"
      /\ DOMAIN requests' = DOMAIN requests \cup {id}
      /\ disputeToAgreement' = disputeToAgreement \cup {id}
      /\ UNCHANGED <<nextSeq, pendingAcceptance, activeAgreementCount,
                     activeEscrowCount, agentStake, members>>
  BY DEF DisputeDelivery, agentVars, Put
<1>2. /\ Open' = Open
      /\ \A i \in Open \ {id} : agreements'[i] = agreements[i]
      /\ agreements'[id].status = "Disputed"
  BY <1>1 DEF DisputeDelivery, Open, TypeOK, Agreement
<1>3. id \notin pendingAcceptance
  BY <1>1 DEF Safe, PendingIsUntouched
<1>4. SlotsMatchObligations'
  BY <1>1, <1>2 DEF Safe, SlotsMatchObligations, Obligations, Accepted
<1>5. ObligedProviderHasNotLeft' /\ KeysWereHandedOut'
  BY <1>1, <1>2 DEF Safe, ObligedProviderHasNotLeft, KeysWereHandedOut, Accepted
<1>6. PendingIsUntouched'
  BY <1>1, <1>2, <1>3 DEF Safe, PendingIsUntouched
<1>7. DisputeMapExact'
  BY <1>1, <1>2 DEF Safe, DisputeMapExact
<1>8. QuestionsAreForDisputes'
  BY <1>1, <1>2 DEF Safe, QuestionsAreForDisputes
<1> QED BY <1>1, <1>2, <1>4, <1>5, <1>6, <1>7, <1>8 DEF Safe

LEMMA SafeAgreementCall ==
  ASSUME TypeOK, Safe, NEW id \in Ids, AgreementCall(id)
  PROVE  Safe'
<1>1. CASE AcceptAgreement(id)
  BY <1>1, SafeAcceptAgreement
<1>2. CASE ClosePending(id)
  <2>1. id \in Open /\ ~Accepted(id) /\ id \notin disputeToAgreement
    BY <1>2 DEF ClosePending, Accepted, Safe, PendingIsUntouched, DisputeMapExact
  <2> QED BY <1>2, <2>1, SafeDoor DEF ClosePending, agentVars
<1>3. CASE RecordDelivery(id)
  BY <1>3, SafeRecordDelivery
<1>4. CASE ConfirmDelivery(id)
  <2>1. id \in Open /\ Accepted(id) /\ id \notin disputeToAgreement
    BY <1>4 DEF ConfirmDelivery, Accepted, Safe, PendingIsUntouched, DisputeMapExact
  <2> QED BY <1>4, <2>1, SafeDoor DEF ConfirmDelivery, Accepted
<1>5. CASE DisputeDelivery(id)
  BY <1>5, SafeDisputeDelivery
<1>6. CASE ClaimRefund(id)
  BY <1>6, SafeDoor DEF ClaimRefund, Accepted, DisputesWithout
<1>7. CASE ExpireAgreement(id)
  BY <1>7, SafeDoor DEF ExpireAgreement, SlotsAfterExpiry, DisputesWithout
<1>8. CASE \E deadline \in 0 .. MaxBlock : ExtendDeadline(id, deadline)
  <2>1. /\ Open' = Open
        /\ \A i \in Open : agreements'[i].status = agreements[i].status
    BY <1>8 DEF ExtendDeadline, Open, TypeOK, Agreement
  <2>2. /\ UNCHANGED <<nextSeq, pendingAcceptance, disputeToAgreement,
                       activeAgreementCount, activeEscrowCount, agentStake, members,
                       requests>>
    BY <1>8 DEF ExtendDeadline, agentVars
  <2> QED BY <2>1, <2>2, SafeAside DEF Safe, ObligedProviderHasNotLeft
<1> QED BY <1>1, <1>2, <1>3, <1>4, <1>5, <1>6, <1>7, <1>8 DEF AgreementCall

\* A verdict finds the agreement it was asked about, still disputed, or none.
LEMMA SafeVerdict ==
  ASSUME TypeOK, Safe, NEW id \in DOMAIN requests, NEW balances,
         requests' = Without(requests, id),
         \/ BuyerWins(id, balances)    \/ ProviderWins(id, balances)
         \/ FailedVerdict(id, balances) \/ VerdictTooLate(id, balances)
  PROVE  Safe'
<1>1. DOMAIN requests' \subseteq DOMAIN requests
  BY DEF Without, Restrict
<1>2. CASE BuyerWins(id, balances) \/ ProviderWins(id, balances)
  <2>1. id \in Open /\ \E how \in {"paid", "refunded"} : SettleDispute(id, how)
    BY <1>2 DEF BuyerWins, ProviderWins
  <2>2. Accepted(id)
    BY <2>1 DEF Safe, QuestionsAreForDisputes, PendingIsUntouched, Accepted
  <2> QED BY <1>1, <2>1, <2>2, SafeDoor DEF SettleDispute, DisputesWithout, Accepted
<1>3. CASE FailedVerdict(id, balances) \/ VerdictTooLate(id, balances)
  <2>1. UNCHANGED <<agreements, nextSeq, pendingAcceptance, disputeToAgreement,
                    activeAgreementCount, activeEscrowCount, agentStake, members>>
    BY <1>3 DEF FailedVerdict, VerdictTooLate, escrowVars, agentVars
  <2>2. Open' = Open
    BY <2>1 DEF Open
  <2> QED BY <1>1, <2>1, <2>2, SafeAside DEF Safe, ObligedProviderHasNotLeft
<1> QED BY <1>2, <1>3

LEMMA SafeOracleCall ==
  ASSUME TypeOK, Safe, NEW id \in Ids, OracleCall(id)
  PROVE  Safe'
<1>1. CASE PanelAnswers(id) \/ ExpireRequest(id)
  <2>1. /\ DOMAIN requests' \subseteq DOMAIN requests
        /\ UNCHANGED <<escrowVars, agentVars>>
    BY <1>1 DEF PanelAnswers, ExpireRequest, Without, Restrict
  <2>2. Open' = Open
    BY <2>1 DEF Open, escrowVars
  <2> QED BY <2>1, <2>2, SafeAside
          DEF Safe, ObligedProviderHasNotLeft, escrowVars, agentVars
<1>2. CASE FinaliseForProvider(id)
  BY <1>2, SafeVerdict DEF FinaliseForProvider, VerdictDue
<1>3. CASE FinaliseForBuyer(id)
  BY <1>3, SafeVerdict DEF FinaliseForBuyer, VerdictDue
<1> QED BY <1>1, <1>2, <1>3 DEF OracleCall, FinaliseRequest

\* The agents' calls: leaving is the one that could break a promise, and it
\* counts the slots again when it takes effect.
LEMMA SafeAgentCall ==
  ASSUME TypeOK, Safe, NEW a \in Movers, AgentCall(a)
  PROVE  Safe'
<1>1. UNCHANGED <<agreements, nextSeq, pendingAcceptance, disputeToAgreement,
                  activeAgreementCount, activeEscrowCount, requests>>
  BY DEF AgentCall, Register, RequestUnstake, CompleteUnstake, SetCapability,
         ExecuteSlash, escrowVars
<1>2. Open' = Open
  BY <1>1 DEF Open
<1>3. agentStake' \subseteq members'
  BY DEF Safe, AgentCall, Register, RequestUnstake, CompleteUnstake, SetCapability,
         ExecuteSlash
<1>4. ASSUME NEW id \in Open, Accepted(id)
      PROVE  Provider(id) \in members'
  <2>1. Provider(id) \in members
    BY <1>4 DEF Safe, ObligedProviderHasNotLeft
  <2>2. CASE CompleteUnstake(a)
    <3>1. a \in Providers /\ activeEscrowCount[a] = 0 /\ members' = members \ {a}
      BY <2>2, RuntimeParameters DEF CompleteUnstake, MayLeave, HoldsNoSlot
    <3>2. Cardinality(Obligations(a)) = 0 /\ IsFiniteSet(Obligations(a))
      BY <3>1, ObligationsFinite DEF Safe, SlotsMatchObligations
    <3>3. Obligations(a) = {}
      BY <3>2, FS_EmptySet
    <3>4. Provider(id) # a
      BY <1>4, <3>3 DEF Obligations
    <3> QED BY <2>1, <3>1, <3>4
  <2>3. CASE ~CompleteUnstake(a)
    BY <2>1, <2>3 DEF AgentCall, Register, RequestUnstake, SetCapability, ExecuteSlash
  <2> QED BY <2>2, <2>3
<1> QED BY <1>1, <1>2, <1>3, <1>4, SafeAside

LEMMA SafeStep == IInv /\ [Next]_vars => Safe'
<1> SUFFICES ASSUME TypeOK, Safe, [Next]_vars PROVE Safe'
  BY DEF IInv
<1>1. CASE Tick \/ UNCHANGED vars
  <2>1. UNCHANGED <<escrowVars, agentVars, requests>>
    BY <1>1 DEF Tick, vars
  <2>2. Open' = Open
    BY <2>1 DEF Open, escrowVars
  <2> QED BY <2>1, <2>2, SafeAside
          DEF Safe, ObligedProviderHasNotLeft, escrowVars, agentVars
<1>2. CASE \E b \in Buyers, p \in Providers, amount \in Amounts,
             deliverBy \in 0 .. MaxBlock, needed \in BOOLEAN :
             CreateAgreement(b, p, amount, deliverBy, needed)
  BY <1>2, SafeCreateAgreement
<1>3. CASE \E id \in Ids : AgreementCall(id) \/ OracleCall(id)
  BY <1>3, SafeAgreementCall, SafeOracleCall
<1>4. CASE \E a \in Movers : AgentCall(a)
  BY <1>4, SafeAgentCall
<1> QED BY <1>1, <1>2, <1>3, <1>4 DEF Next

-----------------------------------------------------------------------------
(* The theorems.                                                           *)

\* The inductive invariant holds in every state.
THEOREM Inductive == Spec => []IInv
<1>1. Init => IInv
  BY TypeInit, SafeInit DEF IInv
<1>2. IInv /\ [Next]_vars => IInv'
  BY TypeStep, SafeStep DEF IInv
<1> QED BY <1>1, <1>2, PTL DEF Spec

\* ActiveEscrowCount is the number of accepted, open agreements: no door
\* releases a slot it does not hold, and none forgets the one it holds.
THEOREM SlotsAreExact == Spec => []SlotsMatchObligations
<1>1. IInv => SlotsMatchObligations
  BY DEF IInv, Safe
<1> QED BY <1>1, Inductive, PTL

\* Nobody completes an unstake while owing work, however acceptances, unstake
\* requests and evictions interleave.
THEOREM NobodyLeavesOwing == Spec => []ObligedProviderHasNotLeft
<1>1. IInv => ObligedProviderHasNotLeft
  BY DEF IInv, Safe
<1> QED BY <1>1, Inductive, PTL

\* No agreement is delivered or disputed before its provider consented.
THEOREM ConsentComesFirst == Spec => []PendingIsUntouched
<1>1. IInv => PendingIsUntouched
  BY DEF IInv, Safe
<1> QED BY <1>1, Inductive, PTL

\* The dispute map and the oracle's questions never point at an agreement other
\* than the disputed one they were made for.
THEOREM DisputesStayMatched == Spec => []DisputesMatched
<1>1. IInv => DisputesMatched
  BY DEF IInv, Safe, DisputesMatched
<1> QED BY <1>1, Inductive, PTL

-----------------------------------------------------------------------------
(* The reserve behind the promises.                                        *)
(*                                                                         *)
(* Every call writes or takes at most one agreement and one question, both *)
(* under one key, so every call is compared with what the buyer's promises *)
(* are without that key.  The one call that would release money and keep   *)
(* the agreement is the verdict for an evicted provider; where nobody is   *)
(* slashed every member is an agent, and it does not happen.               *)

AmountAt(id) == IF id \in Open THEN agreements[id].amount ELSE 0
BountyAt(id) == IF id \in DOMAIN requests THEN requests[id].bounty ELSE 0
PromiseAt(id) == AmountAt(id) + BountyAt(id)

ReserveInv ==
  /\ IsFiniteSet(DOMAIN requests)
  /\ members \subseteq agentStake
  /\ ReserveCoversPromises

\* A step that changes no amount and no bounty but those under one key.
OnlyAt(id) ==
  /\ Open' \ {id} = Open \ {id}
  /\ DOMAIN requests' \subseteq DOMAIN requests \cup {id}
  /\ DOMAIN requests' \ {id} = DOMAIN requests \ {id}
  /\ \A i \in Open \ {id} : agreements'[i].amount = agreements[i].amount
  /\ \A i \in DOMAIN requests \ {id} : requests'[i].bounty = requests[i].bounty

\* Amounts and bounties are natural numbers.
LEMMA PromiseType ==
  ASSUME TypeOK
  PROVE  /\ \A id \in Open : agreements[id].amount \in Nat /\ AgreementAmounts[id] \in Nat
         /\ \A id \in DOMAIN requests : requests[id].bounty \in Nat /\ Bounties[id] \in Nat
         /\ \A id : AmountAt(id) \in Nat /\ BountyAt(id) \in Nat /\ PromiseAt(id) \in Nat
         /\ \A b \in Buyers : ledger.reserved[b] \in Nat
<1>1. \A id \in Open : agreements[id].amount \in Nat
  BY DEF TypeOK, Agreement
<1>2. \A id \in DOMAIN requests : requests[id].bounty \in Nat
  BY DEF TypeOK, Question
<1>3. \A b \in Buyers : ledger.reserved[b] \in Nat
  BY DEF TypeOK, Ledger, Accounts
<1> QED BY <1>1, <1>2, <1>3
        DEF AgreementAmounts, Bounties, AmountAt, BountyAt, PromiseAt

\* Such a step changes the promises of the key's buyer by what is under the key.
LEMMA PromisedBesides ==
  ASSUME TypeOK, TypeOK', NEW id, NEW b, OnlyAt(id),
         IsFiniteSet(Open), IsFiniteSet(Open'),
         IsFiniteSet(DOMAIN requests), IsFiniteSet(DOMAIN requests')
  PROVE  \E rest \in Nat :
           /\ Promised(b)  = rest + (IF Buyer(id) = b THEN PromiseAt(id) ELSE 0)
           /\ Promised(b)' = rest + (IF Buyer(id) = b THEN PromiseAt(id)' ELSE 0)
<1> PICK S : S = {i \in Open : Buyer(i) = b}
  OBVIOUS
<1> PICK T : T = {i \in Open' : Buyer(i) = b}
  OBVIOUS
<1> PICK Q : Q = {i \in DOMAIN requests : Buyer(i) = b}
  OBVIOUS
<1> PICK R : R = {i \in DOMAIN requests' : Buyer(i) = b}
  OBVIOUS
<1> PICK f : f = AgreementAmounts
  OBVIOUS
<1> PICK g : g = AgreementAmounts'
  OBVIOUS
<1> PICK h : h = Bounties
  OBVIOUS
<1> PICK k : k = Bounties'
  OBVIOUS
<1>1. /\ S \subseteq Open /\ T \subseteq Open' /\ S \ {id} = T \ {id}
      /\ Q \subseteq DOMAIN requests /\ R \subseteq DOMAIN requests'
      /\ Q \ {id} = R \ {id}
  BY DEF OnlyAt
<1>2. IsFiniteSet(S) /\ IsFiniteSet(T) /\ IsFiniteSet(Q) /\ IsFiniteSet(R)
  BY <1>1, FS_Subset
<1>3. /\ \A i \in S : f[i] = agreements[i].amount /\ f[i] \in Nat
      /\ \A i \in Q : h[i] = requests[i].bounty /\ h[i] \in Nat
  BY <1>1, PromiseType DEF AgreementAmounts, Bounties
<1>4. \A i \in T : g[i] = agreements'[i].amount /\ g[i] \in Nat
  BY <1>1 DEF AgreementAmounts, TypeOK, Agreement
<1>5. \A i \in R : k[i] = requests'[i].bounty /\ k[i] \in Nat
  BY <1>1 DEF Bounties, TypeOK, Question
<1>6. (\A i \in S \ {id} : f[i] = g[i]) /\ (\A i \in Q \ {id} : h[i] = k[i])
  BY <1>1, <1>3, <1>4, <1>5 DEF OnlyAt
<1>0. /\ \A i \in S : f[i] \in Nat
      /\ \A i \in T : g[i] \in Nat
      /\ \A i \in Q : h[i] \in Nat
      /\ \A i \in R : k[i] \in Nat
  BY <1>3, <1>4, <1>5
<1>7. PICK m \in Nat : /\ SumFunctionOnSet(f, S) = m + (IF id \in S THEN f[id] ELSE 0)
                       /\ SumFunctionOnSet(g, T) = m + (IF id \in T THEN g[id] ELSE 0)
  BY ONLY <1>0, <1>1, <1>2, <1>6, SumBesides
<1>8. PICK n \in Nat : /\ SumFunctionOnSet(h, Q) = n + (IF id \in Q THEN h[id] ELSE 0)
                       /\ SumFunctionOnSet(k, R) = n + (IF id \in R THEN k[id] ELSE 0)
  BY ONLY <1>0, <1>1, <1>2, <1>6, SumBesides
<1>9. /\ Promised(b) = SumFunctionOnSet(f, S) + SumFunctionOnSet(h, Q)
      /\ Promised(b)' = SumFunctionOnSet(g, T) + SumFunctionOnSet(k, R)
  BY DEF Promised
<1>10. /\ (IF id \in S THEN f[id] ELSE 0) = (IF Buyer(id) = b THEN AmountAt(id) ELSE 0)
       /\ (IF id \in Q THEN h[id] ELSE 0) = (IF Buyer(id) = b THEN BountyAt(id) ELSE 0)
  BY <1>3 DEF AmountAt, BountyAt
<1>11. /\ (IF id \in T THEN g[id] ELSE 0) = (IF Buyer(id) = b THEN AmountAt(id)' ELSE 0)
       /\ (IF id \in R THEN k[id] ELSE 0) = (IF Buyer(id) = b THEN BountyAt(id)' ELSE 0)
  BY <1>4, <1>5 DEF AmountAt, BountyAt
<1>12. /\ AmountAt(id) \in Nat /\ BountyAt(id) \in Nat
       /\ AmountAt(id)' \in Nat /\ BountyAt(id)' \in Nat
  <2>1. AmountAt(id) \in Nat /\ BountyAt(id) \in Nat
    BY PromiseType
  <2>2. AmountAt(id)' \in Nat /\ BountyAt(id)' \in Nat
    BY DEF TypeOK, Agreement, Question, AmountAt, BountyAt
  <2> QED BY <2>1, <2>2
<1>13. /\ Promised(b) = (m + n) + (IF Buyer(id) = b THEN PromiseAt(id) ELSE 0)
       /\ Promised(b)' = (m + n) + (IF Buyer(id) = b THEN PromiseAt(id)' ELSE 0)
  BY <1>7, <1>8, <1>9, <1>10, <1>11, <1>12 DEF PromiseAt
<1>14. m + n \in Nat
  OBVIOUS
<1> QED BY <1>13, <1>14

\* A reserve that follows what is under the key still covers the rest.
LEMMA ReserveFollows ==
  ASSUME IInv, IInv', ReserveInv, NEW id, OnlyAt(id), members' \subseteq agentStake',
         \A b \in Buyers :
           ledger.reserved[b] + (IF Buyer(id) = b THEN PromiseAt(id)' ELSE 0)
             <= ledger'.reserved[b] + (IF Buyer(id) = b THEN PromiseAt(id) ELSE 0)
  PROVE  ReserveInv'
<1>1. IsFiniteSet(DOMAIN requests')
  <2>1. IsFiniteSet(DOMAIN requests \cup {id})
    BY FS_AddElement DEF ReserveInv
  <2> QED BY <2>1, FS_Subset DEF OnlyAt
<1>2. ASSUME NEW b \in Buyers PROVE Promised(b)' <= ledger'.reserved[b]
  <2>1. PICK rest \in Nat :
          /\ Promised(b)  = rest + (IF Buyer(id) = b THEN PromiseAt(id) ELSE 0)
          /\ Promised(b)' = rest + (IF Buyer(id) = b THEN PromiseAt(id)' ELSE 0)
    BY <1>1, PromisedBesides DEF IInv, Safe, ReserveInv
  <2>2. Promised(b) <= ledger.reserved[b]
    BY DEF ReserveInv, ReserveCoversPromises
  <2>3. PromiseAt(id) \in Nat /\ ledger.reserved[b] \in Nat
    BY PromiseType DEF IInv
  <2>4. ledger'.reserved[b] \in Nat
    BY DEF IInv, TypeOK, Ledger, Accounts
  <2>5. PromiseAt(id)' \in Nat
    <3>1. AmountAt(id)' \in Nat /\ BountyAt(id)' \in Nat
      BY DEF IInv, TypeOK, Agreement, Question, AmountAt, BountyAt
    <3> QED BY <3>1 DEF PromiseAt
  <2> QED BY <2>1, <2>2, <2>3, <2>4, <2>5
<1> QED BY <1>1, <1>2 DEF ReserveInv, ReserveCoversPromises

\* A release takes no more than the promise it ends.
LEMMA ReserveReleased ==
  ASSUME IInv, IInv', ReserveInv, NEW id \in Ids, OnlyAt(id),
         members' \subseteq agentStake', NEW released \in Nat,
         TakesAtMost(ledger, ledger', Buyer(id), released),
         PromiseAt(id)' + released <= PromiseAt(id)
  PROVE  ReserveInv'
<1>1. ASSUME NEW b \in Buyers
      PROVE  ledger.reserved[b] + (IF Buyer(id) = b THEN PromiseAt(id)' ELSE 0)
               <= ledger'.reserved[b] + (IF Buyer(id) = b THEN PromiseAt(id) ELSE 0)
  <2>1. ledger.reserved[b] <= ledger'.reserved[b] + (IF b = Buyer(id) THEN released ELSE 0)
    BY DEF TakesAtMost, IInv, TypeOK, Ledger, Accounts
  <2>2. PromiseAt(id) \in Nat /\ ledger.reserved[b] \in Nat
    BY PromiseType DEF IInv
  <2>3. ledger'.reserved[b] \in Nat
    BY DEF IInv, TypeOK, Ledger, Accounts
  <2>4. PromiseAt(id)' \in Nat
    <3>1. AmountAt(id)' \in Nat /\ BountyAt(id)' \in Nat
      BY DEF IInv, TypeOK, Agreement, Question, AmountAt, BountyAt
    <3> QED BY <3>1 DEF PromiseAt
  <2> QED BY <2>1, <2>2, <2>3, <2>4
<1> QED BY <1>1, ReserveFollows

\* A call that reserves makes no greater a promise than what it reserves.
LEMMA ReserveRaised ==
  ASSUME IInv, IInv', ReserveInv, NEW id \in Ids, OnlyAt(id),
         members' \subseteq agentStake', NEW amount \in Nat,
         ledger' = Reserve(ledger, Buyer(id), amount),
         PromiseAt(id)' <= PromiseAt(id) + amount
  PROVE  ReserveInv'
<1>1. ASSUME NEW b \in Buyers
      PROVE  ledger.reserved[b] + (IF Buyer(id) = b THEN PromiseAt(id)' ELSE 0)
               <= ledger'.reserved[b] + (IF Buyer(id) = b THEN PromiseAt(id) ELSE 0)
  <2>1. ledger'.reserved[b] = ledger.reserved[b] + (IF b = Buyer(id) THEN amount ELSE 0)
    <3>1. ledger.reserved \in [Accounts -> Nat] /\ b \in Accounts
      BY DEF IInv, TypeOK, Ledger, Accounts
    <3> QED BY <3>1 DEF Reserve
  <2>2. PromiseAt(id) \in Nat /\ ledger.reserved[b] \in Nat
    BY PromiseType DEF IInv
  <2>3. PromiseAt(id)' \in Nat
    <3>1. AmountAt(id)' \in Nat /\ BountyAt(id)' \in Nat
      BY DEF IInv, TypeOK, Agreement, Question, AmountAt, BountyAt
    <3> QED BY <3>1 DEF PromiseAt
  <2> QED BY <2>1, <2>2, <2>3
<1> QED BY <1>1, ReserveFollows

\* A step that touches neither balances nor amounts nor bounties.
LEMMA ReserveAside ==
  ASSUME ReserveInv, UNCHANGED ledger, members' \subseteq agentStake',
         Open' = Open, DOMAIN requests' = DOMAIN requests,
         \A i \in Open : agreements'[i].amount = agreements[i].amount,
         \A i \in DOMAIN requests : requests'[i].bounty = requests[i].bounty
  PROVE  ReserveInv'
<1>1. AgreementAmounts' = AgreementAmounts /\ Bounties' = Bounties
  BY DEF AgreementAmounts, Bounties
<1>2. \A b : Promised(b)' = Promised(b)
  BY <1>1 DEF Promised
<1> QED BY <1>2 DEF ReserveInv, ReserveCoversPromises

\* Ten thousandths of no more than ten thousand times an amount.
LEMMA TenThousandths ==
  ASSUME NEW amount \in Nat, NEW n \in Nat, n <= amount * 10000
  PROVE  n \div 10000 \in Nat /\ n \div 10000 <= amount
BY SMT

\* A fee and what is left of the amount make up the amount.
LEMMA FeeAndNet ==
  ASSUME NEW amount \in Nat, NEW bps \in Nat, bps <= 10000
  PROVE  /\ Share(amount, bps) \in Nat /\ Share(amount, bps) <= amount
         /\ Saturating(amount - Share(amount, bps)) \in Nat
         /\ Saturating(amount - Share(amount, bps)) + Share(amount, bps) = amount
<1>1. PICK product \in Nat : product = amount * bps /\ product <= amount * 10000
  <2>1. amount * bps \in Nat
    BY SMT
  <2>2. amount * bps <= amount * 10000
    BY SMT
  <2> QED BY <2>1, <2>2
<1>2. amount \in Nat /\ product \in Nat /\ product <= amount * 10000
  BY <1>1
<1>3. Share(amount, bps) \in Nat /\ Share(amount, bps) <= amount
  <2>1. Share(amount, bps) = product \div 10000
    BY <1>1 DEF Share
  <2>2. product \div 10000 \in Nat /\ product \div 10000 <= amount
    BY ONLY <1>2, TenThousandths
  <2> QED BY ONLY <2>1, <2>2
<1>4. ASSUME NEW fee \in Nat, fee <= amount
      PROVE  /\ Saturating(amount - fee) \in Nat
             /\ Saturating(amount - fee) + fee = amount
  BY <1>4 DEF Saturating
<1> HIDE DEF Share
<1> QED BY <1>3, <1>4

\* The promise of an agreement that leaves, its question left alone.
LEMMA OnlyCloses ==
  ASSUME TypeOK, NEW id \in Open, CloseAgreement(id), requests' = requests
  PROVE  /\ OnlyAt(id)
         /\ PromiseAt(id)' + agreements[id].amount = PromiseAt(id)
         /\ agreements[id].amount \in Nat
<1>1. Open' = Open \ {id} /\ \A i \in Open' : agreements'[i] = agreements[i]
  BY CloseType
<1>2. OnlyAt(id)
  BY <1>1 DEF OnlyAt
<1>3. AmountAt(id)' = 0 /\ AmountAt(id) = agreements[id].amount
  BY <1>1 DEF AmountAt
<1>4. BountyAt(id)' = BountyAt(id)
  BY DEF BountyAt
<1>5. agreements[id].amount \in Nat /\ BountyAt(id) \in Nat
  BY PromiseType
<1> QED BY <1>2, <1>3, <1>4, <1>5 DEF PromiseAt

\* The three doors by which a buyer takes the amount back.
LEMMA ReserveRefund ==
  ASSUME IInv, IInv', ReserveInv, NEW id \in Open, CloseAgreement(id),
         ledger' = Unreserve(ledger, Buyer(id), agreements[id].amount),
         UNCHANGED <<requests, agentStake, members>>
  PROVE  ReserveInv'
<1>1. /\ OnlyAt(id) /\ PromiseAt(id)' + agreements[id].amount = PromiseAt(id)
      /\ agreements[id].amount \in Nat
  BY OnlyCloses DEF IInv
<1>2. id \in Ids /\ Buyer(id) \in Accounts
  BY IdType DEF IInv, TypeOK
<1>3. TakesAtMost(ledger, ledger', Buyer(id), agreements[id].amount)
  BY <1>1, <1>2, RepatriateTakes DEF Unreserve, IInv, TypeOK
<1>4. PromiseAt(id)' + agreements[id].amount <= PromiseAt(id)
  BY <1>1, PromiseType DEF IInv
<1>5. members' \subseteq agentStake'
  BY DEF ReserveInv
<1> QED BY <1>1, <1>2, <1>3, <1>4, <1>5, ReserveReleased

\* confirm_delivery: the provider's part and the fee are the amount.
LEMMA ReserveConfirm ==
  ASSUME IInv, IInv', ReserveInv, NEW id \in Ids, ConfirmDelivery(id)
  PROVE  ReserveInv'
<1> PICK amount : amount = agreements[id].amount
  OBVIOUS
<1> PICK fee : fee = Share(amount, CompletionFeeBps)
  OBVIOUS
<1> PICK net : net = Saturating(amount - fee)
  OBVIOUS
<1> PICK paid : paid = Repatriate(ledger, Buyer(id), Provider(id), net)
  OBVIOUS
<1>1. /\ id \in Open /\ CloseAgreement(id)
      /\ ledger' = Repatriate(paid, Buyer(id), Treasury, fee)
      /\ UNCHANGED <<requests, agentStake, members>>
  BY DEF ConfirmDelivery
<1>2. /\ OnlyAt(id) /\ PromiseAt(id)' + amount = PromiseAt(id) /\ amount \in Nat
  BY <1>1, OnlyCloses DEF IInv
<1>3. fee \in Nat /\ net \in Nat /\ net + fee = amount
  <2>1. CompletionFeeBps \in Nat /\ CompletionFeeBps <= 10000
    BY RuntimeParameters, FeesAreShares
  <2>2. /\ Share(amount, CompletionFeeBps) \in Nat
        /\ Saturating(amount - Share(amount, CompletionFeeBps)) \in Nat
        /\ Saturating(amount - Share(amount, CompletionFeeBps))
             + Share(amount, CompletionFeeBps) = amount
    BY ONLY <1>2, <2>1, FeeAndNet
  <2> QED BY <2>2
<1>4. /\ Buyer(id) \in Accounts /\ Provider(id) \in Accounts /\ Treasury \in Accounts
      /\ ledger \in Ledger(Accounts)
  BY IdType DEF Accounts, IInv, TypeOK
<1>5. /\ paid \in Ledger(Accounts) /\ ledger' \in Ledger(Accounts)
      /\ TakesAtMost(ledger, paid, Buyer(id), net)
      /\ TakesAtMost(paid, ledger', Buyer(id), fee)
  <2>1. paid \in Ledger(Accounts) /\ TakesAtMost(ledger, paid, Buyer(id), net)
    BY <1>3, <1>4, RepatriateType, RepatriateTakes
  <2> QED BY <1>1, <1>3, <1>4, <2>1, RepatriateType, RepatriateTakes
<1>6. TakesAtMost(ledger, ledger', Buyer(id), amount)
  BY <1>3, <1>4, <1>5, TakesBoth
<1>7. PromiseAt(id)' + amount <= PromiseAt(id)
  BY <1>2, PromiseType DEF IInv
<1>8. members' \subseteq agentStake'
  BY <1>1 DEF ReserveInv
<1> QED BY <1>2, <1>6, <1>7, <1>8, ReserveReleased

\* dispute_delivery: the bounty leaves the amount, and is reserved once more.
LEMMA ReserveDispute ==
  ASSUME IInv, IInv', ReserveInv, NEW id \in Ids, DisputeDelivery(id)
  PROVE  ReserveInv'
<1> PICK a : a = agreements[id]
  OBVIOUS
<1> PICK bounty : bounty = Bounty(a)
  OBVIOUS
<1>1. /\ id \in Open /\ a.status = "Delivered"
      /\ agreements' = [agreements EXCEPT ![id] =
           [a EXCEPT !.amount = Saturating(@ - bounty),
                     !.status = "Disputed", !.openedAt = now]]
      /\ ledger' = Reserve(ledger, Buyer(id), bounty)
      /\ UNCHANGED <<agentStake, members>>
  BY DEF DisputeDelivery, agentVars
<1>2. /\ DOMAIN requests' = DOMAIN requests \cup {id}
      /\ requests'[id].bounty = bounty
      /\ \A i \in DOMAIN requests \ {id} : requests'[i] = requests[i]
  <2>1. PICK question : /\ requests' = Put(requests, id, question)
                        /\ question.bounty = bounty
    BY DEF DisputeDelivery
  <2> QED BY <2>1 DEF Put
<1>3. a \in Agreement /\ a.amount \in Nat /\ bounty \in Nat
  <2>1. a \in Agreement /\ a.amount \in Nat
    BY <1>1 DEF IInv, TypeOK, Agreement
  <2> QED BY <2>1, Arithmetic, RuntimeParameters DEF Bounty
<1>4. /\ Open' = Open
      /\ \A i \in Open \ {id} : agreements'[i] = agreements[i]
      /\ agreements'[id].amount = Saturating(a.amount - bounty)
  <2>1. [a EXCEPT !.amount = Saturating(@ - bounty), !.status = "Disputed",
                  !.openedAt = now].amount = Saturating(a.amount - bounty)
    BY <1>3 DEF Agreement
  <2> QED BY <1>1, <2>1 DEF Open
<1>5. id \notin DOMAIN requests
  BY <1>1 DEF IInv, Safe, QuestionsAreForDisputes
<1>6. OnlyAt(id)
  BY <1>2, <1>4 DEF OnlyAt
<1>7. PromiseAt(id)' <= PromiseAt(id) + bounty
  <2>1. AmountAt(id) = a.amount /\ BountyAt(id) = 0
    BY <1>1, <1>5 DEF AmountAt, BountyAt
  <2>2. AmountAt(id)' = Saturating(a.amount - bounty) /\ BountyAt(id)' = bounty
    BY <1>1, <1>2, <1>4 DEF AmountAt, BountyAt
  <2> QED BY <1>3, <2>1, <2>2 DEF PromiseAt, Saturating
<1>8. members' \subseteq agentStake'
  BY <1>1 DEF ReserveInv
<1> QED BY <1>1, <1>3, <1>6, <1>7, <1>8, ReserveRaised

\* create_agreement reserves the amount under a key nothing else has.
LEMMA ReserveCreate ==
  ASSUME IInv, IInv', ReserveInv, NEW b \in Buyers, NEW p \in Providers,
         NEW amount \in Amounts, NEW deliverBy \in 0 .. MaxBlock, NEW needed \in BOOLEAN,
         CreateAgreement(b, p, amount, deliverBy, needed)
  PROVE  ReserveInv'
<1> PICK id : id = NextId(b, p)
  OBVIOUS
<1> DEFINE entry == [amount |-> amount, deliverBy |-> deliverBy, createdAt |-> now,
                     openedAt |-> 0, status |-> "Created", needsCapability |-> needed]
<1>1. id \in Ids /\ Pair(id) = <<b, p>> /\ id[3] = nextSeq[<<b, p>>] /\ Buyer(id) = b
      /\ nextSeq[<<b, p>>] \in Nat
  BY Creation DEF Opens, NextId, Buyer, IInv
<1>2. id \notin Open /\ id \notin DOMAIN requests
  <2>1. id[3] = nextSeq[Pair(id)]
    BY <1>1
  <2> QED BY <1>1, <2>1 DEF IInv, Safe, KeysWereHandedOut
<1>3. agreements' = Put(agreements, id, entry) /\ entry.amount = amount
  BY DEF CreateAgreement, FreshSeq, NextId
<1>4. /\ ledger' = Reserve(ledger, b, amount)
      /\ UNCHANGED <<requests, agentStake, members>>
  BY DEF CreateAgreement, agentVars
<1> HIDE DEF entry
<1>5. /\ Open' = Open \cup {id} /\ agreements'[id].amount = amount
      /\ \A i \in Open \ {id} : agreements'[i] = agreements[i]
  BY <1>3 DEF Put, Open
<1>6. OnlyAt(id)
  BY <1>4, <1>5 DEF OnlyAt
<1>7. amount \in Nat /\ PromiseAt(id)' <= PromiseAt(id) + amount
  <2>1. amount \in Nat
    BY RuntimeParameters
  <2>2. AmountAt(id) = 0 /\ AmountAt(id)' = amount
    BY <1>2, <1>5 DEF AmountAt
  <2>3. BountyAt(id) = 0 /\ BountyAt(id)' = 0
    BY <1>2, <1>4 DEF BountyAt
  <2> QED BY <2>1, <2>2, <2>3 DEF PromiseAt
<1>8. members' \subseteq agentStake'
  BY <1>4 DEF ReserveInv
<1> QED BY <1>1, <1>4, <1>6, <1>7, <1>8, ReserveRaised

\* What is shared of a bounty is at most the bounty.
LEMMA SharesFit ==
  ASSUME NEW bounty \in Nat, NEW n \in Nat \ {0}
  PROVE  (bounty \div n) * n \in Nat /\ (bounty \div n) * n <= bounty
<1>1. PICK q \in Nat : q = bounty \div n /\ n * q <= bounty
  BY SMT
<1>2. q * n \in Nat /\ q * n = n * q
  BY SMT
<1> QED BY <1>1, <1>2

\* A bounty that is shared, or given back, leaves the rest of the reserve.
LEMMA BountyTaken ==
  ASSUME TypeOK, NEW id \in DOMAIN requests,
         NEW balances \in {BountyShared(id, n) : n \in PanelWinners}
                          \cup {Unreserve(ledger, Buyer(id), requests[id].bounty)}
  PROVE  /\ balances \in Ledger(Accounts)
         /\ TakesAtMost(ledger, balances, Buyer(id), requests[id].bounty)
         /\ \E to \in Accounts, moved \in Nat :
              balances = Repatriate(ledger, Buyer(id), to, moved)
<1> PICK bounty \in Nat : bounty = requests[id].bounty
  BY PromiseType
<1>1. /\ Buyer(id) \in Accounts /\ Panel \in Accounts /\ ledger \in Ledger(Accounts)
  BY IdType DEF TypeOK, Accounts
<1>2. CASE \E n \in PanelWinners : balances = BountyShared(id, n)
  <2>1. PICK n \in Nat \ {0} :
          balances = Repatriate(ledger, Buyer(id), Panel, (bounty \div n) * n)
    BY <1>2, RuntimeParameters DEF BountyShared
  <2>2. PICK shared \in Nat : shared = (bounty \div n) * n /\ shared <= bounty
    BY SharesFit
  <2>3. balances = Repatriate(ledger, Buyer(id), Panel, shared)
    BY <2>1, <2>2
  <2>4. /\ balances \in Ledger(Accounts)
        /\ TakesAtMost(ledger, balances, Buyer(id), shared)
    BY <1>1, <2>3, RepatriateType, RepatriateTakes
  <2>5. TakesAtMost(ledger, balances, Buyer(id), bounty)
    BY ONLY <1>1, <2>2, <2>4, bounty \in Nat DEF TakesAtMost, Ledger
  <2> QED BY <1>1, <2>3, <2>4, <2>5
<1>3. CASE balances = Repatriate(ledger, Buyer(id), Buyer(id), bounty)
  BY <1>1, <1>3, RepatriateType, RepatriateTakes
<1> QED BY <1>2, <1>3 DEF Unreserve

\* Where nobody is slashed the provider of a disputed agreement is an agent.
LEMMA VerdictReachesAgent ==
  ASSUME IInv, ReserveInv, NEW id \in DOMAIN requests, id \in Open
  PROVE  Provider(id) \in agentStake
<1>1. Accepted(id)
  BY DEF IInv, Safe, QuestionsAreForDisputes, PendingIsUntouched, Accepted
<1> QED BY <1>1 DEF IInv, Safe, ObligedProviderHasNotLeft, ReserveInv

\* A question that is closed, and the agreement it may close.
LEMMA OnlyDecides ==
  ASSUME TypeOK, NEW id \in DOMAIN requests, requests' = Without(requests, id),
         \/ agreements' = agreements
         \/ id \in Open /\ CloseAgreement(id)
  PROVE  /\ OnlyAt(id)
         /\ BountyAt(id)' = 0 /\ BountyAt(id) = requests[id].bounty
         /\ agreements' = agreements => AmountAt(id)' = AmountAt(id)
         /\ CloseAgreement(id) /\ id \in Open =>
              AmountAt(id)' = 0 /\ AmountAt(id) = agreements[id].amount
<1>1. /\ DOMAIN requests' = DOMAIN requests \ {id}
      /\ \A i \in DOMAIN requests' : requests'[i] = requests[i]
  BY DEF Without, Restrict
<1>2. /\ Open' \ {id} = Open \ {id}
      /\ \A i \in Open \ {id} : agreements'[i] = agreements[i]
      /\ agreements' = agreements => AmountAt(id)' = AmountAt(id)
      /\ CloseAgreement(id) /\ id \in Open =>
           AmountAt(id)' = 0 /\ AmountAt(id) = agreements[id].amount
  <2>1. CASE agreements' = agreements
    <3>1. Open' = Open /\ AmountAt(id)' = AmountAt(id)
      BY <2>1 DEF Open, AmountAt
    <3>2. ~(CloseAgreement(id) /\ id \in Open)
      BY <2>1, <3>1, CloseType
    <3> QED BY <2>1, <3>1, <3>2
  <2>2. CASE id \in Open /\ CloseAgreement(id)
    <3>1. Open' = Open \ {id} /\ \A i \in Open' : agreements'[i] = agreements[i]
      BY <2>2, CloseType
    <3>2. agreements' # agreements
      BY <2>2, <3>1 DEF Open
    <3> QED BY <2>2, <3>1, <3>2 DEF AmountAt
  <2> QED BY <2>1, <2>2
<1> QED BY <1>1, <1>2 DEF OnlyAt, BountyAt

\* What a verdict for the provider moves is the amount.
LEMMA PaidByVerdictTakes ==
  ASSUME TypeOK, NEW id \in Open, NEW balances \in Ledger(Accounts)
  PROVE  /\ PaidByVerdict(id, balances) \in Ledger(Accounts)
         /\ TakesAtMost(balances, PaidByVerdict(id, balances), Buyer(id),
                        agreements[id].amount)
<1> PICK amount \in Nat : amount = agreements[id].amount
  BY PromiseType
<1>0. amount \in Nat
  OBVIOUS
<1>1. DisputeBurnBps \in Nat /\ DisputeBurnBps <= 10000
  BY RuntimeParameters, FeesAreShares
<1>2. PICK fee \in Nat, net \in Nat :
        fee = DisputeFee(id) /\ net = NetOfFee(id) /\ net + fee = amount
  <2>1. /\ Share(amount, DisputeBurnBps) \in Nat
        /\ Saturating(amount - Share(amount, DisputeBurnBps)) \in Nat
        /\ Saturating(amount - Share(amount, DisputeBurnBps))
             + Share(amount, DisputeBurnBps) = amount
    BY ONLY <1>0, <1>1, FeeAndNet
  <2> QED BY <2>1 DEF DisputeFee, NetOfFee
<1>3. /\ Buyer(id) \in Accounts /\ Provider(id) \in Accounts /\ Treasury \in Accounts
  BY IdType DEF Accounts, TypeOK
<1> PICK taxed : taxed = Repatriate(balances, Buyer(id), Treasury, fee)
  OBVIOUS
<1>4. taxed \in Ledger(Accounts) /\ TakesAtMost(balances, taxed, Buyer(id), fee)
  BY <1>3, RepatriateType, RepatriateTakes
<1>5. PaidByVerdict(id, balances) = Repatriate(taxed, Buyer(id), Provider(id), net)
  BY <1>2 DEF PaidByVerdict
<1>6. /\ PaidByVerdict(id, balances) \in Ledger(Accounts)
      /\ TakesAtMost(taxed, PaidByVerdict(id, balances), Buyer(id), net)
  BY <1>3, <1>4, <1>5, RepatriateType, RepatriateTakes
<1>7. fee + net = amount
  BY <1>2
<1>8. TakesAtMost(balances, PaidByVerdict(id, balances), Buyer(id), fee + net)
  BY <1>4, <1>6, TakesBoth
<1> QED BY <1>6, <1>7, <1>8

\* A verdict ends the promise of the question, and with it that of the agreement.
LEMMA ReserveVerdict ==
  ASSUME IInv, IInv', ReserveInv, NEW id \in DOMAIN requests,
         NEW balances \in Ledger(Accounts),
         TakesAtMost(ledger, balances, Buyer(id), requests[id].bounty),
         requests' = Without(requests, id),
         \/ BuyerWins(id, balances)    \/ ProviderWins(id, balances)
         \/ FailedVerdict(id, balances) \/ VerdictTooLate(id, balances)
  PROVE  ReserveInv'
<1> PICK bounty \in Nat : bounty = requests[id].bounty
  BY PromiseType DEF IInv
<1>1. /\ id \in Ids /\ Buyer(id) \in Accounts /\ ledger \in Ledger(Accounts)
      /\ ledger' \in Ledger(Accounts)
  BY IdType DEF IInv, TypeOK
<1>2. CASE BuyerWins(id, balances) \/ ProviderWins(id, balances)
  <2>1. /\ id \in Open /\ CloseAgreement(id)
        /\ UNCHANGED <<agentStake, members>>
    BY <1>2 DEF BuyerWins, ProviderWins, SettleDispute
  <2>2. PICK amount \in Nat : amount = agreements[id].amount
    BY <2>1, PromiseType DEF IInv
  <2>3. TakesAtMost(balances, ledger', Buyer(id), amount)
    <3>1. CASE BuyerWins(id, balances)
      BY <1>1, <2>2, <3>1, RepatriateTakes DEF BuyerWins, Unreserve
    <3>2. CASE ProviderWins(id, balances)
      BY <2>1, <2>2, <3>2, PaidByVerdictTakes DEF ProviderWins, IInv
    <3> QED BY <1>2, <3>1, <3>2
  <2>4. TakesAtMost(ledger, ledger', Buyer(id), bounty + amount)
    BY <1>1, <2>3, TakesBoth
  <2>5. /\ OnlyAt(id) /\ PromiseAt(id)' = 0 /\ PromiseAt(id) = amount + bounty
    BY <2>1, <2>2, OnlyDecides DEF PromiseAt, IInv
  <2>6. bounty + amount \in Nat /\ PromiseAt(id)' + (bounty + amount) <= PromiseAt(id)
    BY <2>5
  <2>7. members' \subseteq agentStake'
    BY <2>1 DEF ReserveInv
  <2> QED BY <1>1, <2>4, <2>5, <2>6, <2>7, ReserveReleased
<1>3. CASE VerdictTooLate(id, balances)
  <2>1. /\ ledger' = balances
        /\ UNCHANGED <<agreements, agentStake, members>>
    BY <1>3 DEF VerdictTooLate, escrowVars, agentVars
  <2>2. /\ OnlyAt(id) /\ AmountAt(id) \in Nat
        /\ PromiseAt(id)' = AmountAt(id) + 0 /\ PromiseAt(id) = AmountAt(id) + bounty
    BY <2>1, OnlyDecides, PromiseType DEF PromiseAt, IInv
  <2>3. PromiseAt(id)' + bounty <= PromiseAt(id)
    BY <2>2
  <2>4. members' \subseteq agentStake'
    BY <2>1 DEF ReserveInv
  <2> QED BY <1>1, <2>1, <2>2, <2>3, <2>4, ReserveReleased
<1>4. ~FailedVerdict(id, balances)
  BY VerdictReachesAgent DEF FailedVerdict
<1> QED BY <1>2, <1>3, <1>4

\* The oracle's calls on a question.
LEMMA ReserveOracleCall ==
  ASSUME IInv, IInv', ReserveInv, NEW id \in Ids, OracleCall(id)
  PROVE  ReserveInv'
<1>1. CASE PanelAnswers(id)
  <2>1. /\ UNCHANGED <<agreements, agentStake, members, ledger>>
        /\ requests' = [requests EXCEPT ![id].answered = TRUE]
    BY <1>1 DEF PanelAnswers, escrowVars, agentVars
  <2>2. /\ DOMAIN requests' = DOMAIN requests
        /\ \A i \in DOMAIN requests : requests'[i].bounty = requests[i].bounty
    BY <2>1 DEF IInv, TypeOK, Question
  <2> QED BY <2>1, <2>2, ReserveAside DEF Open, ReserveInv
<1>2. CASE ExpireRequest(id)
  <2>1. /\ id \in DOMAIN requests /\ requests' = Without(requests, id)
        /\ ledger' = Unreserve(ledger, Buyer(id), requests[id].bounty)
        /\ UNCHANGED <<agreements, agentStake, members>>
    BY <1>2 DEF ExpireRequest, escrowVars, agentVars
  <2>2. PICK bounty \in Nat : bounty = requests[id].bounty
    BY <2>1, PromiseType DEF IInv
  <2>3. TakesAtMost(ledger, ledger', Buyer(id), bounty)
    BY <2>1, <2>2, BountyTaken DEF IInv
  <2>4. /\ OnlyAt(id) /\ AmountAt(id) \in Nat
        /\ PromiseAt(id)' = AmountAt(id) + 0 /\ PromiseAt(id) = AmountAt(id) + bounty
    BY <2>1, <2>2, OnlyDecides, PromiseType DEF PromiseAt, IInv
  <2>5. PromiseAt(id)' + bounty <= PromiseAt(id)
    BY <2>4
  <2>6. members' \subseteq agentStake'
    BY <2>1 DEF ReserveInv
  <2> QED BY <2>3, <2>4, <2>5, <2>6, ReserveReleased
<1>3. CASE FinaliseForProvider(id)
  BY <1>3, BountyTaken, ReserveVerdict DEF FinaliseForProvider, VerdictDue, IInv
<1>4. CASE FinaliseForBuyer(id)
  BY <1>4, BountyTaken, ReserveVerdict DEF FinaliseForBuyer, VerdictDue, IInv
<1> QED BY <1>1, <1>2, <1>3, <1>4 DEF OracleCall, FinaliseRequest

\* The escrow's own calls.
LEMMA ReserveAgreementCall ==
  ASSUME IInv, IInv', ReserveInv, NEW id \in Ids, AgreementCall(id)
  PROVE  ReserveInv'
<1>1. CASE AcceptAgreement(id)
  BY <1>1, ReserveAside DEF AcceptAgreement, Open, ReserveInv
<1>2. CASE ClosePending(id)
  BY <1>2, ReserveRefund DEF ClosePending, agentVars
<1>3. CASE RecordDelivery(id)
  <2>1. /\ agreements' = [agreements EXCEPT ![id].status = "Delivered"]
        /\ UNCHANGED <<agentStake, members, ledger, requests>>
    BY <1>3 DEF RecordDelivery, agentVars
  <2>2. /\ Open' = Open
        /\ \A i \in Open : agreements'[i].amount = agreements[i].amount
    BY <2>1 DEF Open, IInv, TypeOK, Agreement
  <2> QED BY <2>1, <2>2, ReserveAside DEF ReserveInv
<1>4. CASE ConfirmDelivery(id)
  BY <1>4, ReserveConfirm
<1>5. CASE DisputeDelivery(id)
  BY <1>5, ReserveDispute
<1>6. CASE ClaimRefund(id)
  BY <1>6, ReserveRefund DEF ClaimRefund
<1>7. CASE ExpireAgreement(id)
  BY <1>7, ReserveRefund DEF ExpireAgreement
<1>8. CASE \E deadline \in 0 .. MaxBlock : ExtendDeadline(id, deadline)
  <2>1. /\ UNCHANGED <<agentStake, members, ledger, requests>>
        /\ \E deadline : agreements' = [agreements EXCEPT ![id].deliverBy = deadline]
    BY <1>8 DEF ExtendDeadline, agentVars
  <2>2. /\ Open' = Open
        /\ \A i \in Open : agreements'[i].amount = agreements[i].amount
    BY <2>1 DEF Open, IInv, TypeOK, Agreement
  <2> QED BY <2>1, <2>2, ReserveAside DEF ReserveInv
<1> QED BY <1>1, <1>2, <1>3, <1>4, <1>5, <1>6, <1>7, <1>8 DEF AgreementCall

\* Nobody is evicted without leaving the collective.
LEMMA ReserveAgentCall ==
  ASSUME ReserveInv, ~MaySlash, NEW a, AgentCall(a)
  PROVE  ReserveInv'
<1>1. UNCHANGED <<agreements, ledger, requests>>
  BY DEF AgentCall, Register, RequestUnstake, CompleteUnstake, SetCapability,
         ExecuteSlash, escrowVars
<1>2. members' \subseteq agentStake'
  BY DEF ReserveInv, AgentCall, Register, RequestUnstake, CompleteUnstake,
         SetCapability, ExecuteSlash
<1> QED BY <1>1, <1>2, ReserveAside DEF Open

\* No step but an eviction makes a promise the reserve does not cover.
LEMMA ReserveStep ==
  ASSUME ~MaySlash
  PROVE  IInv /\ IInv' /\ ReserveInv /\ [Next]_vars => ReserveInv'
<1> SUFFICES ASSUME IInv, IInv', ReserveInv, [Next]_vars PROVE ReserveInv'
  OBVIOUS
<1>1. CASE Tick \/ UNCHANGED vars
  <2>1. UNCHANGED <<agreements, agentStake, members, ledger, requests>>
    BY <1>1 DEF Tick, vars, escrowVars, agentVars
  <2> QED BY <2>1, ReserveAside DEF Open, ReserveInv
<1>2. CASE \E b \in Buyers, p \in Providers, amount \in Amounts,
             deliverBy \in 0 .. MaxBlock, needed \in BOOLEAN :
             CreateAgreement(b, p, amount, deliverBy, needed)
  BY <1>2, ReserveCreate
<1>3. CASE \E id \in Ids : AgreementCall(id) \/ OracleCall(id)
  BY <1>3, ReserveAgreementCall, ReserveOracleCall
<1>4. CASE \E a \in Movers : AgentCall(a)
  BY <1>4, ReserveAgentCall
<1> QED BY <1>1, <1>2, <1>3, <1>4 DEF Next

\* At the start nothing is promised.
LEMMA ReserveInit == Init => ReserveInv
<1> SUFFICES ASSUME Init PROVE ReserveInv
  OBVIOUS
<1>1. /\ Open = {} /\ DOMAIN requests = {} /\ members = agentStake
      /\ \A b \in Buyers : ledger.reserved[b] = 0
  BY DEF Init, Open, Accounts
<1>2. \A b : /\ {id \in Open : Buyer(id) = b} = {}
             /\ {id \in DOMAIN requests : Buyer(id) = b} = {}
  BY <1>1
<1> QED BY <1>1, <1>2, SumEmpty, FS_EmptySet DEF ReserveInv, ReserveCoversPromises, Promised

\* Where nobody is evicted, what is reserved for a buyer covers every agreement
\* and every bounty that is still open, whoever closes the others and in
\* whatever order: no best-effort release in the pallets comes up short.
THEOREM ReserveSuffices ==
  ASSUME ~MaySlash
  PROVE  Spec => []ReserveCoversPromises
<1>1. IInv /\ IInv' /\ ReserveInv /\ [Next]_vars => ReserveInv'
  BY ReserveStep
<1>2. ReserveInv => ReserveCoversPromises
  BY DEF ReserveInv
<1> QED BY <1>1, <1>2, ReserveInit, Inductive, PTL DEF Spec

-----------------------------------------------------------------------------
(* The volume behind the emissions.                                        *)

Earners == Providers \cup {Treasury}

Volume == SumFunctionOnSet(eraVolume, Providers)

Held(balances) == SumFunctionOnSet(balances.free, Earners)

\* The reserve of a buyer covers what is promised under one key.
LEMMA PromiseBacked ==
  ASSUME IInv, ReserveInv, NEW id \in Ids
  PROVE  PromiseAt(id) <= ledger.reserved[Buyer(id)]
<1> PICK b \in Buyers : b = Buyer(id)
  BY DEF Ids, Buyer
<1> PICK S : S = {i \in Open : Buyer(i) = b}
  OBVIOUS
<1> PICK Q : Q = {i \in DOMAIN requests : Buyer(i) = b}
  OBVIOUS
<1> PICK f : f = AgreementAmounts
  OBVIOUS
<1> PICK h : h = Bounties
  OBVIOUS
<1>1. IsFiniteSet(S) /\ IsFiniteSet(Q)
  BY FS_Subset DEF IInv, Safe, ReserveInv
<1>2. (\A i \in S : f[i] \in Nat) /\ (\A i \in Q : h[i] \in Nat)
  BY PromiseType DEF IInv
<1>3. PICK m \in Nat : SumFunctionOnSet(f, S) = m + (IF id \in S THEN f[id] ELSE 0)
  BY ONLY <1>1, <1>2, SumBesides
<1>4. PICK n \in Nat : SumFunctionOnSet(h, Q) = n + (IF id \in Q THEN h[id] ELSE 0)
  BY ONLY <1>1, <1>2, SumBesides
<1>5. Promised(b) = SumFunctionOnSet(f, S) + SumFunctionOnSet(h, Q)
  BY DEF Promised
<1>6. /\ (IF id \in S THEN f[id] ELSE 0) = AmountAt(id)
      /\ (IF id \in Q THEN h[id] ELSE 0) = BountyAt(id)
  BY DEF AmountAt, BountyAt, AgreementAmounts, Bounties
<1>7. /\ AmountAt(id) \in Nat /\ BountyAt(id) \in Nat /\ ledger.reserved[b] \in Nat
      /\ Promised(b) <= ledger.reserved[b]
  BY PromiseType DEF IInv, ReserveInv, ReserveCoversPromises
<1> QED BY <1>3, <1>4, <1>5, <1>6, <1>7 DEF PromiseAt

\* Two transfers the reserve covers arrive in full.
LEMMA BothArrive ==
  ASSUME NEW balances \in Ledger(Accounts), IsFiniteSet(Providers),
         NEW b \in Accounts, NEW one \in Earners, NEW other \in Earners,
         NEW x \in Nat, NEW y \in Nat, x + y <= balances.reserved[b]
  PROVE  Held(Repatriate(Repatriate(balances, b, one, x), b, other, y))
           = Held(balances) + x + y
<1>0. IsFiniteSet(Earners) /\ Earners \subseteq Accounts
  BY FS_AddElement DEF Earners, Accounts
<1> PICK then : then = Repatriate(balances, b, one, x)
  OBVIOUS
<1>1. balances.reserved \in [Accounts -> Nat]
  BY DEF Ledger
<1>2. Reachable(balances, b, x) = x
  BY <1>1 DEF Reachable
<1>3. then \in Ledger(Accounts) /\ then.reserved = [balances.reserved EXCEPT ![b] = @ - x]
  BY <1>0, <1>2, RepatriateType DEF Repatriate
<1>4. Reachable(then, b, y) = y
  BY <1>1, <1>3 DEF Reachable
<1>5. Held(then) = Held(balances) + x /\ Held(balances) \in Nat
  <2>1. balances \in Ledger(Accounts) /\ b \in Accounts /\ one \in Accounts /\ x \in Nat
    BY <1>0
  <2>2. /\ SumFunctionOnSet(then.free, Earners)
             = SumFunctionOnSet(balances.free, Earners)
                 + (IF one \in Earners THEN Reachable(balances, b, x) ELSE 0)
        /\ SumFunctionOnSet(balances.free, Earners) \in Nat
    BY ONLY <1>0, <2>1, then = Repatriate(balances, b, one, x), SumRepatriated, SMTT(20)
  <2> QED BY <1>2, <2>2 DEF Held
<1>6. Held(Repatriate(then, b, other, y)) = Held(then) + y
  <2>1. then \in Ledger(Accounts) /\ b \in Accounts /\ other \in Accounts /\ y \in Nat
    BY <1>0, <1>3
  <2>2. SumFunctionOnSet(Repatriate(then, b, other, y).free, Earners)
          = SumFunctionOnSet(then.free, Earners)
              + (IF other \in Earners THEN Reachable(then, b, y) ELSE 0)
    BY ONLY <1>0, <2>1, SumRepatriated
  <2> QED BY <1>4, <2>2 DEF Held
<1> QED BY <1>5, <1>6

\* No transfer takes from those who earn.
LEMMA HeldGrows ==
  ASSUME NEW balances \in Ledger(Accounts), IsFiniteSet(Providers),
         NEW from \in Accounts, NEW to \in Accounts, NEW amount \in Nat
  PROVE  /\ Held(balances) \in Nat
         /\ Held(Repatriate(balances, from, to, amount)) \in Nat
         /\ Held(balances) <= Held(Repatriate(balances, from, to, amount))
<1>0. IsFiniteSet(Earners) /\ Earners \subseteq Accounts
  BY FS_AddElement DEF Earners, Accounts
<1> QED BY <1>0, SumRepatriated DEF Held

VolumeInv == Volume <= Held(ledger)

\* The accounts that pay are not those that earn.
BuyersOnlyPay == IsFiniteSet(Providers) /\ Buyers \cap Earners = {}

\* A step that credits nobody and takes no free balance from who earns.
LEMMA VolumeAside ==
  ASSUME TypeOK, IsFiniteSet(Providers), VolumeInv, UNCHANGED eraVolume,
         Held(ledger) <= Held(ledger'), Held(ledger) \in Nat, Held(ledger') \in Nat
  PROVE  VolumeInv'
<1>1. Volume \in Nat
  <2>1. IsFiniteSet(Providers) /\ \A p \in Providers : eraVolume[p] \in Nat
    BY DEF TypeOK
  <2> QED BY ONLY <2>1, SumNat DEF Volume
<1>2. Volume' = Volume
  BY DEF Volume
<1>3. Held(ledger)' = Held(ledger')
  BY DEF Held
<1> QED BY <1>1, <1>2, <1>3 DEF VolumeInv

\* What is reserved of a buyer's balance was not counted.
LEMMA HeldReserve ==
  ASSUME TypeOK, BuyersOnlyPay, NEW b \in Buyers, NEW amount \in Nat
  PROVE  /\ Held(ledger) \in Nat
         /\ Held(Reserve(ledger, b, amount)) = Held(ledger)
<1> PICK f : f = ledger.free
  OBVIOUS
<1> PICK g : g = Reserve(ledger, b, amount).free
  OBVIOUS
<1>1. IsFiniteSet(Earners) /\ Earners \subseteq Accounts /\ b \notin Earners
  BY FS_AddElement DEF Earners, Accounts, BuyersOnlyPay
<1>2. f \in [Accounts -> Nat] /\ g = [f EXCEPT ![b] = @ - amount]
  BY DEF TypeOK, Ledger, Reserve
<1>3. /\ \A a \in Earners : f[a] \in Nat
      /\ \A a \in Earners : g[a] = f[a]
  BY <1>1, <1>2
<1>4. SumFunctionOnSet(f, Earners) \in Nat
  BY ONLY <1>1, <1>3, SumNat
<1>5. SumFunctionOnSet(g, Earners) = SumFunctionOnSet(f, Earners)
  BY ONLY <1>1, <1>3, SumSame
<1> QED BY <1>4, <1>5 DEF Held

\* A credit that was paid.
LEMMA VolumePaid ==
  ASSUME TypeOK, IsFiniteSet(Providers), VolumeInv, NEW p \in Providers,
         NEW credit \in Nat, NEW paid \in Nat, credit <= paid,
         eraVolume' = [eraVolume EXCEPT ![p] = @ + credit],
         Held(ledger) \in Nat, Held(ledger') = Held(ledger) + paid
  PROVE  VolumeInv'
<1> PICK f : f = eraVolume
  OBVIOUS
<1> PICK g : g = eraVolume'
  OBVIOUS
<1>1. /\ IsFiniteSet(Providers) /\ p \in Providers /\ credit \in Nat
      /\ \A q \in Providers : f[q] \in Nat
      /\ \A q \in Providers : g[q] = f[q] + (IF q = p THEN credit ELSE 0)
  BY DEF TypeOK
<1>2. SumFunctionOnSet(f, Providers) \in Nat
  BY ONLY <1>1, SumNat
<1>3. SumFunctionOnSet(g, Providers) = SumFunctionOnSet(f, Providers) + credit
  BY ONLY <1>1, SumRaised
<1>4. Held(ledger)' = Held(ledger')
  BY DEF Held
<1>5. Volume \in Nat /\ Volume' = Volume + credit
  BY <1>2, <1>3 DEF Volume
<1> QED BY <1>4, <1>5 DEF VolumeInv

\* Money that goes back to a buyer, or to the panel.
LEMMA VolumeRefund ==
  ASSUME TypeOK, IsFiniteSet(Providers), VolumeInv, UNCHANGED eraVolume,
         NEW from \in Accounts, NEW to \in Accounts, NEW amount \in Nat,
         ledger' = Repatriate(ledger, from, to, amount)
  PROVE  VolumeInv'
<1>1. /\ Held(ledger) \in Nat /\ Held(ledger') \in Nat /\ Held(ledger) <= Held(ledger')
  BY HeldGrows DEF TypeOK
<1> QED BY <1>1, VolumeAside

\* confirm_delivery credits the amount, which is what provider and treasury get.
LEMMA VolumeConfirm ==
  ASSUME IInv, ReserveInv, BuyersOnlyPay, VolumeInv, NEW id \in Ids, ConfirmDelivery(id)
  PROVE  VolumeInv'
<1> PICK amount : amount = agreements[id].amount
  OBVIOUS
<1> PICK fee : fee = Share(amount, CompletionFeeBps)
  OBVIOUS
<1> PICK net : net = Saturating(amount - fee)
  OBVIOUS
<1>1. /\ id \in Open /\ Provider(id) \in Providers
      /\ ledger' = Repatriate(Repatriate(ledger, Buyer(id), Provider(id), net),
                              Buyer(id), Treasury, fee)
      /\ eraVolume' = [eraVolume EXCEPT ![Provider(id)] = @ + amount]
  BY IdType DEF ConfirmDelivery
<1>2. amount \in Nat
  BY <1>1, PromiseType DEF IInv
<1>3. fee \in Nat /\ net \in Nat /\ net + fee = amount
  <2>1. CompletionFeeBps \in Nat /\ CompletionFeeBps <= 10000
    BY RuntimeParameters, FeesAreShares
  <2>2. /\ Share(amount, CompletionFeeBps) \in Nat
        /\ Saturating(amount - Share(amount, CompletionFeeBps)) \in Nat
        /\ Saturating(amount - Share(amount, CompletionFeeBps))
             + Share(amount, CompletionFeeBps) = amount
    BY ONLY <1>2, <2>1, FeeAndNet
  <2> QED BY <2>2
<1>4. amount <= ledger.reserved[Buyer(id)]
  <2>1. BountyAt(id) \in Nat /\ AmountAt(id) = amount
    BY <1>1, PromiseType DEF AmountAt, IInv
  <2>2. PromiseAt(id) <= ledger.reserved[Buyer(id)]
    BY PromiseBacked
  <2>3. ledger.reserved[Buyer(id)] \in Nat
    BY IdType DEF IInv, TypeOK, Ledger
  <2> QED BY <1>2, <2>1, <2>2, <2>3 DEF PromiseAt
<1>5. /\ ledger \in Ledger(Accounts) /\ Buyer(id) \in Accounts /\ IsFiniteSet(Providers)
      /\ Provider(id) \in Earners /\ Treasury \in Earners
      /\ net + fee <= ledger.reserved[Buyer(id)]
  BY <1>3, <1>4, IdType DEF IInv, TypeOK, Earners, BuyersOnlyPay
<1>6. Held(ledger') = Held(ledger) + net + fee
  <2>1. Held(Repatriate(Repatriate(ledger, Buyer(id), Provider(id), net),
                        Buyer(id), Treasury, fee)) = Held(ledger) + net + fee
    BY ONLY <1>3, <1>5, BothArrive
  <2> QED BY <1>1, <2>1
<1>7. Held(ledger) \in Nat
  BY <1>5, <1>2, HeldGrows
<1>8. Held(ledger') = Held(ledger) + amount /\ amount <= amount
  BY <1>2, <1>3, <1>6, <1>7
<1> QED BY <1>1, <1>2, <1>5, <1>7, <1>8, VolumePaid DEF IInv

\* A verdict credits what the provider gets; the fee on it is not credited.
LEMMA VolumeVerdict ==
  ASSUME IInv, ReserveInv, BuyersOnlyPay, VolumeInv, NEW id \in DOMAIN requests,
         NEW balances \in {BountyShared(id, n) : n \in PanelWinners}
                          \cup {Unreserve(ledger, Buyer(id), requests[id].bounty)},
         \/ BuyerWins(id, balances)    \/ ProviderWins(id, balances)
         \/ FailedVerdict(id, balances) \/ VerdictTooLate(id, balances)
  PROVE  VolumeInv'
<1> PICK bounty \in Nat : bounty = requests[id].bounty
  BY PromiseType DEF IInv
<1>1. /\ balances \in Ledger(Accounts) /\ ledger \in Ledger(Accounts)
      /\ TakesAtMost(ledger, balances, Buyer(id), bounty)
      /\ IsFiniteSet(Providers) /\ id \in Ids /\ Buyer(id) \in Accounts
  BY BountyTaken, IdType DEF IInv, TypeOK, BuyersOnlyPay
<1>2. /\ Held(ledger) \in Nat /\ Held(balances) \in Nat /\ Held(ledger) <= Held(balances)
  BY <1>1, BountyTaken, HeldGrows DEF IInv
<1>3. CASE VerdictTooLate(id, balances)
  BY <1>2, <1>3, VolumeAside DEF VerdictTooLate, agentVars, IInv, BuyersOnlyPay
<1>4. CASE BuyerWins(id, balances)
  <2>1. /\ id \in Open /\ eraVolume' = eraVolume
        /\ ledger' = Repatriate(balances, Buyer(id), Buyer(id), agreements[id].amount)
    BY <1>4 DEF BuyerWins, Unreserve
  <2>2. agreements[id].amount \in Nat
    BY <2>1, PromiseType DEF IInv
  <2>3. Held(ledger') \in Nat /\ Held(balances) <= Held(ledger')
    BY <1>1, <2>1, <2>2, HeldGrows
  <2>4. Held(ledger) <= Held(ledger')
    BY <1>2, <2>3
  <2> QED BY <1>1, <1>2, <2>1, <2>3, <2>4, VolumeAside DEF IInv
<1>5. CASE ProviderWins(id, balances)
  <2> PICK amount : amount = agreements[id].amount
    OBVIOUS
  <2> PICK fee : fee = DisputeFee(id)
    OBVIOUS
  <2> PICK net : net = NetOfFee(id)
    OBVIOUS
  <2>1. /\ id \in Open /\ Provider(id) \in Providers
        /\ ledger' = Repatriate(Repatriate(balances, Buyer(id), Treasury, fee),
                                Buyer(id), Provider(id), net)
        /\ eraVolume' = [eraVolume EXCEPT ![Provider(id)] = @ + net]
    BY <1>1, <1>5, IdType DEF ProviderWins, PaidByVerdict, VerdictVolume
  <2>2. amount \in Nat
    BY <2>1, PromiseType DEF IInv
  <2>3. fee \in Nat /\ net \in Nat /\ net + fee = amount
    <3>1. DisputeBurnBps \in Nat /\ DisputeBurnBps <= 10000
      BY RuntimeParameters, FeesAreShares
    <3>2. /\ Share(amount, DisputeBurnBps) \in Nat
          /\ Saturating(amount - Share(amount, DisputeBurnBps)) \in Nat
          /\ Saturating(amount - Share(amount, DisputeBurnBps))
               + Share(amount, DisputeBurnBps) = amount
      BY ONLY <2>2, <3>1, FeeAndNet
    <3> QED BY <3>2 DEF DisputeFee, NetOfFee
  <2>4. fee + net <= balances.reserved[Buyer(id)]
    <3>1. PromiseAt(id) = amount + bounty
      BY <2>1 DEF PromiseAt, AmountAt, BountyAt
    <3>2. PromiseAt(id) <= ledger.reserved[Buyer(id)]
      BY <1>1, PromiseBacked
    <3>3. /\ ledger.reserved[Buyer(id)] <= balances.reserved[Buyer(id)] + bounty
          /\ ledger.reserved[Buyer(id)] \in Nat /\ balances.reserved[Buyer(id)] \in Nat
      BY <1>1 DEF TakesAtMost, Ledger
    <3> QED BY <2>2, <2>3, <3>1, <3>2, <3>3
  <2>5. Provider(id) \in Earners /\ Treasury \in Earners
    BY <2>1 DEF Earners
  <2>6. Held(ledger') = Held(balances) + fee + net
    <3>1. Held(Repatriate(Repatriate(balances, Buyer(id), Treasury, fee),
                          Buyer(id), Provider(id), net)) = Held(balances) + fee + net
      BY ONLY <1>1, <2>3, <2>4, <2>5, BothArrive
    <3> QED BY <2>1, <3>1
  <2>7. PICK paid \in Nat : Held(ledger') = Held(ledger) + paid /\ net <= paid
    <3>1. PICK gift \in Nat : Held(balances) = Held(ledger) + gift
      <4>1. Held(balances) - Held(ledger) \in Nat
        BY <1>2
      <4> QED BY <1>2, <4>1
    <3>2. gift + fee + net \in Nat /\ net <= gift + fee + net
      BY <2>3
    <3> QED BY <1>2, <2>3, <2>6, <3>1, <3>2
  <2> QED BY <1>1, <1>2, <2>1, <2>3, <2>7, VolumePaid DEF IInv
<1>6. ~FailedVerdict(id, balances)
  <2>1. id \in Open => Provider(id) \in agentStake
    BY VerdictReachesAgent
  <2> QED BY <2>1 DEF FailedVerdict
<1> QED BY <1>3, <1>4, <1>5, <1>6

\* No step credits a volume that was not paid.
LEMMA VolumeStep ==
  ASSUME BuyersOnlyPay
  PROVE  IInv /\ ReserveInv /\ VolumeInv /\ [Next]_vars => VolumeInv'
<1> SUFFICES ASSUME IInv, ReserveInv, VolumeInv, [Next]_vars PROVE VolumeInv'
  OBVIOUS
<1>0. /\ ledger \in Ledger(Accounts) /\ IsFiniteSet(Providers) /\ TypeOK
  BY DEF IInv, TypeOK, BuyersOnlyPay
<1>1. ASSUME UNCHANGED <<ledger, eraVolume>> PROVE VolumeInv'
  BY <1>1 DEF VolumeInv, Volume, Held
<1>2. CASE Tick \/ UNCHANGED vars
  BY <1>1, <1>2 DEF Tick, vars, agentVars
<1>3. CASE \E b \in Buyers, p \in Providers, amount \in Amounts,
             deliverBy \in 0 .. MaxBlock, needed \in BOOLEAN :
             CreateAgreement(b, p, amount, deliverBy, needed)
  <2>1. PICK b \in Buyers, amount \in Nat :
          ledger' = Reserve(ledger, b, amount) /\ eraVolume' = eraVolume
    BY <1>3, RuntimeParameters DEF CreateAgreement, agentVars
  <2>2. Held(ledger') = Held(ledger) /\ Held(ledger) \in Nat
    BY <1>0, <2>1, HeldReserve
  <2> QED BY <1>0, <2>1, <2>2, VolumeAside
<1>4. CASE \E id \in Ids : AgreementCall(id)
  <2> PICK id \in Ids : AgreementCall(id)
    BY <1>4
  <2>1. Buyer(id) \in Buyers /\ Buyer(id) \in Accounts
    BY IdType
  <2>2. CASE \/ AcceptAgreement(id) \/ RecordDelivery(id)
             \/ \E deadline \in 0 .. MaxBlock : ExtendDeadline(id, deadline)
    BY <1>1, <2>2 DEF AcceptAgreement, RecordDelivery, ExtendDeadline, agentVars
  <2>3. CASE ClosePending(id) \/ ClaimRefund(id) \/ ExpireAgreement(id)
    <3>1. /\ id \in Open /\ eraVolume' = eraVolume
          /\ ledger' = Repatriate(ledger, Buyer(id), Buyer(id), agreements[id].amount)
      BY <2>3 DEF ClosePending, ClaimRefund, ExpireAgreement, Unreserve, agentVars
    <3>2. agreements[id].amount \in Nat
      BY <1>0, <3>1, PromiseType
    <3> QED BY <1>0, <2>1, <3>1, <3>2, VolumeRefund
  <2>4. CASE ConfirmDelivery(id)
    BY <2>4, VolumeConfirm
  <2>5. CASE DisputeDelivery(id)
    <3>1. /\ id \in Open /\ eraVolume' = eraVolume
          /\ ledger' = Reserve(ledger, Buyer(id), Bounty(agreements[id]))
      BY <2>5 DEF DisputeDelivery, agentVars
    <3>2. Bounty(agreements[id]) \in Nat
      BY <1>0, <3>1, PromiseType, Arithmetic, RuntimeParameters DEF Bounty
    <3>3. Held(ledger') = Held(ledger) /\ Held(ledger) \in Nat
      BY <1>0, <2>1, <3>1, <3>2, HeldReserve
    <3> QED BY <1>0, <3>1, <3>3, VolumeAside
  <2> QED BY <2>2, <2>3, <2>4, <2>5 DEF AgreementCall
<1>5. CASE \E id \in Ids : OracleCall(id)
  <2> PICK id \in Ids : OracleCall(id)
    BY <1>5
  <2>1. CASE PanelAnswers(id)
    BY <1>1, <2>1 DEF PanelAnswers, agentVars
  <2>2. CASE ExpireRequest(id)
    <3>1. /\ id \in DOMAIN requests /\ eraVolume' = eraVolume
          /\ ledger' = Repatriate(ledger, Buyer(id), Buyer(id), requests[id].bounty)
      BY <2>2 DEF ExpireRequest, Unreserve, agentVars
    <3>2. requests[id].bounty \in Nat /\ Buyer(id) \in Accounts
      BY <1>0, <3>1, PromiseType, IdType
    <3> QED BY <1>0, <3>1, <3>2, VolumeRefund
  <2>3. CASE FinaliseForProvider(id)
    BY <2>3, VolumeVerdict DEF FinaliseForProvider, VerdictDue
  <2>4. CASE FinaliseForBuyer(id)
    BY <2>4, VolumeVerdict DEF FinaliseForBuyer, VerdictDue
  <2> QED BY <2>1, <2>2, <2>3, <2>4 DEF OracleCall, FinaliseRequest
<1>6. CASE \E a \in Movers : AgentCall(a)
  BY <1>1, <1>6 DEF AgentCall, Register, RequestUnstake, CompleteUnstake,
     SetCapability, ExecuteSlash
<1> QED BY <1>2, <1>3, <1>4, <1>5, <1>6 DEF Next

\* At the start nobody has earned anything.
LEMMA VolumeInit == ASSUME BuyersOnlyPay PROVE Init => VolumeInv
<1> SUFFICES ASSUME Init PROVE VolumeInv
  OBVIOUS
<1>1. /\ IsFiniteSet(Providers) /\ IsFiniteSet(Earners)
      /\ \A p \in Providers : eraVolume[p] = 0
      /\ \A a \in Earners : ledger.free[a] \in Nat
  BY RuntimeParameters, FS_AddElement DEF Init, Earners, Accounts, BuyersOnlyPay
<1>2. Volume = 0
  BY <1>1, SumZero DEF Volume
<1>3. Held(ledger) \in Nat
  BY ONLY <1>1, SumNat DEF Held
<1> QED BY <1>2, <1>3 DEF VolumeInv

\* The volume that sizes the emissions of an era was paid, to the providers it
\* was credited to or to the treasury as the fee on it, where nobody is evicted
\* and no buyer is paid as a provider.
THEOREM EarnedVolume ==
  ASSUME ~MaySlash, IsFiniteSet(Providers), Buyers \cap (Providers \cup {Treasury}) = {}
  PROVE  Spec => []EarnedVolumeWasPaid
<1>0. BuyersOnlyPay
  BY DEF BuyersOnlyPay, Earners
<1>1. IInv /\ IInv' /\ ReserveInv /\ [Next]_vars => ReserveInv'
  BY ReserveStep
<1>2. Init => VolumeInv
  BY <1>0, VolumeInit
<1>3. IInv /\ ReserveInv /\ VolumeInv /\ [Next]_vars => VolumeInv'
  BY <1>0, VolumeStep
<1>4. IInv /\ VolumeInv => EarnedVolumeWasPaid
  <2> SUFFICES ASSUME IInv, VolumeInv PROVE EarnedVolumeWasPaid
    OBVIOUS
  <2>1. DOMAIN eraVolume = Providers
    BY DEF IInv, TypeOK
  <2> QED BY <2>1 DEF EarnedVolumeWasPaid, SumFunction, VolumeInv, Volume, Held, Earners
<1> QED BY <1>1, <1>2, <1>3, <1>4, ReserveInit, Inductive, PTL DEF Spec

-----------------------------------------------------------------------------
(* The life of an agreement.                                               *)

\* Where an agreement stands, door by door.
LEMMA StageNow ==
  ASSUME NEW id \in Ids
  PROVE  /\ id \in Open /\ id \in pendingAcceptance => Stage[id] = "pending"
         /\ id \in Open /\ Accepted(id) =>
              Stage[id] = IF agreements[id].status = "Created"
                          THEN "accepted" ELSE agreements[id].status
         /\ id \notin Open /\ id[3] < nextSeq[Pair(id)] => Stage[id] = "closed"
         /\ id \notin Open /\ ~(id[3] < nextSeq[Pair(id)]) => Stage[id] = "none"
BY DEF Stage, StageOf, Accepted

\* And where it stands next.
LEMMA StageNext ==
  ASSUME NEW id \in Ids
  PROVE  /\ id \in Open' /\ id \in pendingAcceptance' => Stage'[id] = "pending"
         /\ id \in Open' /\ id \notin pendingAcceptance' =>
              Stage'[id] = IF agreements'[id].status = "Created"
                           THEN "accepted" ELSE agreements'[id].status
         /\ id \notin Open' /\ id[3] < nextSeq'[Pair(id)] => Stage'[id] = "closed"
         /\ id \notin Open' /\ ~(id[3] < nextSeq'[Pair(id)]) => Stage'[id] = "none"
BY DEF Stage, StageOf, Accepted

Stages == Lifecycle!Active \cup {"none", "closed"}

\* Every agreement stands somewhere.
LEMMA StageType == TypeOK => Stage \in [Ids -> Stages]
<1> SUFFICES ASSUME TypeOK PROVE Stage \in [Ids -> Stages]
  OBVIOUS
<1>1. ASSUME NEW id \in Ids PROVE Stage[id] \in Stages
  <2>1. id \in Open => agreements[id].status \in Status
    BY DEF TypeOK, Agreement
  <2>2. /\ (id \in Open /\ id \in pendingAcceptance) \/ (id \in Open /\ Accepted(id))
           \/ (id \notin Open /\ id[3] < nextSeq[Pair(id)])
           \/ (id \notin Open /\ ~(id[3] < nextSeq[Pair(id)]))
    BY DEF Accepted
  <2> QED BY <2>1, <2>2, StageNow DEF Stages, Lifecycle!Active, Status
<1>2. Stage = [id \in Ids |-> Stage[id]]
  <2> HIDE DEF StageOf
  <2> QED BY DEF Stage
<1> HIDE DEF Stage
<1> QED BY <1>1, <1>2

\* A step leaves the agreements but one where they stand.
OthersStay(id) ==
  /\ Open' \ {id} = Open \ {id}
  /\ pendingAcceptance' \ {id} = pendingAcceptance \ {id}
  /\ \A i \in Open \ {id} : agreements'[i].status = agreements[i].status
  /\ \A i \in Ids \ (Open \cup {id}) :
       (i[3] < nextSeq'[Pair(i)]) <=> (i[3] < nextSeq[Pair(i)])

\* Then the stages change at that one.
LEMMA StageMoves ==
  ASSUME TypeOK, TypeOK', NEW id \in Ids, OthersStay(id)
  PROVE  Stage' = [Stage EXCEPT ![id] = Stage'[id]]
<1>1. ASSUME NEW i \in Ids, i # id PROVE Stage'[i] = Stage[i]
  <2>1. CASE i \in Open
    <3>1. /\ i \in Open' /\ agreements'[i].status = agreements[i].status
          /\ i \in pendingAcceptance' <=> i \in pendingAcceptance
      BY <1>1, <2>1 DEF OthersStay
    <3> QED BY <2>1, <3>1, StageNow, StageNext DEF Accepted
  <2>2. CASE i \notin Open
    <3>1. /\ i \notin Open'
          /\ (i[3] < nextSeq'[Pair(i)]) <=> (i[3] < nextSeq[Pair(i)])
      BY <1>1, <2>2 DEF OthersStay
    <3> QED BY <2>2, <3>1, StageNow, StageNext
  <2> QED BY <2>1, <2>2
<1>2. Stage \in [Ids -> Stages] /\ (Stage \in [Ids -> Stages])'
  BY StageType, PTL
<1>3. PICK s \in [Ids -> Stages], t \in [Ids -> Stages] : s = Stage /\ t = Stage'
  BY <1>2
<1>4. t = [s EXCEPT ![id] = t[id]]
  BY <1>1, <1>3
<1> QED BY <1>3, <1>4

\* A step that leaves all of them where they stand.
LEMMA StageStays ==
  ASSUME TypeOK, TypeOK', UNCHANGED <<Open, pendingAcceptance, nextSeq, payouts>>,
         \A i \in Open : agreements'[i].status = agreements[i].status
  PROVE  UNCHANGED <<Stage, payouts>>
<1>1. ASSUME NEW i \in Ids PROVE Stage'[i] = Stage[i]
  <2>1. CASE i \in Open
    BY <2>1, StageNow, StageNext DEF Accepted
  <2>2. CASE i \notin Open
    BY <2>2, StageNow, StageNext
  <2> QED BY <2>1, <2>2
<1>2. Stage \in [Ids -> Stages] /\ (Stage \in [Ids -> Stages])'
  BY StageType, PTL
<1> QED BY <1>1, <1>2

\* Where an open agreement can stand, and what it says of it.
LEMMA StageOpen ==
  ASSUME IInv, NEW id \in Open
  PROVE  /\ Stage[id] \in Lifecycle!Active
         /\ agreements[id].status = "Created" /\ Accepted(id) => Stage[id] = "accepted"
         /\ id \in pendingAcceptance => Stage[id] = "pending"
         /\ agreements[id].status # "Created" =>
              Accepted(id) /\ Stage[id] = agreements[id].status
<1>1. id \in Ids /\ agreements[id].status \in Status
  BY DEF IInv, TypeOK, Agreement
<1>2. id \in pendingAcceptance => agreements[id].status = "Created"
  BY DEF IInv, Safe, PendingIsUntouched
<1>3. CASE id \in pendingAcceptance
  <2>1. Stage[id] = "pending"
    BY <1>1, <1>3, StageNow
  <2> QED BY <1>2, <1>3, <2>1 DEF Accepted, Lifecycle!Active
<1>4. CASE id \notin pendingAcceptance
  <2>1. Stage[id] = IF agreements[id].status = "Created"
                    THEN "accepted" ELSE agreements[id].status
    BY <1>1, <1>4, StageNow DEF Accepted
  <2> QED BY <1>1, <1>4, <2>1 DEF Accepted, Lifecycle!Active, Status
<1> QED BY <1>3, <1>4

\* A door closes one agreement, for good.
LEMMA StageCloses ==
  ASSUME IInv, IInv', NEW id \in Open, CloseAgreement(id), UNCHANGED nextSeq,
         pendingAcceptance' \ {id} = pendingAcceptance \ {id},
         NEW how, payouts' = Released(id, how)
  PROVE  Lifecycle!Close(id, how)
<1>1. id \in Ids /\ id[3] < nextSeq[Pair(id)]
  BY DEF IInv, TypeOK, Safe, KeysWereHandedOut
<1>2. Open' = Open \ {id} /\ \A i \in Open' : agreements'[i] = agreements[i]
  BY CloseType DEF IInv
<1>3. OthersStay(id)
  BY <1>2 DEF OthersStay
<1>4. Stage'[id] = "closed"
  BY <1>1, <1>2, StageNext
<1>5. Stage' = [Stage EXCEPT ![id] = "closed"]
  BY <1>1, <1>3, <1>4, StageMoves DEF IInv
<1> QED BY <1>5 DEF Lifecycle!Close, Released

\* The doors that give the money back, and those that pay it out.
LEMMA StageRefunded ==
  ASSUME IInv, NEW id \in Open, Lifecycle!Close(id, "refunded")
  PROVE  Lifecycle!Next
<1>1. id \in Ids /\ Lifecycle!Refund(id)
  BY StageOpen DEF Lifecycle!Refund, IInv, TypeOK
<1> QED BY <1>1 DEF Lifecycle!Next

LEMMA StagePaid ==
  ASSUME IInv, NEW id \in Open, agreements[id].status \in {"Delivered", "Disputed"},
         Lifecycle!Close(id, "paid")
  PROVE  Lifecycle!Next
<1>1. id \in Ids /\ Lifecycle!Pay(id)
  BY StageOpen DEF Lifecycle!Pay, IInv, TypeOK
<1> QED BY <1>1 DEF Lifecycle!Next

\* The escrow's own calls, each as a step of the agreement's life.
LEMMA LifeAgreementCall ==
  ASSUME IInv, IInv', NEW id \in Ids, AgreementCall(id)
  PROVE  Lifecycle!Next \/ UNCHANGED <<Stage, payouts>>
<1>0. TypeOK /\ TypeOK'
  BY DEF IInv
<1>1. CASE AcceptAgreement(id)
  <2>1. /\ id \in Open /\ id \in pendingAcceptance
        /\ pendingAcceptance' = pendingAcceptance \ {id}
        /\ UNCHANGED <<agreements, nextSeq, payouts>>
    BY <1>1 DEF AcceptAgreement
  <2>2. agreements[id].status = "Created"
    BY <2>1 DEF IInv, Safe, PendingIsUntouched
  <2>3. OthersStay(id) /\ Open' = Open
    BY <2>1 DEF OthersStay, Open
  <2>4. Stage[id] = "pending" /\ Stage'[id] = "accepted"
    BY <2>1, <2>2, <2>3, StageNow, StageNext
  <2>5. Lifecycle!Accept(id)
    BY <1>0, <2>1, <2>3, <2>4, StageMoves DEF Lifecycle!Accept, Lifecycle!Moves
  <2> QED BY <2>5 DEF Lifecycle!Next
<1>2. CASE ClosePending(id)
  BY <1>2, StageCloses, StageRefunded DEF ClosePending
<1>3. CASE RecordDelivery(id)
  <2>1. /\ id \in Open /\ Accepted(id) /\ agreements[id].status = "Created"
        /\ agreements' = [agreements EXCEPT ![id].status = "Delivered"]
        /\ UNCHANGED <<pendingAcceptance, nextSeq, payouts>>
    BY <1>3 DEF RecordDelivery, MayRecordDelivery, Deliverable
  <2>2. /\ Open' = Open /\ agreements'[id].status = "Delivered"
        /\ \A i \in Open \ {id} : agreements'[i].status = agreements[i].status
    BY <1>0, <2>1 DEF Open, TypeOK, Agreement
  <2>3. OthersStay(id)
    BY <2>1, <2>2 DEF OthersStay
  <2>4. Stage[id] = "accepted" /\ Stage'[id] = "Delivered"
    BY <2>1, <2>2, StageNow, StageNext DEF Accepted
  <2>5. Lifecycle!Deliver(id)
    BY <1>0, <2>1, <2>3, <2>4, StageMoves DEF Lifecycle!Deliver, Lifecycle!Moves
  <2> QED BY <2>5 DEF Lifecycle!Next
<1>4. CASE ConfirmDelivery(id)
  BY <1>4, StageCloses, StagePaid DEF ConfirmDelivery
<1>5. CASE DisputeDelivery(id)
  <2> PICK a : a = agreements[id]
    OBVIOUS
  <2>1. /\ id \in Open /\ a.status = "Delivered"
        /\ \E part : agreements' = [agreements EXCEPT ![id] =
                       [a EXCEPT !.amount = part, !.status = "Disputed", !.openedAt = now]]
        /\ UNCHANGED <<pendingAcceptance, nextSeq, payouts>>
    BY <1>5 DEF DisputeDelivery
  <2>2. /\ Open' = Open /\ agreements'[id].status = "Disputed"
        /\ \A i \in Open \ {id} : agreements'[i].status = agreements[i].status
    <3>1. PICK part : agreements' = [agreements EXCEPT ![id] =
                        [a EXCEPT !.amount = part, !.status = "Disputed", !.openedAt = now]]
      BY <2>1
    <3>2. PICK new : new = [a EXCEPT !.amount = part, !.status = "Disputed", !.openedAt = now]
      OBVIOUS
    <3>3. "status" \in DOMAIN a
      BY <1>0, <2>1 DEF Open, TypeOK, Agreement
    <3>4. new.status = "Disputed"
      BY ONLY <3>2, <3>3
    <3>5. agreements' = [agreements EXCEPT ![id] = new]
      BY <3>1, <3>2
    <3> QED BY ONLY <2>1, <3>4, <3>5 DEF Open
  <2>3. OthersStay(id)
    BY <2>1, <2>2 DEF OthersStay
  <2>4. Accepted(id) /\ Stage[id] = "Delivered"
    BY <2>1, StageOpen
  <2>5. Stage'[id] = "Disputed"
    BY <2>1, <2>2, <2>4, StageNext DEF Accepted
  <2>6. Lifecycle!Dispute(id)
    BY <1>0, <2>1, <2>3, <2>4, <2>5, StageMoves DEF Lifecycle!Dispute, Lifecycle!Moves
  <2> QED BY <2>6 DEF Lifecycle!Next
<1>6. CASE ClaimRefund(id)
  BY <1>6, StageCloses, StageRefunded DEF ClaimRefund
<1>7. CASE ExpireAgreement(id)
  BY <1>7, StageCloses, StageRefunded DEF ExpireAgreement
<1>8. CASE \E deadline \in 0 .. MaxBlock : ExtendDeadline(id, deadline)
  <2>1. /\ UNCHANGED <<pendingAcceptance, nextSeq, payouts>>
        /\ \E deadline : agreements' = [agreements EXCEPT ![id].deliverBy = deadline]
    BY <1>8 DEF ExtendDeadline
  <2>2. /\ Open' = Open
        /\ \A i \in Open : agreements'[i].status = agreements[i].status
    BY <1>0, <2>1 DEF Open, TypeOK, Agreement
  <2> QED BY <1>0, <2>1, <2>2, StageStays
<1> QED BY <1>1, <1>2, <1>3, <1>4, <1>5, <1>6, <1>7, <1>8 DEF AgreementCall

\* The oracle's: a verdict closes the disputed agreement or comes too late.
LEMMA LifeOracleCall ==
  ASSUME IInv, IInv', ReserveInv, NEW id \in Ids, OracleCall(id)
  PROVE  Lifecycle!Next \/ UNCHANGED <<Stage, payouts>>
<1>0. TypeOK /\ TypeOK'
  BY DEF IInv
<1>1. ASSUME UNCHANGED escrowVars PROVE UNCHANGED <<Stage, payouts>>
  BY <1>0, <1>1, StageStays DEF escrowVars, Open
<1>2. CASE PanelAnswers(id) \/ ExpireRequest(id)
  BY <1>1, <1>2 DEF PanelAnswers, ExpireRequest
<1>3. ASSUME NEW balances, id \in DOMAIN requests,
             \/ BuyerWins(id, balances)    \/ ProviderWins(id, balances)
             \/ FailedVerdict(id, balances) \/ VerdictTooLate(id, balances)
      PROVE  Lifecycle!Next \/ UNCHANGED <<Stage, payouts>>
  <2>1. id \in Open => agreements[id].status = "Disputed"
    BY <1>3 DEF IInv, Safe, QuestionsAreForDisputes
  <2>2. CASE BuyerWins(id, balances)
    BY <2>2, StageCloses, StageRefunded DEF BuyerWins, SettleDispute
  <2>3. CASE ProviderWins(id, balances)
    BY <2>1, <2>3, StageCloses, StagePaid DEF ProviderWins, SettleDispute
  <2>4. CASE VerdictTooLate(id, balances)
    BY <1>1, <2>4 DEF VerdictTooLate
  <2>5. ~FailedVerdict(id, balances)
    BY <1>3, VerdictReachesAgent DEF FailedVerdict
  <2> QED BY <1>3, <2>2, <2>3, <2>4, <2>5
<1>4. CASE FinaliseRequest(id)
  BY <1>3, <1>4 DEF FinaliseRequest, FinaliseForProvider, FinaliseForBuyer, VerdictDue
<1> QED BY <1>2, <1>4 DEF OracleCall

\* An agreement is offered under a key that was never used.
LEMMA LifeCreate ==
  ASSUME IInv, IInv', NEW b \in Buyers, NEW p \in Providers,
         NEW amount \in Amounts, NEW deliverBy \in 0 .. MaxBlock, NEW needed \in BOOLEAN,
         CreateAgreement(b, p, amount, deliverBy, needed)
  PROVE  Lifecycle!Next
<1> PICK id : id = NextId(b, p)
  OBVIOUS
<1>0. TypeOK /\ TypeOK'
  BY DEF IInv
<1>1. /\ id \in Ids /\ Pair(id) = <<b, p>> /\ id = <<b, p, nextSeq[<<b, p>>]>>
      /\ Open' = Open \cup {id}
      /\ \A i \in Open \ {id} : agreements'[i] = agreements[i]
      /\ agreements'[id].status = "Created"
      /\ pendingAcceptance' = pendingAcceptance \cup {id}
      /\ nextSeq' = [nextSeq EXCEPT ![<<b, p>>] = @ + 1]
      /\ <<b, p>> \in Buyers \X Providers
  <2>1. Opens(b, p)
    BY <1>0, Creation
  <2>2. id = <<b, p, nextSeq[<<b, p>>]>>
    BY DEF NextId
  <2> QED BY <2>1, <2>2 DEF Opens
<1>2. payouts' = payouts
  BY DEF CreateAgreement
<1>3. nextSeq \in [Buyers \X Providers -> Nat]
  BY <1>0, RuntimeParameters DEF TypeOK
<1>4. ASSUME NEW i \in Ids, i # id
      PROVE  (i[3] < nextSeq'[Pair(i)]) <=> (i[3] < nextSeq[Pair(i)])
  <2>1. i[3] \in Nat /\ Pair(i) \in Buyers \X Providers /\ i = <<i[1], i[2], i[3]>>
    BY IdType DEF Buyer, Provider
  <2>2. CASE Pair(i) = <<b, p>>
    <3>1. i[3] # nextSeq[<<b, p>>]
      BY <1>1, <1>4, <2>1, <2>2 DEF Pair
    <3>2. nextSeq'[Pair(i)] = nextSeq[Pair(i)] + 1 /\ nextSeq[Pair(i)] \in Nat
      BY <1>1, <1>3, <2>1, <2>2
    <3> QED BY <2>1, <2>2, <3>1, <3>2
  <2>3. CASE Pair(i) # <<b, p>>
    BY <1>1, <1>3, <2>1, <2>3
  <2> QED BY <2>2, <2>3
<1>5. OthersStay(id)
  BY <1>1, <1>4 DEF OthersStay
<1>6. id \notin Open /\ ~(id[3] < nextSeq[Pair(id)])
  <2>1. ~(id[3] < nextSeq[Pair(id)])
    BY <1>1, <1>3
  <2> QED BY <2>1 DEF IInv, Safe, KeysWereHandedOut
<1>7. Stage[id] = "none" /\ Stage'[id] = "pending"
  BY <1>1, <1>6, StageNow, StageNext
<1>8. Lifecycle!Offer(id)
  BY <1>0, <1>1, <1>2, <1>5, <1>7, StageMoves DEF Lifecycle!Offer, Lifecycle!Moves
<1> QED BY <1>1, <1>8 DEF Lifecycle!Next

\* Every step of the escrow is a step of the agreement's life, or none.
LEMMA LifeStep ==
  IInv /\ IInv' /\ ReserveInv /\ [Next]_vars => [Lifecycle!Next]_<<Stage, payouts>>
<1> SUFFICES ASSUME IInv, IInv', ReserveInv, [Next]_vars
             PROVE  Lifecycle!Next \/ UNCHANGED <<Stage, payouts>>
  OBVIOUS
<1>1. ASSUME UNCHANGED escrowVars PROVE UNCHANGED <<Stage, payouts>>
  BY <1>1, StageStays DEF escrowVars, Open, IInv
<1>2. CASE Tick \/ UNCHANGED vars
  BY <1>1, <1>2 DEF Tick, vars
<1>3. CASE \E b \in Buyers, p \in Providers, amount \in Amounts,
             deliverBy \in 0 .. MaxBlock, needed \in BOOLEAN :
             CreateAgreement(b, p, amount, deliverBy, needed)
  BY <1>3, LifeCreate
<1>4. CASE \E id \in Ids : AgreementCall(id) \/ OracleCall(id)
  BY <1>4, LifeAgreementCall, LifeOracleCall
<1>5. CASE \E a \in Movers : AgentCall(a)
  BY <1>1, <1>5 DEF AgentCall, Register, RequestUnstake, CompleteUnstake,
     SetCapability, ExecuteSlash
<1> QED BY <1>2, <1>3, <1>4, <1>5 DEF Next

\* At the start no agreement was offered.
LEMMA LifeInit == Init => Lifecycle!Init
<1> SUFFICES ASSUME Init PROVE Lifecycle!Init
  OBVIOUS
<1>1. Open = {} /\ payouts = [id \in Ids |-> <<>>]
  BY DEF Init, Open
<1>2. ASSUME NEW id \in Ids PROVE Stage[id] = "none"
  <2>1. ~(id[3] < nextSeq[Pair(id)])
    BY IdType DEF Init
  <2> QED BY <1>1, <2>1, StageNow
<1>3. Stage \in [Ids -> Stages]
  BY TypeInit, StageType
<1>4. Stage = [id \in Ids |-> "none"]
  BY <1>2, <1>3
<1> QED BY <1>1, <1>4 DEF Lifecycle!Init

\* Where nobody is evicted, pallet-escrow keeps the life of an agreement as its
\* two parties see it: offered once, bound by consent, delivered before it is
\* disputed, and closed once with its money released once, to the provider only
\* for work it delivered - whatever windows, verdicts and keepers it takes.
THEOREM EscrowImplementsLifecycle ==
  ASSUME ~MaySlash
  PROVE  Spec => LifecycleSpec
<1>1. IInv /\ IInv' /\ ReserveInv /\ [Next]_vars => ReserveInv'
  BY ReserveStep
<1> QED BY <1>1, ReserveInit, LifeInit, LifeStep, Inductive, PTL
        DEF Spec, LifecycleSpec, Lifecycle!Spec

\* One release for an agreement that is closed, none before.
ReleasesMatch ==
  \A id \in Ids : Len(payouts[id]) = IF Stage[id] = "closed" THEN 1 ELSE 0

\* What the life of an agreement says of the releases.
LEMMA ReleasesStep ==
  TypeOK /\ ReleasesMatch /\ [Lifecycle!Next]_<<Stage, payouts>> => ReleasesMatch'
<1> SUFFICES ASSUME TypeOK, ReleasesMatch, [Lifecycle!Next]_<<Stage, payouts>>
             PROVE  ReleasesMatch'
  OBVIOUS
<1>0. /\ Stage \in [Ids -> Stages]
      /\ payouts \in [Ids -> Seq({"paid", "refunded"})]
  BY StageType DEF TypeOK
<1>1. CASE UNCHANGED <<Stage, payouts>>
  BY <1>1 DEF ReleasesMatch
<1>2. ASSUME NEW id \in Ids, NEW from, NEW to, to # "closed", from # "closed",
             Lifecycle!Moves(id, from, to)
      PROVE  ReleasesMatch'
  BY <1>0, <1>2 DEF ReleasesMatch, Lifecycle!Moves
<1>3. ASSUME NEW id \in Ids, NEW how \in {"paid", "refunded"}, Stage[id] # "closed",
             Lifecycle!Close(id, how)
      PROVE  ReleasesMatch'
  <2>1. /\ Stage' = [Stage EXCEPT ![id] = "closed"]
        /\ payouts' = [payouts EXCEPT ![id] = Append(@, how)]
    BY <1>3 DEF Lifecycle!Close
  <2>2. Len(payouts[id]) = 0 /\ payouts[id] \in Seq({"paid", "refunded"})
    BY <1>0, <1>3 DEF ReleasesMatch
  <2>3. Len(Append(payouts[id], how)) = 1
    BY <2>2
  <2>4. /\ Stage'[id] = "closed" /\ payouts'[id] = Append(payouts[id], how)
        /\ \A i \in Ids \ {id} : Stage'[i] = Stage[i] /\ payouts'[i] = payouts[i]
    <3> HIDE DEF Stage
    <3> QED BY <1>0, <2>1
  <2> QED BY <2>3, <2>4 DEF ReleasesMatch
<1>4. CASE Lifecycle!Next
  <2> PICK id \in Ids : \/ Lifecycle!Offer(id) \/ Lifecycle!Accept(id)
                        \/ Lifecycle!Deliver(id) \/ Lifecycle!Dispute(id)
                        \/ Lifecycle!Refund(id) \/ Lifecycle!Pay(id)
    BY <1>4 DEF Lifecycle!Next
  <2>1. CASE Lifecycle!Refund(id)
    BY <1>3, <2>1 DEF Lifecycle!Refund, Lifecycle!Active
  <2>2. CASE Lifecycle!Pay(id)
    BY <1>3, <2>2 DEF Lifecycle!Pay
  <2> QED BY <1>2, <2>1, <2>2
          DEF Lifecycle!Offer, Lifecycle!Accept, Lifecycle!Deliver, Lifecycle!Dispute
<1> QED BY <1>1, <1>4

\* Where nobody is evicted an agreement's money is released once, by one door of
\* the eight: the verdict for an evicted provider is the only way to a second
\* release.
THEOREM ReleasedOnce ==
  ASSUME ~MaySlash
  PROVE  Spec => []PaidOnce
<1>1. IInv /\ IInv' /\ ReserveInv /\ [Next]_vars => ReserveInv'
  BY ReserveStep
<1>2. Init => ReleasesMatch
  <2> SUFFICES ASSUME Init, NEW id \in Ids
               PROVE  Len(payouts[id]) = IF Stage[id] = "closed" THEN 1 ELSE 0
    BY DEF ReleasesMatch
  <2>1. Stage = [i \in Ids |-> "none"] /\ payouts = [i \in Ids |-> <<>>]
    BY LifeInit DEF Lifecycle!Init
  <2>2. Stage[id] = "none" /\ payouts[id] = <<>>
    BY <2>1
  <2> QED BY <2>2
<1>3. IInv => TypeOK
  BY DEF IInv
<1>4. ReleasesMatch => PaidOnce
  BY DEF ReleasesMatch, PaidOnce
<1> QED BY <1>1, <1>2, <1>3, <1>4, ReserveInit, LifeStep, ReleasesStep, Inductive, PTL
        DEF Spec

====
