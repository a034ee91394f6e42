--------------------------- MODULE ReferenceAgent ---------------------------
(***************************************************************************)
(* The reference daemon (examples/reference-agent): a start that must      *)
(* succeed step by step or ends the process, then at most one tick at a    *)
(* time, driven by new heads: heartbeat, deliveries, confirmations, claim. *)
(* It submits without retries and forgets everything when it dies.         *)
(*                                                                         *)
(* It never consents to an agreement, which the runtime asks for before a  *)
(* delivery: somebody else has to, or every delivery fails.                *)
(***************************************************************************)
EXTENDS Submission, Integers, Sequences, SequencesExt

CONSTANTS
  Provider, Hirers,    \* this daemon, and the accounts that run scalar-buyer
  Setups,              \* [capabilities, uncategorised, confirms, claims, beatEvery,
                       \* registered, funded, until]: what a run is about
  GraceBlocks,         \* HEARTBEAT_GRACE_BLOCKS
  MaxAttempts, RetryAfterBlocks,
  MinDeliveryBlocks,
  Spans,               \* blocks a hirer allows
  HireBudget,          \* bound: agreements of a run
  LastEra              \* bound: the last era that settles

ASSUME RetryLimits == MaxAttempts \in Nat /\ RetryAfterBlocks \in Nat

VARIABLES
  site,                \* the chain as this daemon meets it
  siteUndo,            \* what the last inclusion changed, while it can be given up
  setup,
  daemon,              \* [at, now, lastBeat, seenEra, toPublish, work, toConfirm]
  handled, failed,     \* of the process: what is done, [count, retryAt] of what failed
  attempts, signed     \* history: ticks of this process's deliveries; deliveries ever

daemonOwn == <<site, siteUndo, setup, daemon, handled, failed, attempts, signed>>
daemonVars == <<submissionVars, daemonOwn>>
worldOf == <<site, siteUndo, setup>>
recall == <<handled, failed, attempts, signed>>

Hireable == {<<hirer, Provider, seq>> : hirer \in Hirers, seq \in 0..(HireBudget - 1)}
          \cup {<<Provider, hirer, seq>> : hirer \in Hirers, seq \in 0..(HireBudget - 1)}

NeverFailed == [count |-> 0, retryAt |-> 0]
Clean == [id \in Hireable |-> NeverFailed]
Untried == [id \in Hireable |-> <<>>]

Down == [at |-> "down", now |-> 0, lastBeat |-> 0, seenEra |-> 0,
         toPublish |-> {}, work |-> <<>>, toConfirm |-> <<>>]

DaemonInit ==
  /\ SubmissionInit
  /\ setup \in Setups
  /\ site = [height |-> 1, registered |-> setup.registered, funded |-> setup.funded, named |-> FALSE,
             published |-> {}, deals |-> {}, era |-> 0, earned |-> FALSE]
  /\ siteUndo = Void
  /\ daemon = Down /\ handled = {} /\ failed = Clean
  /\ attempts = Untried /\ signed = [id \in Hireable |-> 0]

-----------------------------------------------------------------------------
(* The chain and the other accounts, as far as the daemon can tell.        *)

With(deal, new) == [site EXCEPT !.deals = (@ \ {deal}) \cup {new}]

DealOf(id) == CHOOSE deal \in site.deals : deal.id = id
Stands(id) == \E deal \in site.deals : deal.id = id

DeliveryError(deal) ==
  IF ~deal.accepted THEN "NotAccepted"
  ELSE IF deal.status # "Created" THEN "WrongStatus"
  ELSE IF deal.capability \notin site.published \cup {Void} THEN "ProviderLacksCapability"
  ELSE IF site.height > deal.deliverBy THEN "DeadlinePassed"
  ELSE IF site.height < deal.createdAt + MinDeliveryBlocks THEN "MinDeliveryBlocksNotElapsed"
  ELSE Void

RuntimeError(call) ==
  CASE call.kind = "register" -> IF site.registered THEN "AlreadyRegistered" ELSE Void
    [] call.kind = "publish"  -> IF site.named THEN Void ELSE "IdentityRequired"
    [] call.kind = "claim"    -> IF site.earned THEN Void ELSE "NothingToClaim"
    [] call.kind = "deliver"  -> IF Stands(call.id) THEN DeliveryError(DealOf(call.id)) ELSE "AgreementNotFound"
    [] call.kind = "confirm"  -> IF Stands(call.id) /\ DealOf(call.id).status = "Delivered"
                                 THEN Void ELSE "WrongStatus"
    [] OTHER                  -> Void

RuntimeEffect(call) ==
  CASE call.kind = "register" -> [site EXCEPT !.registered = TRUE]
    [] call.kind = "name"     -> [site EXCEPT !.named = TRUE]
    [] call.kind = "publish"  -> [site EXCEPT !.published = @ \cup {call.id}]
    [] call.kind = "claim"    -> [site EXCEPT !.earned = FALSE]
    [] call.kind = "deliver"  -> With(DealOf(call.id), [DealOf(call.id) EXCEPT !.status = "Delivered"])
    [] call.kind = "confirm"  -> [site EXCEPT !.deals = @ \ {DealOf(call.id)}]
    [] OTHER                  -> site

DaemonTxLands(tx) ==
  /\ Includable(tx)
  /\ Include(tx, RuntimeError(tx.call))
  /\ site' = IF RuntimeError(tx.call) = Void THEN RuntimeEffect(tx.call) ELSE site
  /\ siteUndo' = [site |-> site, tx |-> tx]
  /\ UNCHANGED <<setup, daemon, recall>>

SiteReorg ==
  /\ siteUndo # Void
  /\ Retract(siteUndo.tx)
  /\ site' = siteUndo.site /\ siteUndo' = Void
  /\ UNCHANGED <<setup, daemon, recall>>

DaemonTxDrops(tx) == DropTx(tx) /\ UNCHANGED daemonOwn

SiteChanges(new) ==
  /\ site' = new /\ siteUndo' = Void
  /\ UNCHANGED <<submissionVars, setup, daemon, recall>>

SiteBlock ==
  \/ site.height < setup.until /\ SiteChanges([site EXCEPT !.height = @ + 1])
  \/ ~site.funded /\ SiteChanges([site EXCEPT !.funded = TRUE])
  \/ setup.claims /\ site.era < LastEra /\ \E earned \in {site.earned, TRUE} :
       SiteChanges([site EXCEPT !.era = @ + 1, !.earned = earned])

\* scalar-buyer hire: the deadline counts from the head it read.
Hire(id) ==
  /\ id[2] = Provider /\ Cardinality(site.deals) < HireBudget
  /\ site.registered /\ ~Stands(id)
  /\ \E span \in Spans, capability \in site.published \cup {Void} :
       /\ span > MinDeliveryBlocks
       /\ SiteChanges([site EXCEPT !.deals = @ \cup
            {[id |-> id, createdAt |-> site.height, deliverBy |-> site.height + span,
              status |-> "Created", accepted |-> FALSE, capability |-> capability]}])

\* scalar-buyer confirm: only what is recorded as delivered.
HirerConfirms(deal) ==
  /\ deal.id[2] = Provider /\ deal.status = "Delivered"
  /\ SiteChanges([site EXCEPT !.deals = @ \ {deal}])

\* The consent the daemon does not give: its operator, with another tool.
HandAccepts(deal) ==
  /\ ~deal.accepted /\ site.height <= deal.deliverBy
  /\ SiteChanges(With(deal, [deal EXCEPT !.accepted = TRUE]))

\* An agreement in which this account is the buyer, made with scalar-buyer
\* under the same seed and delivered by its provider.
OwnDealDelivered(id) ==
  /\ id[1] = Provider /\ Cardinality(site.deals) < HireBudget
  /\ setup.confirms /\ ~Stands(id)
  /\ SiteChanges([site EXCEPT !.deals = @ \cup
       {[id |-> id, createdAt |-> site.height, deliverBy |-> setup.until,
         status |-> "Delivered", accepted |-> TRUE, capability |-> Void]}])

-----------------------------------------------------------------------------
(* The process.                                                            *)

Awaits == submission = Void

DaemonAt(at) == [daemon EXCEPT !.at = at]
Moves(new) == daemon' = new /\ UNCHANGED <<submissionVars, worldOf, recall>>
Asks(call, tried) ==
  /\ submission' = Submitted(call, 0)
  /\ UNCHANGED <<nonce, txPool, faults, worldOf, daemon, failed>>
  /\ tried

Call(kind, id) == [kind |-> kind, id |-> id]
AsksPlain(kind, id) == Asks(Call(kind, id), UNCHANGED <<handled, attempts, signed>>)

\* The answer to the caller: an extrinsic that is in a block fails all the
\* same when record() cannot read that block.
Answers ==
  IF ~IsSettled THEN {}
  ELSE {submission.error} \cup (IF submission.error = Void /\ faults < MaxFaults THEN {"unread"} ELSE {})
Takes(answer) ==
  /\ submission' = Void
  /\ faults' = IF answer = submission.error THEN faults ELSE faults + 1
  /\ UNCHANGED <<nonce, txPool, worldOf>>

\* loadConfig refuses a heartbeat slower than the grace period.
SetupIsValid == setup.beatEvery > 0 /\ setup.beatEvery <= GraceBlocks

Boots ==
  /\ daemon.at = "down" /\ SetupIsValid
  /\ Moves(DaemonAt("register"))

StartOrder == <<"register", "beatNow", "missing", "name", "publish", "era">>

\* The process ends and systemd starts another one: the memory is gone, what
\* reached the pool is not.
Forgets ==
  /\ daemon' = Down /\ submission' = Void
  /\ handled' = {} /\ failed' = Clean /\ attempts' = Untried
  /\ UNCHANGED <<nonce, txPool, worldOf, signed>>

\* start, up to the subscription.
StartGoesOn ==
  /\ Awaits
  /\ \/ /\ daemon.at = "register"
        /\ IF site.registered THEN Moves(DaemonAt("beatNow"))
           ELSE IF site.funded THEN AsksPlain("register", Void)
           ELSE Forgets /\ UNCHANGED faults
     \/ /\ daemon.at = "beatNow"
        /\ AsksPlain("heartbeat", Void)
     \/ /\ daemon.at = "missing"
        /\ LET missing == setup.capabilities \ site.published
           IN  Moves([daemon EXCEPT !.toPublish = missing, !.lastBeat = site.height,
                 !.at = IF missing # {} /\ ~site.named THEN "name" ELSE "publish"])
     \/ /\ daemon.at = "name"
        /\ AsksPlain("name", Void)
     \/ /\ daemon.at = "publish"
        /\ IF daemon.toPublish = {} THEN Moves(DaemonAt("era"))
           ELSE AsksPlain("publish", CHOOSE id \in daemon.toPublish : TRUE)
     \/ /\ daemon.at = "era"
        /\ Moves([daemon EXCEPT !.at = "watching", !.seenEra = site.era, !.now = site.height])

StartAnswered ==
  /\ daemon.at \in ToSet(StartOrder)
  /\ \E answer \in Answers :
       /\ Takes(answer)
       /\ IF answer # Void
          THEN daemon' = Down /\ handled' = {} /\ failed' = Clean /\ attempts' = Untried /\ UNCHANGED signed
          ELSE /\ UNCHANGED recall
               /\ daemon' = CASE daemon.at = "register" -> DaemonAt("beatNow")
                              [] daemon.at = "beatNow"  -> DaemonAt("missing")
                              [] daemon.at = "name"     -> DaemonAt("publish")
                              [] OTHER -> [daemon EXCEPT !.toPublish = @ \ {submission.call.id}]

\* A head starts a tick unless one is running: that head is skipped.
TickBegins ==
  /\ daemon.at = "watching"
  /\ \E head \in (daemon.now + 1)..site.height :
       Moves([daemon EXCEPT !.at = "beat", !.now = head])

BeatOrNot ==
  /\ daemon.at = "beat" /\ Awaits
  /\ IF daemon.now - daemon.lastBeat >= setup.beatEvery THEN AsksPlain("heartbeat", Void)
     ELSE Moves(DaemonAt("scan"))

\* A failure outside the deliveries ends the tick.
BeatAnswered ==
  /\ daemon.at = "beat"
  /\ \E answer \in Answers :
       /\ Takes(answer) /\ UNCHANGED recall
       /\ daemon' = IF answer # Void THEN DaemonAt("watching")
                    ELSE [daemon EXCEPT !.at = "scan", !.lastBeat = daemon.now]

\* selectWork, at the head of the tick and the agreements of the read.
SelectWork ==
  {deal \in site.deals :
     /\ deal.id[2] = Provider /\ deal.status = "Created"
     /\ daemon.now <= deal.deliverBy
     /\ daemon.now >= deal.createdAt + MinDeliveryBlocks
     /\ IF deal.capability = Void THEN setup.uncategorised
        ELSE deal.capability \in setup.capabilities}

SelectToConfirm == {deal \in site.deals : deal.id[1] = Provider /\ deal.status = "Delivered"}

IdsOf(deals) == SetToSeq({deal.id : deal \in deals})

ScansDeals ==
  /\ daemon.at = "scan"
  /\ Moves([daemon EXCEPT !.at = "deliver", !.work = IdsOf(SelectWork),
              !.toConfirm = IF setup.confirms THEN IdsOf(SelectToConfirm) ELSE <<>>])

\* A mutant: one attempt too many.
GivenUpLate(id) == failed[id].count > MaxAttempts \/ daemon.now < failed[id].retryAt

GivenUp(id) == failed[id].count >= MaxAttempts \/ daemon.now < failed[id].retryAt

NextDelivery ==
  /\ daemon.at = "deliver" /\ Awaits
  /\ IF daemon.work = <<>> THEN Moves(DaemonAt("confirm"))
     ELSE LET id == Head(daemon.work)
          IN  IF id \in handled \/ GivenUp(id)
              THEN Moves([daemon EXCEPT !.work = Tail(@)])
              ELSE Asks(Call("deliver", id),
                     /\ attempts' = [attempts EXCEPT ![id] = Append(@, daemon.now)]
                     /\ signed' = [signed EXCEPT ![id] = @ + 1]
                     /\ UNCHANGED handled)

OneMore(id) == [count |-> failed[id].count + 1, retryAt |-> daemon.now + RetryAfterBlocks]

DeliveryAnswered ==
  /\ daemon.at = "deliver"
  /\ LET id == Head(daemon.work)
     IN  \E answer \in Answers :
           /\ Takes(answer)
           /\ daemon' = [daemon EXCEPT !.work = Tail(@)]
           /\ handled' = IF answer = Void THEN handled \cup {id} ELSE handled
           /\ failed' = [failed EXCEPT ![id] = IF answer = Void THEN NeverFailed ELSE OneMore(id)]
           /\ UNCHANGED <<attempts, signed>>

\* A confirmation counts as done before it is sent.
NextConfirmation ==
  /\ daemon.at = "confirm" /\ Awaits
  /\ IF daemon.toConfirm = <<>> THEN Moves(DaemonAt(IF setup.claims THEN "claim" ELSE "watching"))
     ELSE LET id == Head(daemon.toConfirm)
          IN  IF id \in handled THEN Moves([daemon EXCEPT !.toConfirm = Tail(@)])
              ELSE Asks(Call("confirm", id), handled' = handled \cup {id} /\ UNCHANGED <<attempts, signed>>)

ConfirmationAnswered ==
  /\ daemon.at = "confirm"
  /\ \E answer \in Answers :
       /\ Takes(answer) /\ UNCHANGED recall
       /\ daemon' = IF answer # Void THEN DaemonAt("watching") ELSE [daemon EXCEPT !.toConfirm = Tail(@)]

\* The settled era is remembered before the claim that it is the cause of.
ClaimOrNot ==
  /\ daemon.at = "claim" /\ Awaits
  /\ IF site.era # daemon.seenEra THEN Moves([daemon EXCEPT !.seenEra = site.era, !.at = "pending"])
     ELSE Moves(DaemonAt("watching"))

Claims ==
  /\ daemon.at = "pending" /\ Awaits
  /\ IF site.earned THEN AsksPlain("claim", Void) ELSE Moves(DaemonAt("watching"))

ClaimAnswered ==
  /\ daemon.at = "pending"
  /\ \E answer \in Answers : Takes(answer)
  /\ daemon' = DaemonAt("watching")
  /\ UNCHANGED recall

\* A read fails: it ends the start, or the tick.
DaemonReadFails ==
  /\ Awaits /\ faults < MaxFaults /\ faults' = faults + 1
  /\ \/ daemon.at \in {"register", "missing", "era"} /\ Forgets
     \/ /\ daemon.at \in {"scan", "claim", "pending"} /\ daemon' = DaemonAt("watching")
        /\ UNCHANGED <<nonce, txPool, submission, worldOf, recall>>

DaemonDies ==
  /\ daemon.at # "down" /\ faults < MaxFaults /\ faults' = faults + 1
  /\ Forgets

DaemonSends == SendStep /\ UNCHANGED daemonOwn

Tick == \/ TickBegins \/ BeatOrNot \/ BeatAnswered \/ ScansDeals
        \/ NextDelivery \/ DeliveryAnswered \/ NextConfirmation \/ ConfirmationAnswered
        \/ ClaimOrNot \/ Claims \/ ClaimAnswered

DaemonNext ==
  \/ \E tx \in txPool : DaemonTxLands(tx) \/ DaemonTxDrops(tx)
  \/ SiteReorg \/ SiteBlock
  \/ \E id \in Hireable : Hire(id) \/ OwnDealDelivered(id)
  \/ \E deal \in site.deals : HirerConfirms(deal) \/ HandAccepts(deal)
  \/ Boots \/ StartGoesOn \/ StartAnswered
  \/ Tick \/ DaemonReadFails \/ DaemonDies \/ DaemonSends

DaemonSpec == DaemonInit /\ [][DaemonNext]_daemonVars

-----------------------------------------------------------------------------
(* Properties.                                                             *)

\* A failed delivery costs a fee (agent.ts, MAX_ATTEMPTS): a process tries an
\* agreement MAX_ATTEMPTS times at most and RETRY_AFTER_BLOCKS apart, whatever
\* a refusal, a lost answer or a block given up looked like; and since only
\* a death of the process resets the count, so does the total over all of them.
AttemptsAreBounded ==
  \A id \in Hireable :
    /\ Len(attempts[id]) <= MaxAttempts
    /\ \A i \in 2..Len(attempts[id]) : attempts[id][i] - attempts[id][i - 1] >= RetryAfterBlocks
    /\ signed[id] <= MaxAttempts * (1 + faults)
=============================================================================
