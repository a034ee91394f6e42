---------------------------- MODULE WorkerAgent ----------------------------
(***************************************************************************)
(* The operator's agent (agent/): one tick after another, each a pass of   *)
(* register, heartbeat, metadata, messaging key, accept and deliver,       *)
(* confirm and open, claim.  Every step stands alone: what fails is logged *)
(* and left to the next tick.  What a step decides on was read before its  *)
(* transaction is included, what it remembers is saved once a tick, and a  *)
(* crash forgets the rest.                                                 *)
(***************************************************************************)
EXTENDS Submission, Integers, Sequences, SequencesExt

CONSTANTS
  Myself,
  Clients,             \* buyers who may hire this agent
  Registry,            \* registered agents, in the order the map lists them
  BuyerPeers, BuyerMaxOpen, BuyerDeliverWithin,
  HeartbeatEvery, MinDelivery,
  Wallets,             \* onboarding: [approved, testnet, funded]
  Jobs,                \* [mode, registered, keyed, earned, offers, purse]: what a run is about
  LastHeight           \* bound: the last block

ASSUME BuyerCap == BuyerMaxOpen \in Nat

\* escrow refuses an agreement of an account with itself.
ASSUME NobodyHiresThemselves == Myself \notin Clients

VARIABLES
  net,                 \* the chain as this agent meets it
  undo,                \* the last inclusion of the best block, while it can be given up
  givenUp,             \* history: agreements a given-up block had changed
  wallet,
  job,                 \* the run: its mode, and the offers still to come
  agent,               \* "down", "checking", or the step of the tick
  left,                \* agreements of the snapshot still to look at
  readAt,              \* the head the step read
  memory, disk,        \* AgentState, and what state.json holds
  fresh                \* [beat, name]: registered in this tick; still to be named

loopVars == <<agent, left, readAt, memory, disk, fresh>>
workerOwn == <<net, undo, givenUp, wallet, job, loopVars>>
workerVars == <<submissionVars, workerOwn>>

Familiar == [beat |-> FALSE, name |-> FALSE]
Blank == [accepted |-> {}, delivered |-> {}, confirmed |-> {}]

WorkerInit ==
  /\ SubmissionInit
  /\ job \in Jobs
  /\ net = [height |-> 1, registered |-> job.registered, lastBeat |-> Void,
            named |-> FALSE, keyed |-> job.keyed, earned |-> job.earned,
            market |-> {}, opened |-> [who \in Clients \cup ToSet(Registry) |-> 0],
            purse |-> job.purse]
  /\ undo = Void /\ givenUp = {} /\ wallet \in Wallets
  /\ agent = "down" /\ left = <<>> /\ readAt = 0 /\ fresh = Familiar
  /\ memory = Blank /\ disk = Blank

-----------------------------------------------------------------------------
(* What the runtime makes of a call.  The pallets themselves are modelled  *)
(* elsewhere; here is what the agent can tell apart.                       *)

Kept(chain) == [error |-> Void, chain |-> chain]
Rejected(error) == [error |-> error, chain |-> net]

Changed(a, b) == [net EXCEPT !.market = (@ \ {a}) \cup {b}]

Agreed(call) == {a \in net.market : a.id = call.id}

\* A closed agreement is no longer in the map.
OnAgreement(call, Guard(_), Effect(_)) ==
  IF Agreed(call) = {} THEN Rejected("AgreementNotFound")
  ELSE LET a == CHOOSE a \in Agreed(call) : TRUE
       IN  IF Guard(a) = Void THEN Kept(Effect(a)) ELSE Rejected(Guard(a))

AcceptGuard(a) ==
  IF a.accepted THEN "NotPending" ELSE IF net.height > a.deliverBy THEN "DeadlinePassed" ELSE Void

DeliverGuard(a) ==
  IF ~a.accepted THEN "NotAccepted"
  ELSE IF a.status # "Created" THEN "NotCreated"
  ELSE IF net.height > a.deliverBy THEN "DeadlinePassed"
  ELSE IF net.height < a.createdAt + MinDelivery THEN "MinDeliveryBlocksNotElapsed"
  ELSE Void

ConfirmGuard(a) == IF a.status = "Delivered" THEN Void ELSE "NotDelivered"

Agreement(buyer, provider, seq, deliverBy) ==
  [id |-> <<buyer, provider, seq>>, createdAt |-> net.height, deliverBy |-> deliverBy,
   status |-> "Created", accepted |-> FALSE]

Opened(call) ==
  LET a == Agreement(Myself, call.peer, net.opened[call.peer], call.deliverBy)
  IN  [net EXCEPT !.market = @ \cup {a}, !.opened[call.peer] = @ + 1, !.purse = @ - 1]

Dispatch(call) ==
  CASE call.kind = "register"  -> IF net.registered THEN Rejected("AlreadyRegistered")
                                  ELSE Kept([net EXCEPT !.registered = TRUE])
    [] call.kind = "heartbeat" -> Kept([net EXCEPT !.lastBeat = net.height])
    [] call.kind = "metadata"  -> Kept([net EXCEPT !.named = TRUE])
    [] call.kind = "key"       -> Kept([net EXCEPT !.keyed = TRUE])
    [] call.kind = "accept"    -> OnAgreement(call, AcceptGuard,
                                    LAMBDA a : Changed(a, [a EXCEPT !.accepted = TRUE]))
    [] call.kind = "deliver"   -> OnAgreement(call, DeliverGuard,
                                    LAMBDA a : Changed(a, [a EXCEPT !.status = "Delivered"]))
    [] call.kind = "confirm"   -> OnAgreement(call, ConfirmGuard,
                                    LAMBDA a : [net EXCEPT !.market = @ \ {a}])
    [] call.kind = "create"    -> IF call.deliverBy <= net.height + MinDelivery
                                  THEN Rejected("DeadlineTooEarly")
                                  ELSE IF net.purse = 0 THEN Rejected("InsufficientBalance")
                                  ELSE Kept(Opened(call))
    [] call.kind = "claim"     -> IF net.earned THEN Kept([net EXCEPT !.earned = FALSE])
                                  ELSE Rejected("NothingToClaim")

Lands(tx) ==
  /\ Includable(tx)
  /\ Include(tx, Dispatch(tx.call).error)
  /\ net' = Dispatch(tx.call).chain
  /\ undo' = [chain |-> net, tx |-> tx]
  /\ UNCHANGED <<givenUp, wallet, job, loopVars>>

\* The best block loses its last transaction to another fork.
GivesUpLast ==
  /\ undo # Void
  /\ Retract(undo.tx)
  /\ net' = undo.chain /\ undo' = Void
  /\ givenUp' = givenUp \cup {a.id : a \in undo.chain.market \ net.market}
  /\ UNCHANGED <<wallet, job, loopVars>>

Drops(tx) ==
  /\ DropTx(tx)
  /\ UNCHANGED <<net, undo, givenUp, wallet, job, loopVars>>

NextBlock ==
  /\ net.height < LastHeight
  /\ net' = [net EXCEPT !.height = @ + 1] /\ undo' = Void
  /\ UNCHANGED <<submissionVars, givenUp, wallet, job, loopVars>>

\* A client hires this agent.
Offer(client) ==
  /\ job.offers > 0 /\ net.registered
  /\ job' = [job EXCEPT !.offers = @ - 1]
  /\ \E deliverBy \in {net.height + MinDelivery + 1, LastHeight} :
       deliverBy > net.height + MinDelivery /\
       net' = [net EXCEPT !.opened[client] = @ + 1,
                 !.market = @ \cup {Agreement(client, Myself, net.opened[client], deliverBy)}]
  /\ undo' = Void
  /\ UNCHANGED <<submissionVars, givenUp, wallet, loopVars>>

\* A peer this agent hired takes the work up and delivers it.
PeerDelivers(a) ==
  /\ a.id[1] = Myself /\ a.status = "Created"
  /\ net' = Changed(a, [a EXCEPT !.status = "Delivered", !.accepted = TRUE]) /\ undo' = Void
  /\ UNCHANGED <<submissionVars, givenUp, wallet, job, loopVars>>

\* The client confirms, or the deadline closes the agreement.
Closes(a) ==
  /\ a.id[1] # Myself
  /\ a.status = "Delivered" \/ net.height > a.deliverBy
  /\ net' = [net EXCEPT !.market = @ \ {a}] /\ undo' = Void
  /\ UNCHANGED <<submissionVars, givenUp, wallet, job, loopVars>>

-----------------------------------------------------------------------------
(* Onboarding: `check --for-start' in front of the agent.                  *)

PlanStart ==
  IF ~wallet.testnet \/ ~wallet.approved THEN "refuse"
  ELSE IF net.registered THEN "run"
  ELSE IF wallet.funded THEN "run-and-register"
  ELSE "faucet"

\* loadConfig: a buyer needs its peers spelled out.
Configured == job.mode = "provider" \/ BuyerPeers # {}

TickStarts == agent' = "register" /\ left' = <<>> /\ readAt' = 0

Starts ==
  /\ agent = "down" /\ Configured
  /\ PlanStart \in {"run", "run-and-register"}
  /\ memory' = disk
  /\ TickStarts /\ fresh' = Familiar
  /\ UNCHANGED <<submissionVars, net, undo, givenUp, wallet, job, disk>>

\* At most one request to the faucet, then a bounded wait for the money.
AsksFaucet ==
  /\ agent = "down" /\ Configured /\ PlanStart = "faucet"
  /\ wallet' \in {wallet, [wallet EXCEPT !.funded = TRUE]}
  /\ wallet' # wallet
  /\ UNCHANGED <<submissionVars, net, undo, givenUp, job, loopVars>>

-----------------------------------------------------------------------------
(* The tick.                                                               *)

Order == <<"register", "name", "heartbeat", "metadata", "key", "provide", "confirm",
           "create", "claim", "save">>

\* The steps a read decides on.
Simple == {"register", "name", "heartbeat", "metadata", "key", "claim"}

\* The steps of a mode.
Provides == job.mode \in {"provider", "both"}
Buys == job.mode \in {"buyer", "both"}
Runs(step) == /\ step = "provide" => Provides
              /\ step \in {"confirm", "create"} => Buys

After(step) ==
  LET rest == {i \in DOMAIN Order : i > CHOOSE j \in DOMAIN Order : Order[j] = step}
      mine == {i \in rest : Runs(Order[i])}
  IN  Order[CHOOSE i \in mine : \A j \in mine : i <= j]

GoesOn(step) == agent' = After(step) /\ left' = <<>> /\ readAt' = 0

Waits == submission = Void

Submits(call, retries) ==
  /\ submission' = Submitted(call, retries)
  /\ UNCHANGED <<nonce, txPool, faults, net, undo, givenUp, wallet, job, loopVars>>

Signs(call) ==
  /\ submission' = Sent(call)
  /\ UNCHANGED <<nonce, txPool, faults, net, undo, givenUp, wallet, job, loopVars>>

Skips(step) ==
  /\ GoesOn(step)
  /\ UNCHANGED <<submissionVars, net, undo, givenUp, wallet, job, memory, disk, fresh>>

Plain(kind) == [kind |-> kind]
About(kind, a) == [kind |-> kind, id |-> a.id]

\* ensureRegistered, maybeHeartbeat, updateMetadata, ensureMessagingKey and
\* maybeClaim: a read decides whether a transaction is due.
BeatIsDue == fresh.beat \/ net.lastBeat = Void \/ net.height - net.lastBeat >= HeartbeatEvery

Due(step) ==
  CASE step = "register"  -> ~net.registered
    [] step = "heartbeat" -> BeatIsDue
    [] step = "name"      -> fresh.beat
    [] step = "metadata"  -> fresh.name
    [] step = "key"       -> ~net.keyed
    [] step = "claim"     -> net.earned

Decides(step) ==
  /\ agent = step /\ Waits
  /\ step \in Simple
  /\ IF ~Due(step) THEN Skips(step)
     ELSE IF step \in {"name", "metadata"} THEN Signs(Plain("metadata"))
     ELSE Submits(Plain(step), MaxRetries)

\* The answer.  A failed step leaves the rest of the tick as it is, except
\* that an agent that is not registered does nothing more.
Concludes(step) ==
  /\ agent = step /\ IsSettled
  /\ step \in Simple
  /\ submission' = Void
  /\ IF step = "register" /\ submission.error # Void
     THEN agent' = "save" /\ left' = <<>> /\ readAt' = 0
     ELSE GoesOn(step)
  /\ fresh' = CASE submission.error # Void         -> fresh
                [] step = "register"              -> [beat |-> TRUE, name |-> TRUE]
                [] step \in {"name", "metadata"} -> [fresh EXCEPT !.name = FALSE]
                [] OTHER                          -> fresh
  /\ UNCHANGED <<nonce, txPool, faults, net, undo, givenUp, wallet, job, memory, disk>>

\* A read fails: the step is over, and with the first one the tick.  To buy is
\* one step: without the agreements nothing is confirmed or opened.
WholeStep(step) == IF step = "confirm" THEN "create" ELSE step

ReadFails ==
  /\ agent \in ToSet(Order) \ {"save"} /\ Waits /\ faults < MaxFaults
  /\ left = <<>> \/ agent = "create"
  /\ faults' = faults + 1
  /\ IF agent = "register" THEN agent' = "save" /\ left' = <<>> /\ readAt' = 0
     ELSE GoesOn(WholeStep(agent))
  /\ UNCHANGED <<nonce, txPool, submission, net, undo, givenUp, wallet, job, memory, disk, fresh>>

\* The agreements of one read, in the order of the map.
Listed(S) == SetToSeq(S)

\* provide: the head, then the agreements this agent can still work on.
ReadsWork ==
  /\ agent = "provide" /\ Waits /\ left = <<>> /\ readAt = 0
  /\ readAt' = net.height
  /\ left' = Listed({a \in net.market : a.id[2] = Myself /\ a.status = "Created"
                                         /\ net.height <= a.deliverBy})
  /\ UNCHANGED <<submissionVars, net, undo, givenUp, wallet, job, agent, memory, disk, fresh>>

\* The memory after a step about an agreement: only what succeeded.
RememberedDelivery(id, error) ==
  IF error = Void THEN [memory EXCEPT !.delivered = @ \cup {id}] ELSE memory
RememberedAccept(id, error) ==
  IF error = Void THEN [memory EXCEPT !.accepted = @ \cup {id}] ELSE memory
RememberedConfirm(id, error) ==
  IF error = Void THEN [memory EXCEPT !.confirmed = @ \cup {id}] ELSE memory

ToAccept(a) == a.id \notin memory.accepted
ToDeliver(a) == a.id \notin memory.delivered /\ readAt >= a.createdAt + MinDelivery

Accepts(a) == Signs(About("accept", a))
Delivers(a) == Submits(About("deliver", a), MaxRetries)

NextWork ==
  /\ left' = Tail(left)
  /\ IF Tail(left) = <<>> THEN agent' = After("provide") /\ readAt' = 0
     ELSE UNCHANGED <<agent, readAt>>

ProvideStarts ==
  /\ agent = "provide" /\ Waits /\ readAt # 0
  /\ \/ /\ left = <<>>
        /\ Skips("provide")
     \/ /\ left # <<>> /\ ToAccept(Head(left))
        /\ Accepts(Head(left))
     \/ /\ left # <<>> /\ ~ToAccept(Head(left)) /\ ToDeliver(Head(left))
        /\ Delivers(Head(left))
     \/ /\ left # <<>> /\ ~ToAccept(Head(left)) /\ ~ToDeliver(Head(left))
        /\ NextWork
        /\ UNCHANGED <<submissionVars, net, undo, givenUp, wallet, job, memory, disk, fresh>>

\* Mutant: only what this process accepted is worth delivering.
DeliversIfAccepted(a, error) == ToDeliver(a) /\ error = Void

\* After the accept, whatever came of it, the delivery of the same agreement:
\* an accept is refused too when it was made before a crash.
DeliversNext(a, error) == ToDeliver(a)

AcceptConcludes ==
  /\ agent = "provide" /\ IsSettled /\ submission.call.kind = "accept"
  /\ memory' = RememberedAccept(submission.call.id, submission.error)
  /\ IF DeliversNext(Head(left), submission.error)
     THEN /\ submission' = Submitted(About("deliver", Head(left)), MaxRetries)
          /\ UNCHANGED <<agent, left, readAt>>
     ELSE submission' = Void /\ NextWork
  /\ UNCHANGED <<nonce, txPool, faults, net, undo, givenUp, wallet, job, disk, fresh>>

DeliverConcludes ==
  /\ agent = "provide" /\ IsSettled /\ submission.call.kind = "deliver"
  /\ memory' = RememberedDelivery(submission.call.id, submission.error)
  /\ submission' = Void
  /\ NextWork
  /\ UNCHANGED <<nonce, txPool, faults, net, undo, givenUp, wallet, job, disk, fresh>>

MyOrders == {a \in net.market : a.id[1] = Myself}

\* buy: one read of the agreements serves the confirmations and the cap.
ReadsOrders ==
  /\ agent = "confirm" /\ Waits /\ readAt = 0
  /\ readAt' = net.height
  /\ left' = Listed(MyOrders)
  /\ UNCHANGED <<submissionVars, net, undo, givenUp, wallet, job, agent, memory, disk, fresh>>

ToConfirm == {i \in DOMAIN left : left[i].status = "Delivered" /\ left[i].id \notin memory.confirmed}

ConfirmStarts ==
  /\ agent = "confirm" /\ Waits /\ readAt # 0
  /\ \/ /\ ToConfirm # {}
        /\ Submits(About("confirm", left[CHOOSE i \in ToConfirm : \A j \in ToConfirm : i <= j]), MaxRetries)
     \/ /\ ToConfirm = {}
        /\ agent' = "create"
        /\ UNCHANGED <<submissionVars, net, undo, givenUp, wallet, job, left, readAt, memory, disk, fresh>>

\* A confirmation that failed is passed over for this tick.
ConfirmConcludes ==
  /\ agent = "confirm" /\ IsSettled
  /\ memory' = RememberedConfirm(submission.call.id, submission.error)
  /\ submission' = Void
  /\ left' = [i \in DOMAIN left |->
                IF left[i].id = submission.call.id THEN [left[i] EXCEPT !.status = "Passed"] ELSE left[i]]
  /\ UNCHANGED <<nonce, txPool, faults, net, undo, givenUp, wallet, job, agent, readAt, disk, fresh>>

\* Mutant: the cap is forgotten.
AnyRoom(orders) == TRUE

RoomFor(orders) == Len(orders) < BuyerMaxOpen

Free(orders) == {i \in DOMAIN Registry :
  Registry[i] # Myself /\ Registry[i] \in BuyerPeers
    /\ \A j \in DOMAIN orders : orders[j].id[2] # Registry[i]}

CreateStarts ==
  /\ agent = "create" /\ Waits
  /\ IF RoomFor(left) /\ net.purse > 0 /\ Free(left) # {}
     THEN Submits([kind |-> "create",
                   peer |-> Registry[CHOOSE i \in Free(left) : \A j \in Free(left) : i <= j],
                   deliverBy |-> net.height + BuyerDeliverWithin], MaxRetries)
     ELSE Skips("create")

CreateConcludes ==
  /\ agent = "create" /\ IsSettled
  /\ submission' = Void
  /\ GoesOn("create")
  /\ UNCHANGED <<nonce, txPool, faults, net, undo, givenUp, wallet, job, memory, disk, fresh>>

\* saveState replaces the file in one step; a failure leaves the old one.
Saves ==
  /\ agent = "save"
  /\ \/ disk' = memory /\ UNCHANGED faults
     \/ faults < MaxFaults /\ faults' = faults + 1 /\ UNCHANGED disk
  /\ TickStarts /\ fresh' = [fresh EXCEPT !.beat = FALSE]
  /\ UNCHANGED <<nonce, txPool, submission, net, undo, givenUp, wallet, job, memory>>

Sends ==
  /\ SendStep
  /\ UNCHANGED <<net, undo, givenUp, wallet, job, loopVars>>

Crashes ==
  /\ agent # "down" /\ faults < MaxFaults
  /\ faults' = faults + 1
  /\ agent' = "down" /\ left' = <<>> /\ readAt' = 0 /\ fresh' = Familiar
  /\ submission' = Void /\ memory' = Blank
  /\ UNCHANGED <<nonce, txPool, net, undo, givenUp, wallet, job, disk>>

Ticks ==
  \/ \E step \in ToSet(Order) : Decides(step) \/ Concludes(step)
  \/ ReadsWork \/ ProvideStarts \/ AcceptConcludes \/ DeliverConcludes
  \/ ReadsOrders \/ ConfirmStarts \/ ConfirmConcludes
  \/ CreateStarts \/ CreateConcludes \/ Saves

WorkerNext ==
  \/ \E tx \in txPool : Lands(tx) \/ Drops(tx)
  \/ GivesUpLast \/ NextBlock
  \/ \E client \in Clients : Offer(client)
  \/ \E a \in net.market : PeerDelivers(a) \/ Closes(a)
  \/ Starts \/ AsksFaucet \/ Ticks \/ ReadFails \/ Sends \/ Crashes

\* The operator keeps the agent running, the network answers in the end, and
\* block authors include what is in the pool.
WorkerFairness ==
  /\ WF_workerVars(Starts) /\ WF_workerVars(AsksFaucet)
  /\ WF_workerVars(Ticks) /\ WF_workerVars(Sends)
  /\ WF_workerVars(NextBlock)
  /\ WF_workerVars(\E tx \in txPool : Lands(tx))

WorkerSpec == WorkerInit /\ [][WorkerNext]_workerVars /\ WorkerFairness

-----------------------------------------------------------------------------
(* Properties.                                                             *)

\* buyerMaxOpen bounds what this agent has open at once, although the cap is
\* checked on a snapshot and create is retried: every agreement beyond it is
\* the mark of one lost call, one block given up or one crash.
OpenIsBounded == Cardinality(MyOrders) <= BuyerMaxOpen + faults

\* Work offered with time to spare is delivered, through read failures, lost
\* calls, crashes and restarts, unless the agent was never let start, waits
\* for a transaction that left the pool, or acted on a block given up later.
WorkGetsDelivered ==
  \A client \in Clients : \A seq \in 0..1 :
    LET id == <<client, Myself, seq>>
        Open(a) == a.id = id /\ a.deliverBy = LastHeight /\ a.status = "Created"
    IN  (\E a \in net.market : Open(a))
          ~> \/ ~ \E a \in net.market : Open(a)
             \/ id \in givenUp
             \/ Stranded
             \/ ~Configured \/ PlanStart = "refuse"
=============================================================================
