---------------------------- MODULE IndexFollower ----------------------------
(***************************************************************************)
(* The indexer as a follower of finalized blocks: one process that reads   *)
(* the finalized head, backfills a window behind it, subscribes, and then  *)
(* indexes up to every head it is told of, one job of a queue at a time.   *)
(* Its SQLite file outlives the process; everything else is lost with it.  *)
(*                                                                         *)
(* A block is the constant Blocks[n]: calls with a signer (or "inherent"   *)
(* for none), and events with the extrinsic they belong to (0 for none)  *)
(* and their arguments: a metadata type, outermost wrapper first, and the  *)
(* strings in the value.  Rows are not kept beside the indexed heights: a  *)
(* block's rows are written in one transaction and are a function of the   *)
(* finalized block.                                                        *)
(***************************************************************************)
EXTENDS Naturals, Sequences, FiniteSets, FiniteSetsExt

CONSTANTS
  Accounts,
  Blocks,              \* [0..MaxHeight -> finalized block]
  MaxHeight,           \* bound: the last block of the run
  Depths,              \* INDEXER_BACKFILL_DEPTH of a start, one of these
  Waiters, Targets,    \* callers of waitForBlock, heights they wait for
  FailureBudget,       \* bound: reads of the node that fail
  RestartBudget        \* bound: times the process dies

ASSUME FollowerConstants ==
  /\ {MaxHeight, FailureBudget, RestartBudget} \cup Depths \cup Targets \subseteq Nat
  /\ DOMAIN Blocks = 0..MaxHeight

VARIABLES
  finalized,           \* the node's last finalized block
  indexed,             \* SQLite: numbers of the blocks table
  seen,                \* SQLite: accounts, first_seen_block and last_seen_block
  phase,               \* "down", "backfilling", "serving", "stopping"
  window,              \* [from, head] of the last start
  missing,             \* blocks the backfill has still to read
  heads,               \* jobs of the queue: the heights to catch up to
  cursor,              \* the job that runs: [next, upTo], or NoJob
  notified,            \* the last head the subscription delivered
  waiters,             \* waitForBlock promises: [state, height]
  failures, restarts   \* what is left of the budgets

process == <<phase, window, missing, heads, cursor, notified>>
budgets == <<failures, restarts>>
followerVars == <<finalized, indexed, seen, process, waiters, budgets>>

Unseen == [first |-> 0, last |-> 0, seen |-> FALSE]
NoJob  == [next |-> 1, upTo |-> 0]
Idle   == [state |-> "idle", height |-> 0]

FollowerInit ==
  /\ finalized = 0
  /\ indexed = {}
  /\ seen = [a \in Accounts |-> Unseen]
  /\ phase = "down"
  /\ window = [from |-> 0, head |-> 0]
  /\ missing = {} /\ heads = <<>> /\ cursor = NoJob /\ notified = 0
  /\ waiters = [w \in Waiters |-> Idle]
  /\ failures = FailureBudget /\ restarts = RestartBudget

-----------------------------------------------------------------------------
(* The store.                                                              *)

LatestBlockNumber == Max(indexed)
MissingBlocks(from, to) == {n \in from..to : n \notin indexed}

-----------------------------------------------------------------------------
(* Ingestion: a finalized block as rows.                                   *)

Collections == {"Vec", "Option", "BTreeSet", "BoundedVec", "WeakBoundedVec", "Array"}

\* The first type that is no collection of one element type: a tuple or a
\* struct is left whole, and so is nobody's account.
LeafType(type) ==
  LET leaves == {i \in DOMAIN type : type[i] \notin Collections}
  IN  type[Min(leaves)]

IsAccountType(type) == LeafType(type) = "AccountId32"

AccountsFromArgs(args) ==
  UNION {args[i].value : i \in {j \in DOMAIN args : IsAccountType(args[j].type)}}

EventRows(n) ==
  [i \in DOMAIN Blocks[n].events |->
     LET event == Blocks[n].events[i]
     IN  [block |-> n, index |-> i, section |-> event.section, method |-> event.method,
          extrinsic |-> event.extrinsic, about |-> event.about,
          accounts |-> AccountsFromArgs(event.args)]]

\* What the block's own system events say of an extrinsic: being included is
\* not having succeeded, and the last of the two events is the one that stays.
Success(n, x) ==
  LET verdicts == {i \in DOMAIN Blocks[n].events :
                     LET event == Blocks[n].events[i]
                     IN  /\ event.extrinsic = x /\ event.section = "system"
                         /\ event.method \in {"ExtrinsicSuccess", "ExtrinsicFailed"}}
  IN  CASE verdicts = {} -> "unknown"
        [] OTHER -> Blocks[n].events[Max(verdicts)].method

ExtrinsicRows(n) ==
  [i \in DOMAIN Blocks[n].extrinsics |->
     LET call == Blocks[n].extrinsics[i]
     IN  [block |-> n, index |-> i, section |-> call.section, method |-> call.method,
          signer |-> call.signer, success |-> Success(n, i)]]

\* Every account a block names: signers of its extrinsics, accounts of events.
AccountsOf(n) ==
  ({ExtrinsicRows(n)[i].signer : i \in DOMAIN Blocks[n].extrinsics} \ {"inherent"})
    \cup UNION {EventRows(n)[i].accounts : i \in DOMAIN Blocks[n].events}

-----------------------------------------------------------------------------
(* Writing a block.                                                        *)

Lower(a, b)  == IF a < b THEN a ELSE b
Higher(a, b) == IF a > b THEN a ELSE b

\* A mutant: blocks are taken to come in order.
TouchAccountInOrder(range, n) ==
  [first |-> IF range.seen THEN range.first ELSE n, last |-> n, seen |-> TRUE]

TouchAccount(range, n) ==
  [first |-> IF range.seen THEN Lower(range.first, n) ELSE n,
   last  |-> IF range.seen THEN Higher(range.last, n) ELSE n,
   seen  |-> TRUE]

SaveBlock(n) ==
  /\ indexed' = indexed \cup {n}
  /\ seen' = [a \in Accounts |->
                IF a \in AccountsOf(n) THEN TouchAccount(seen[a], n) ELSE seen[a]]

ReleaseWaiters(n) ==
  waiters' = [w \in Waiters |->
                IF waiters[w].state = "waiting" /\ waiters[w].height <= n
                THEN [waiters[w] EXCEPT !.state = "resolved"] ELSE waiters[w]]

IndexBlock(n) == SaveBlock(n) /\ ReleaseWaiters(n)

-----------------------------------------------------------------------------
(* The node.                                                               *)

\* GRANDPA finalizes one or several blocks at a time.
Finalize ==
  /\ \E n \in 1..2 : finalized + n <= MaxHeight /\ finalized' = finalized + n
  /\ UNCHANGED <<indexed, seen, process, waiters, budgets>>

-----------------------------------------------------------------------------
(* start(): the window, the backfill, then the subscription.               *)

Start(depth) ==
  /\ phase = "down"
  /\ LET from == IF finalized + 1 > depth THEN finalized + 1 - depth ELSE 0
     IN  /\ window' = [from |-> from, head |-> finalized]
         /\ missing' = IF depth > 0 THEN MissingBlocks(from, finalized) ELSE {}
  /\ phase' = "backfilling"
  /\ UNCHANGED <<finalized, indexed, seen, heads, cursor, notified, waiters, budgets>>

Backfill ==
  /\ phase = "backfilling" /\ missing # {}
  /\ IndexBlock(Min(missing))
  /\ missing' = missing \ {Min(missing)}
  /\ UNCHANGED <<finalized, phase, window, heads, cursor, notified, budgets>>

\* The node answers a new subscription with its present head.
Subscribe ==
  /\ phase = "backfilling" /\ missing = {}
  /\ phase' = "serving"
  /\ heads' = <<finalized>> /\ notified' = finalized
  /\ UNCHANGED <<finalized, indexed, seen, window, missing, cursor, waiters, budgets>>

HeadArrives ==
  /\ phase = "serving" /\ notified < finalized
  /\ heads' = Append(heads, finalized) /\ notified' = finalized
  /\ UNCHANGED <<finalized, indexed, seen, phase, window, missing, cursor, waiters, budgets>>

-----------------------------------------------------------------------------
(* The queue.                                                              *)

\* A mutant: a head is taken to be the only new block.
HeadAlone(height) == height

CatchUpFrom(height) ==
  IF indexed = {} THEN height ELSE Lower(LatestBlockNumber + 1, height)

BeginCatchUp ==
  /\ cursor = NoJob /\ heads # <<>>
  /\ cursor' = [next |-> CatchUpFrom(Head(heads)), upTo |-> Head(heads)]
  /\ heads' = Tail(heads)
  /\ UNCHANGED <<finalized, indexed, seen, phase, window, missing, notified, waiters, budgets>>

\* A mutant: a job indexes one block.
CatchUpOnce ==
  /\ cursor # NoJob
  /\ IF cursor.next \in indexed THEN UNCHANGED <<indexed, seen, waiters>> ELSE IndexBlock(cursor.next)
  /\ cursor' = NoJob
  /\ UNCHANGED <<finalized, phase, window, missing, heads, notified, budgets>>

CatchUp ==
  /\ cursor # NoJob
  /\ IF cursor.next \in indexed THEN UNCHANGED <<indexed, seen, waiters>> ELSE IndexBlock(cursor.next)
  /\ cursor' = IF cursor.next < cursor.upTo THEN [cursor EXCEPT !.next = @ + 1] ELSE NoJob
  /\ UNCHANGED <<finalized, phase, window, missing, heads, notified, budgets>>

\* The read of a block is rejected: the job ends and the queue goes on.
CatchUpFails ==
  /\ cursor # NoJob /\ cursor.next \notin indexed /\ failures > 0
  /\ failures' = failures - 1
  /\ cursor' = NoJob
  /\ UNCHANGED <<finalized, indexed, seen, phase, window, missing, heads, notified, waiters, restarts>>

-----------------------------------------------------------------------------
(* Callers of waitForBlock.                                                *)

Wait(w, height) ==
  /\ phase # "down" /\ waiters[w].state = "idle"
  /\ waiters' = [waiters EXCEPT ![w] =
       [state |-> IF indexed # {} /\ LatestBlockNumber >= height THEN "resolved" ELSE "waiting",
        height |-> height]]
  /\ UNCHANGED <<finalized, indexed, seen, process, budgets>>

WaitTimesOut(w) ==
  /\ waiters[w].state = "waiting"
  /\ waiters' = [waiters EXCEPT ![w].state = "rejected"]
  /\ UNCHANGED <<finalized, indexed, seen, process, budgets>>

-----------------------------------------------------------------------------
(* The end of the process.  SIGTERM is handled once the API is up: it      *)
(* unsubscribes, lets the queue run out, fails the waiters and closes the  *)
(* file.  A failed backfill, like any crash, just ends it.                 *)

Stop ==
  /\ phase = "serving"
  /\ phase' = "stopping"
  /\ UNCHANGED <<finalized, indexed, seen, window, missing, heads, cursor, notified, waiters, budgets>>

QueueIsEmpty == heads = <<>> /\ cursor = NoJob

Close ==
  /\ phase = "stopping" /\ QueueIsEmpty
  /\ phase' = "down"
  /\ waiters' = [w \in Waiters |-> IF waiters[w].state = "waiting"
                                   THEN [waiters[w] EXCEPT !.state = "rejected"] ELSE waiters[w]]
  /\ UNCHANGED <<finalized, indexed, seen, window, missing, heads, cursor, notified, budgets>>

Crash ==
  /\ phase # "down" /\ restarts > 0
  /\ restarts' = restarts - 1
  /\ phase' = "down" /\ missing' = {} /\ heads' = <<>> /\ cursor' = NoJob
  /\ waiters' = [w \in Waiters |-> Idle]
  /\ UNCHANGED <<finalized, indexed, seen, window, notified, failures>>

FollowerNext ==
  \/ Finalize
  \/ \E depth \in Depths : Start(depth)
  \/ Backfill \/ Subscribe \/ HeadArrives
  \/ BeginCatchUp \/ CatchUp \/ CatchUpFails
  \/ \E w \in Waiters, height \in Targets : Wait(w, height)
  \/ \E w \in Waiters : WaitTimesOut(w)
  \/ Stop \/ Close \/ Crash

\* The event loop runs what is ready, the supervisor starts what is down, and
\* the subscription delivers; nothing makes the chain finalize.
FollowerFairness ==
  /\ WF_followerVars(\E depth \in Depths : Start(depth))
  /\ WF_followerVars(Backfill) /\ WF_followerVars(Subscribe)
  /\ WF_followerVars(HeadArrives)
  /\ WF_followerVars(BeginCatchUp) /\ WF_followerVars(CatchUp)
  /\ WF_followerVars(Close)

FollowerSpec == FollowerInit /\ [][FollowerNext]_followerVars /\ FollowerFairness

-----------------------------------------------------------------------------
(* Properties.                                                             *)

Phases == {"down", "backfilling", "serving", "stopping"}
WaiterStates == {"idle", "waiting", "resolved", "rejected"}
Heights == 0..MaxHeight

FollowerTypeOK ==
  /\ finalized \in Heights
  /\ indexed \subseteq Heights
  /\ seen \in [Accounts -> [first : Heights, last : Heights, seen : BOOLEAN]]
  /\ phase \in Phases
  /\ window \in [from : Nat, head : Heights]
  /\ missing \subseteq Heights
  /\ heads \in Seq(Heights)
  /\ cursor \in [next : Nat, upTo : Heights]
  /\ notified \in Heights
  /\ waiters \in [Waiters -> [state : WaiterStates, height : Nat]]
  /\ failures \in Nat /\ restarts \in Nat

\* Once the API is served, no block between the start of this run's window
\* and the newest indexed one is absent, whatever reads failed, heads were
\* skipped or the process died before (indexer.ts: backfill before subscribe,
\* catch-up from the newest block held).
WindowHasNoHole ==
  phase \in {"serving", "stopping"} /\ window.from <= window.head =>
    window.from..LatestBlockNumber \subseteq indexed

\* The range an account was seen in is that of the indexed blocks that name
\* it, in whatever order a later and deeper backfill filled old gaps
\* (store.ts: touchAccount widens).
SeenRangeIsExact ==
  \A a \in Accounts :
    LET named == {n \in indexed : a \in AccountsOf(n)}
    IN  seen[a] = IF named = {} THEN Unseen
                  ELSE [first |-> Min(named), last |-> Max(named), seen |-> TRUE]

\* Once the node answers again, the next head makes good whatever its failures
\* left out: each block up to that head is indexed, or lies before the window,
\* unless the process dies first (a failed job is logged, never retried alone).
Owed(n) ==
  phase = "serving" /\ failures = 0 /\ \E i \in DOMAIN heads : heads[i] >= n

NextHeadMakesGood ==
  \A n \in Heights : Owed(n) ~> (n \in indexed \/ n < window.from \/ phase = "down")

=============================================================================
