----------------------- MODULE IndexFollowerProofs -----------------------
(***************************************************************************)
(* The indexer: that the index has no hole in its window and that the seen *)
(* range of an account is exact, for any chain, any depths and any number  *)
(* of failures and restarts; that a client that pages through a list while *)
(* blocks are indexed is given every row the list had; and that a scan of  *)
(* the live state, read in pages, shows what stood while it ran.           *)
(*                                                                         *)
(* The inductive invariant of the follower says of each phase what the     *)
(* store already holds of the window, and of the running job that it       *)
(* starts no further than one block above what is held.  That of the       *)
(* client says where each row it is still owed stands: after its offset.   *)
(* That of a scan says what its cursor has passed: it holds every entry    *)
(* that stood since the scan began, in the order of the keys, each once.   *)
(***************************************************************************)
EXTENDS IndexerApi, LiveReads, FiniteSetTheorems, SequenceTheorems, WellFoundedInduction, TLAPS

(* The largest and smallest member of a finite set of heights: every set of *)
(* naturals has a least one because < is well-founded.                     *)

LessThan == {pair \in Nat \X Nat : pair[1] < pair[2]}

LEMMA LessThanIsWellFounded == IsWellFoundedOn(LessThan, Nat)
BY NatLessThanWellFounded DEF OpToRel, LessThan

LEMMA LeastExists ==
  ASSUME NEW S, S \subseteq Nat, S # {}
  PROVE  \E x \in S : \A y \in S : x <= y
<1>1. \E x \in S : \A y \in S : ~ (<<y, x>> \in LessThan)
  BY LessThanIsWellFounded, WFMin
<1>2. ASSUME NEW x \in S, NEW y \in S, ~ (<<y, x>> \in LessThan)
      PROVE  x <= y
  BY <1>2 DEF LessThan
<1> QED BY <1>1, <1>2

LEMMA MinOf ==
  ASSUME NEW S, S \subseteq Nat, S # {}
  PROVE  Min(S) \in S /\ \A y \in S : Min(S) <= y
BY LeastExists DEF Min

LEMMA MaxOf ==
  ASSUME NEW K \in Nat, NEW S, S \subseteq 0..K, S # {}
  PROVE  Max(S) \in S /\ \A y \in S : y <= Max(S)
<1> DEFINE T == {K - x : x \in S}
<1>1. T \subseteq Nat
  OBVIOUS
<1>2. T # {}
  <2>1. PICK x \in S : TRUE
    OBVIOUS
  <2> QED BY <2>1
<1>3. PICK t \in T : \A u \in T : t <= u
  <2> HIDE DEF T
  <2> QED BY <1>1, <1>2, LeastExists
<1>4. PICK x \in S : t = K - x
  BY <1>3
<1>5. \A y \in S : x >= y
  <2>1. TAKE y \in S
  <2>2. K - y \in T /\ K - x <= K - y
    BY <1>3, <1>4
  <2> QED BY <2>2
<1> HIDE DEF T
<1>6. \E m \in S : \A y \in S : m >= y
  BY <1>5
<1>7. Max(S) \in S /\ \A y \in S : Max(S) >= y
  BY <1>6 DEF Max
<1> QED BY <1>7

LEMMA MaxIs ==
  ASSUME NEW K \in Nat, NEW S, S \subseteq 0..K, NEW x \in S, \A y \in S : y <= x
  PROVE  Max(S) = x
<1> DEFINE m == Max(S)
<1>1. m \in S /\ x <= m
  BY MaxOf
<1> HIDE DEF m
<1>2. m <= x
  BY <1>1
<1>3. m = x
  BY <1>1, <1>2
<1> QED BY <1>3 DEF m

LEMMA MinIs ==
  ASSUME NEW S, S \subseteq Nat, NEW x \in S, \A y \in S : x <= y
  PROVE  Min(S) = x
<1> DEFINE m == Min(S)
<1>1. m \in S /\ m <= x
  BY MinOf
<1> HIDE DEF m
<1>2. x <= m
  BY <1>1
<1>3. m = x
  BY <1>1, <1>2
<1> QED BY <1>3 DEF m

-----------------------------------------------------------------------------
(* The invariant.                                                          *)

\* What a phase may assume of the queue and of the store.
QueueIsBehind ==
  /\ phase \in {"down", "backfilling"} => QueueIsEmpty
  /\ cursor # NoJob => cursor.next <= cursor.upTo

\* A backfill ends with the window held and nothing above its head.
BackfillCloses ==
  phase = "backfilling" =>
    /\ indexed \subseteq 0..window.head /\ missing \subseteq 0..window.head
    /\ \A n \in window.from..window.head : n \in indexed \cup missing

\* Served, each block between the window's start and any held block is held,
\* and the running job starts at most one above a held one.
WindowIsWhole ==
  phase \in {"serving", "stopping"} /\ window.from <= window.head =>
    /\ indexed # {}
    /\ \A m \in indexed : \A n \in window.from..m : n \in indexed
    /\ cursor # NoJob => \E m \in indexed : cursor.next <= m + 1

\* Nothing is held, asked for or announced that is not finalized.
FinalizedOnly ==
  /\ indexed \subseteq 0..finalized /\ missing \subseteq 0..finalized
  /\ window.head <= finalized /\ cursor.upTo <= finalized /\ notified <= finalized
  /\ \A i \in DOMAIN heads : heads[i] <= finalized

Inv ==
  FollowerTypeOK /\ FinalizedOnly /\ QueueIsBehind /\ BackfillCloses /\ WindowIsWhole

LEMMA Bounds ==
  MaxHeight \in Nat /\ FailureBudget \in Nat /\ RestartBudget \in Nat /\ Depths \subseteq Nat /\ Targets \subseteq Nat
BY FollowerConstants

-----------------------------------------------------------------------------
(* One block is indexed.                                                   *)

LEMMA IndexBlockType ==
  ASSUME FollowerTypeOK, NEW n \in Heights, IndexBlock(n)
  PROVE  /\ indexed' \subseteq Heights
         /\ seen' \in [Accounts -> [first : Heights, last : Heights, seen : BOOLEAN]]
         /\ waiters' \in [Waiters -> [state : WaiterStates, height : Nat]]
<1>1. indexed' \subseteq Heights
  BY DEF IndexBlock, SaveBlock, FollowerTypeOK
<1>2. ASSUME NEW a \in Accounts
      PROVE  TouchAccount(seen[a], n) \in [first : Heights, last : Heights, seen : BOOLEAN]
  BY DEF FollowerTypeOK, TouchAccount, Lower, Higher
<1>3. seen' \in [Accounts -> [first : Heights, last : Heights, seen : BOOLEAN]]
  BY <1>2 DEF IndexBlock, SaveBlock, FollowerTypeOK
<1>4. waiters' \in [Waiters -> [state : WaiterStates, height : Nat]]
  BY DEF IndexBlock, ReleaseWaiters, FollowerTypeOK, WaiterStates
<1> QED BY <1>1, <1>3, <1>4

LEMMA IndexBlockAdds ==
  ASSUME NEW n, IndexBlock(n)
  PROVE  indexed' = indexed \cup {n}
BY DEF IndexBlock, SaveBlock

-----------------------------------------------------------------------------
(* The invariant is inductive.                                             *)

LEMMA Initially == FollowerInit => Inv
<1> SUFFICES ASSUME FollowerInit PROVE Inv
  OBVIOUS
<1>1. FollowerTypeOK
  BY Bounds DEF FollowerInit, FollowerTypeOK, Heights, Phases, WaiterStates, Unseen, NoJob, Idle
<1>2. FinalizedOnly
  BY DEF FollowerInit, FinalizedOnly, NoJob
<1>3. QueueIsBehind
  BY DEF FollowerInit, QueueIsBehind, QueueIsEmpty
<1>4. BackfillCloses /\ WindowIsWhole
  BY DEF FollowerInit, BackfillCloses, WindowIsWhole
<1> QED BY <1>1, <1>2, <1>3, <1>4 DEF Inv

LEMMA FinalizeStep == Inv /\ Finalize => Inv'
<1> SUFFICES ASSUME Inv, Finalize PROVE Inv'
  OBVIOUS
<1> USE DEF Finalize, process, budgets
<1>1. finalized <= finalized' /\ finalized' \in Heights
  BY Bounds DEF Inv, FollowerTypeOK, Heights
<1>2. FollowerTypeOK'
  BY <1>1 DEF Inv, FollowerTypeOK
<1>3. FinalizedOnly'
  BY <1>1, Bounds DEF Inv, FollowerTypeOK, FinalizedOnly, Heights
<1>4. QueueIsBehind' /\ BackfillCloses' /\ WindowIsWhole'
  BY DEF Inv, QueueIsBehind, QueueIsEmpty, BackfillCloses, WindowIsWhole
<1> QED BY <1>2, <1>3, <1>4 DEF Inv

LEMMA StartStep == ASSUME Inv, NEW depth \in Depths, Start(depth) PROVE Inv'
<1> USE DEF Start, budgets
<1> DEFINE from == IF finalized + 1 > depth THEN finalized + 1 - depth ELSE 0
<1>1. from \in Nat
  BY Bounds DEF Inv, FollowerTypeOK, Heights
<1>2. window' = [from |-> from, head |-> finalized]
  OBVIOUS
<1>3. missing' \subseteq 0..finalized
  BY <1>1, Bounds DEF Inv, FollowerTypeOK, Heights, MissingBlocks
<1>4. FollowerTypeOK'
  <2>1. missing' \subseteq Heights
    BY <1>3, Bounds DEF Inv, FollowerTypeOK, Heights
  <2> QED BY <1>1, <1>2, <2>1 DEF Inv, FollowerTypeOK, Phases
<1>5. FinalizedOnly'
  BY <1>2, <1>3, Bounds DEF Inv, FinalizedOnly, FollowerTypeOK, Heights
<1>6. QueueIsBehind'
  BY DEF Inv, QueueIsBehind, QueueIsEmpty
<1>7. BackfillCloses'
  <2>1. \A n \in from..finalized : n \in indexed \cup missing'
    <3>1. CASE depth > 0
      BY <3>1 DEF MissingBlocks
    <3>2. CASE ~ (depth > 0)
      <4>1. from > finalized
        BY <3>2, Bounds DEF Inv, FollowerTypeOK, Heights
      <4> QED BY <4>1, <1>1, Bounds DEF Inv, FollowerTypeOK, Heights
    <3> QED BY <3>1, <3>2
  <2> QED BY <1>2, <1>3, <2>1 DEF Inv, FinalizedOnly, BackfillCloses
<1>8. WindowIsWhole'
  BY DEF WindowIsWhole
<1> QED BY <1>4, <1>5, <1>6, <1>7, <1>8 DEF Inv

LEMMA BackfillStep == Inv /\ Backfill => Inv'
<1> SUFFICES ASSUME Inv, Backfill PROVE Inv'
  OBVIOUS
<1> DEFINE n == Min(missing)
<1>1. n \in missing
  <2>1. missing \subseteq Nat /\ missing # {}
    BY Bounds DEF Backfill, Inv, FollowerTypeOK, Heights
  <2> QED BY <2>1, MinOf
<1>2. n \in Heights /\ IndexBlock(n) /\ missing' = missing \ {n}
  BY <1>1 DEF Backfill, Inv, FollowerTypeOK
<1> HIDE DEF n
<1>3. indexed' = indexed \cup {n}
  BY <1>2, IndexBlockAdds
<1> USE DEF Backfill, budgets
<1>4. FollowerTypeOK'
  BY <1>2, IndexBlockType DEF Inv, FollowerTypeOK
<1>5. FinalizedOnly'
  BY <1>1, <1>2, <1>3 DEF Inv, FinalizedOnly
<1>6. QueueIsBehind'
  BY DEF Inv, QueueIsBehind, QueueIsEmpty
<1>7. BackfillCloses'
  BY <1>1, <1>2, <1>3 DEF Inv, BackfillCloses
<1>8. WindowIsWhole'
  BY DEF WindowIsWhole
<1> QED BY <1>4, <1>5, <1>6, <1>7, <1>8 DEF Inv

LEMMA SubscribeStep == Inv /\ Subscribe => Inv'
<1> SUFFICES ASSUME Inv, Subscribe PROVE Inv'
  OBVIOUS
<1> USE DEF Subscribe, budgets
<1>1. FollowerTypeOK'
  BY DEF Inv, FollowerTypeOK, Phases
<1>2. FinalizedOnly'
  BY Bounds DEF Inv, FinalizedOnly, FollowerTypeOK, Heights
<1>3. QueueIsBehind' /\ BackfillCloses'
  BY DEF Inv, QueueIsBehind, QueueIsEmpty, BackfillCloses
<1>4. WindowIsWhole'
  <2>1. cursor = NoJob
    BY DEF Inv, QueueIsBehind, QueueIsEmpty
  <2>2. \A n \in window.from..window.head : n \in indexed
    BY DEF Inv, BackfillCloses
  <2>3. window.from <= window.head => window.head \in indexed
    BY <2>2, Bounds DEF Inv, FollowerTypeOK, Heights
  <2>4. \A m \in indexed : \A n \in window.from..m : n \in indexed
    <3>1. TAKE m \in indexed
    <3>2. m \in 0..window.head
      BY <3>1 DEF Inv, BackfillCloses
    <3> QED BY <2>2, <3>2, Bounds DEF Inv, FollowerTypeOK, Heights
  <2> QED BY <2>1, <2>3, <2>4 DEF WindowIsWhole
<1> QED BY <1>1, <1>2, <1>3, <1>4 DEF Inv

LEMMA HeadArrivesStep == Inv /\ HeadArrives => Inv'
<1> SUFFICES ASSUME Inv, HeadArrives PROVE Inv'
  OBVIOUS
<1> USE DEF HeadArrives, budgets
<1>1. FollowerTypeOK'
  BY DEF Inv, FollowerTypeOK
<1>2. FinalizedOnly'
  <2>1. \A i \in DOMAIN heads' : heads'[i] <= finalized
    BY Bounds DEF Inv, FinalizedOnly, FollowerTypeOK, Heights
  <2> QED BY <2>1, Bounds DEF Inv, FinalizedOnly, FollowerTypeOK, Heights
<1>3. QueueIsBehind' /\ BackfillCloses' /\ WindowIsWhole'
  BY DEF Inv, QueueIsBehind, BackfillCloses, WindowIsWhole
<1> QED BY <1>1, <1>2, <1>3 DEF Inv

LEMMA BeginCatchUpStep == Inv /\ BeginCatchUp => Inv'
<1> SUFFICES ASSUME Inv, BeginCatchUp PROVE Inv'
  OBVIOUS
<1> USE DEF BeginCatchUp, budgets
<1> DEFINE height == Head(heads)
<1>1. height \in Heights /\ height <= finalized
  BY DEF Inv, FollowerTypeOK, FinalizedOnly
<1>2. /\ Tail(heads) \in Seq(Heights)
      /\ \A i \in DOMAIN Tail(heads) : Tail(heads)[i] <= finalized
  BY DEF Inv, FollowerTypeOK, FinalizedOnly
<1>3. ASSUME indexed # {}
      PROVE  LatestBlockNumber \in indexed /\ LatestBlockNumber \in Nat
  <2>1. indexed \subseteq 0..MaxHeight
    BY DEF Inv, FollowerTypeOK, Heights
  <2>2. LatestBlockNumber \in indexed
    BY <1>3, <2>1, MaxOf, Bounds DEF LatestBlockNumber
  <2> QED BY <2>1, <2>2
<1>4. /\ CatchUpFrom(height) \in Nat /\ CatchUpFrom(height) <= height
      /\ indexed # {} => CatchUpFrom(height) <= LatestBlockNumber + 1
  <2>1. height \in Nat
    BY <1>1, Bounds DEF Heights
  <2> HIDE DEF height
  <2> QED BY <1>3, <2>1 DEF CatchUpFrom, Lower
<1>5. cursor' = [next |-> CatchUpFrom(height), upTo |-> height] /\ heads' = Tail(heads)
  OBVIOUS
<1> HIDE DEF height
<1>6. FollowerTypeOK'
  BY <1>1, <1>2, <1>4, <1>5 DEF Inv, FollowerTypeOK
<1>7. FinalizedOnly'
  BY <1>1, <1>2, <1>5 DEF Inv, FinalizedOnly
<1>8. phase \in {"serving", "stopping"}
  BY DEF Inv, FollowerTypeOK, QueueIsBehind, QueueIsEmpty, Phases
<1>9. QueueIsBehind' /\ BackfillCloses'
  BY <1>4, <1>5, <1>8 DEF QueueIsBehind, BackfillCloses
<1>10. WindowIsWhole'
  <2>1. indexed # {} => \E m \in indexed : cursor'.next <= m + 1
    BY <1>3, <1>4, <1>5
  <2> QED BY <2>1 DEF Inv, WindowIsWhole
<1> QED BY <1>6, <1>7, <1>9, <1>10 DEF Inv

LEMMA CatchUpStep == Inv /\ CatchUp => Inv'
<1> SUFFICES ASSUME Inv, CatchUp PROVE Inv'
  OBVIOUS
<1> USE DEF budgets
<1> DEFINE n == cursor.next
<1>1. /\ cursor # NoJob /\ n \in Nat /\ n <= cursor.upTo /\ n <= finalized /\ n \in Heights
      /\ cursor.upTo \in Heights
  BY Bounds DEF CatchUp, Inv, FollowerTypeOK, QueueIsBehind, FinalizedOnly, Heights
<1>2. indexed' = indexed \cup {n}
  BY IndexBlockAdds DEF CatchUp
<1>3. /\ indexed' \subseteq Heights
      /\ seen' \in [Accounts -> [first : Heights, last : Heights, seen : BOOLEAN]]
      /\ waiters' \in [Waiters -> [state : WaiterStates, height : Nat]]
  <2>1. CASE n \in indexed
    BY <2>1 DEF CatchUp, Inv, FollowerTypeOK
  <2>2. CASE n \notin indexed
    <3>1. IndexBlock(n)
      BY <2>2 DEF CatchUp
    <3> QED BY <3>1, <1>1, IndexBlockType DEF Inv
  <2> QED BY <2>1, <2>2
<1>4. \/ cursor' = NoJob
      \/ n < cursor.upTo /\ cursor' = [next |-> n + 1, upTo |-> cursor.upTo]
  BY DEF CatchUp, Inv, FollowerTypeOK
<1>5. UNCHANGED <<finalized, phase, window, missing, heads, notified, budgets>>
  BY DEF CatchUp
<1>12. n = cursor.next
  OBVIOUS
<1> HIDE DEF n
<1>6. FollowerTypeOK'
  <2>1. cursor' \in [next : Nat, upTo : Heights]
    BY <1>1, <1>4, Bounds DEF NoJob, Heights
  <2> QED BY <1>3, <1>5, <2>1 DEF Inv, FollowerTypeOK
<1>7. FinalizedOnly'
  BY <1>1, <1>2, <1>4, <1>5, Bounds DEF Inv, FinalizedOnly, FollowerTypeOK, Heights, NoJob
<1>8. phase \in {"serving", "stopping"}
  BY <1>1 DEF Inv, FollowerTypeOK, QueueIsBehind, QueueIsEmpty, Phases
<1>9. QueueIsBehind'
  BY <1>1, <1>4, <1>5, <1>8, Bounds DEF QueueIsBehind, Heights
<1>10. BackfillCloses'
  BY <1>5, <1>8 DEF BackfillCloses
<1>11. WindowIsWhole'
  <2> SUFFICES ASSUME window.from <= window.head
               PROVE  /\ indexed' # {}
                      /\ \A m \in indexed' : \A k \in window.from..m : k \in indexed'
                      /\ cursor' # NoJob => \E m \in indexed' : cursor'.next <= m + 1
    BY <1>5 DEF WindowIsWhole
  <2>1. /\ \A m \in indexed : \A k \in window.from..m : k \in indexed
        /\ \E m \in indexed : n <= m + 1
    BY <1>1, <1>8, <1>12 DEF Inv, WindowIsWhole
  <2>2. \A m \in indexed' : \A k \in window.from..m : k \in indexed'
    <3>0. TAKE m \in indexed'
    <3>1. TAKE k \in window.from..m
    <3>2. CASE m \in indexed
      BY <1>2, <2>1, <3>2
    <3>3. CASE m = n /\ k # n
      <4>1. PICK top \in indexed : n <= top + 1
        BY <2>1
      <4>2. k \in window.from..top
        BY <1>1, <3>3, <4>1, Bounds DEF Inv, FollowerTypeOK, Heights
      <4> QED BY <1>2, <2>1, <4>1, <4>2
    <3>4. CASE m = n /\ k = n
      BY <1>2, <3>4
    <3> QED BY <1>2, <3>2, <3>3, <3>4
  <2>3. cursor' # NoJob => cursor'.next <= n + 1
    BY <1>1, <1>4
  <2> QED BY <1>2, <2>2, <2>3
<1> QED BY <1>6, <1>7, <1>9, <1>10, <1>11 DEF Inv

\* A process that ends takes its queue with it.
LEMMA DownStep ==
  ASSUME Inv, phase' = "down", heads' = <<>>, cursor' = NoJob, missing' \subseteq missing,
         waiters' \in [Waiters -> [state : WaiterStates, height : Nat]], restarts' \in Nat,
         UNCHANGED <<finalized, indexed, seen, window, notified, failures>>
  PROVE  Inv'
<1>1. FollowerTypeOK'
  BY Bounds DEF Inv, FollowerTypeOK, Phases, NoJob, Heights
<1>2. FinalizedOnly'
  BY Bounds DEF Inv, FollowerTypeOK, FinalizedOnly, NoJob, Heights
<1>3. QueueIsBehind' /\ BackfillCloses' /\ WindowIsWhole'
  BY DEF QueueIsBehind, QueueIsEmpty, BackfillCloses, WindowIsWhole
<1> QED BY <1>1, <1>2, <1>3 DEF Inv

\* Waiters and budgets come and go without the store or the queue moving.
LEMMA AsideStep ==
  ASSUME Inv, waiters' \in [Waiters -> [state : WaiterStates, height : Nat]],
         UNCHANGED <<finalized, indexed, seen, process, budgets>>
  PROVE  Inv'
<1>1. FollowerTypeOK'
  BY DEF Inv, FollowerTypeOK, process, budgets
<1>2. FinalizedOnly' /\ QueueIsBehind' /\ BackfillCloses' /\ WindowIsWhole'
  BY DEF Inv, FinalizedOnly, QueueIsBehind, QueueIsEmpty, BackfillCloses, WindowIsWhole, process, budgets
<1> QED BY <1>1, <1>2 DEF Inv

LEMMA EndingStep == Inv /\ (CatchUpFails \/ Stop \/ Close \/ Crash) => Inv'
<1>1. ASSUME Inv, CatchUpFails PROVE Inv'
  <2>1. FollowerTypeOK'
    BY <1>1, Bounds DEF CatchUpFails, Inv, FollowerTypeOK, NoJob, Heights
  <2>2. FinalizedOnly'
    BY <1>1, Bounds DEF CatchUpFails, Inv, FollowerTypeOK, FinalizedOnly, NoJob, Heights
  <2>3. QueueIsBehind' /\ BackfillCloses' /\ WindowIsWhole'
    BY <1>1 DEF CatchUpFails, Inv, QueueIsBehind, QueueIsEmpty, BackfillCloses, WindowIsWhole
  <2> QED BY <2>1, <2>2, <2>3 DEF Inv
<1>2. ASSUME Inv, Stop PROVE Inv'
  <2>1. FollowerTypeOK' /\ FinalizedOnly'
    BY <1>2 DEF Stop, Inv, FollowerTypeOK, FinalizedOnly, Phases, budgets
  <2>2. QueueIsBehind' /\ BackfillCloses' /\ WindowIsWhole'
    BY <1>2 DEF Stop, Inv, QueueIsBehind, QueueIsEmpty, BackfillCloses, WindowIsWhole
  <2> QED BY <2>1, <2>2 DEF Inv
<1>3. ASSUME Inv, Close PROVE Inv'
  <2>1. waiters' \in [Waiters -> [state : WaiterStates, height : Nat]]
    BY <1>3 DEF Close, Inv, FollowerTypeOK, WaiterStates
  <2>2. restarts' \in Nat
    BY <1>3 DEF Close, Inv, FollowerTypeOK, budgets
  <2>3. /\ heads' = <<>> /\ cursor' = NoJob /\ phase' = "down" /\ missing' \subseteq missing
        /\ UNCHANGED <<finalized, indexed, seen, window, notified, failures>>
    BY <1>3 DEF Close, QueueIsEmpty, budgets
  <2> QED BY <1>3, <2>1, <2>2, <2>3, DownStep
<1>4. ASSUME Inv, Crash PROVE Inv'
  <2>1. /\ waiters' \in [Waiters -> [state : WaiterStates, height : Nat]]
        /\ restarts' \in Nat /\ missing' \subseteq missing
    BY <1>4 DEF Crash, Inv, FollowerTypeOK, WaiterStates, Idle
  <2> QED BY <1>4, <2>1, DownStep DEF Crash
<1> QED BY <1>1, <1>2, <1>3, <1>4

LEMMA WaiterStep ==
  ASSUME Inv, NEW w \in Waiters,
         WaitTimesOut(w) \/ \E height \in Targets : Wait(w, height)
  PROVE  Inv'
<1>1. waiters' \in [Waiters -> [state : WaiterStates, height : Nat]]
  <2>1. CASE WaitTimesOut(w)
    BY <2>1 DEF WaitTimesOut, Inv, FollowerTypeOK, WaiterStates
  <2>2. ASSUME NEW height \in Targets, Wait(w, height)
        PROVE  waiters' \in [Waiters -> [state : WaiterStates, height : Nat]]
    BY <2>2, Bounds DEF Wait, Inv, FollowerTypeOK, WaiterStates
  <2> QED BY <2>1, <2>2
<1> QED BY <1>1, AsideStep DEF WaitTimesOut, Wait

LEMMA StutterStep == Inv /\ UNCHANGED followerVars => Inv'
<1> SUFFICES ASSUME Inv, UNCHANGED followerVars PROVE Inv'
  OBVIOUS
<1>1. waiters' \in [Waiters -> [state : WaiterStates, height : Nat]]
  BY DEF followerVars, Inv, FollowerTypeOK
<1> QED BY <1>1, AsideStep DEF followerVars, process

\* Inv is inductive: every action of the follower keeps it.
THEOREM FollowerInductive == Inv /\ [FollowerNext]_followerVars => Inv'
<1> SUFFICES ASSUME Inv, [FollowerNext]_followerVars PROVE Inv'
  OBVIOUS
<1>1. ASSUME NEW depth \in Depths, Start(depth) PROVE Inv'
  BY <1>1, StartStep
<1>2. ASSUME NEW w \in Waiters,
             WaitTimesOut(w) \/ \E height \in Targets : Wait(w, height)
      PROVE  Inv'
  BY <1>2, WaiterStep
<1> QED
  BY <1>1, <1>2, FinalizeStep, BackfillStep, SubscribeStep, HeadArrivesStep, BeginCatchUpStep,
     CatchUpStep, EndingStep, StutterStep DEF FollowerNext

LEMMA Always == FollowerSpec => []Inv
BY Initially, FollowerInductive, PTL DEF FollowerSpec

\* Every variable of the follower keeps its type.
THEOREM FollowerTypes == FollowerSpec => []FollowerTypeOK
<1>1. Inv => FollowerTypeOK
  BY DEF Inv
<1> QED BY <1>1, Always, PTL

\* Whatever fails, restarts or is skipped, the served window has no hole
\* (indexer.ts: backfill before the subscription, catch-up from what is held).
THEOREM WindowStaysWhole == FollowerSpec => []WindowHasNoHole
<1>1. Inv => WindowHasNoHole
  <2> SUFFICES ASSUME Inv, phase \in {"serving", "stopping"}, window.from <= window.head
               PROVE  window.from..LatestBlockNumber \subseteq indexed
    BY DEF WindowHasNoHole
  <2>1. indexed # {} /\ indexed \subseteq 0..MaxHeight
    BY DEF Inv, WindowIsWhole, FollowerTypeOK, Heights
  <2>2. LatestBlockNumber \in indexed
    BY <2>1, MaxOf, Bounds DEF LatestBlockNumber
  <2> QED BY <2>2 DEF Inv, WindowIsWhole
<1> QED BY <1>1, Always, PTL

-----------------------------------------------------------------------------
(* The seen range.                                                         *)

Named(a, heights) == {n \in heights : a \in AccountsOf(n)}
RangeOf(heights) ==
  IF heights = {} THEN Unseen
  ELSE [first |-> Min(heights), last |-> Max(heights), seen |-> TRUE]

LEMMA SeenAgain == SeenRangeIsExact <=> \A a \in Accounts : seen[a] = RangeOf(Named(a, indexed))
BY DEF SeenRangeIsExact, Named, RangeOf

\* Widening by one height is what adding it to the set does.
LEMMA TouchWidens ==
  ASSUME NEW S, S \subseteq Heights, NEW n \in Heights
  PROVE  TouchAccount(RangeOf(S), n) = RangeOf(S \cup {n})
<1>1. MaxHeight \in Nat /\ S \subseteq 0..MaxHeight /\ S \subseteq Nat /\ n \in 0..MaxHeight
  BY Bounds DEF Heights
<1>2. CASE S = {}
  <2>1. Min(S \cup {n}) = n /\ Max(S \cup {n}) = n
    <3>1. /\ S \cup {n} \subseteq 0..MaxHeight /\ S \cup {n} \subseteq Nat /\ n \in S \cup {n}
          /\ \A y \in S \cup {n} : y <= n /\ n <= y
      BY <1>1, <1>2
    <3> QED BY <1>1, <3>1, MinIs, MaxIs
  <2>2. RangeOf(S) = Unseen /\ RangeOf(S \cup {n}) = [first |-> n, last |-> n, seen |-> TRUE]
    BY <1>2, <2>1 DEF RangeOf
  <2>3. TouchAccount(RangeOf(S), n) = [first |-> n, last |-> n, seen |-> TRUE]
    BY <2>2 DEF TouchAccount, Unseen
  <2> QED BY <2>2, <2>3
<1>3. CASE S # {}
  <2> DEFINE low == Min(S)  high == Max(S)
  <2>1. /\ low \in S /\ \A y \in S : low <= y
        /\ high \in S /\ \A y \in S : y <= high
    BY <1>1, <1>3, MinOf, MaxOf
  <2>2. RangeOf(S) = [first |-> low, last |-> high, seen |-> TRUE]
    BY <1>3 DEF RangeOf
  <2> HIDE DEF low, high
  <2>3. TouchAccount(RangeOf(S), n) = [first |-> Lower(low, n), last |-> Higher(high, n), seen |-> TRUE]
    BY <2>2 DEF TouchAccount
  <2>4. /\ Lower(low, n) \in S \cup {n} /\ \A y \in S \cup {n} : Lower(low, n) <= y
        /\ Higher(high, n) \in S \cup {n} /\ \A y \in S \cup {n} : y <= Higher(high, n)
    BY <1>1, <2>1 DEF Lower, Higher
  <2>5. S \cup {n} \subseteq 0..MaxHeight /\ S \cup {n} \subseteq Nat
    BY <1>1
  <2>6. Min(S \cup {n}) = Lower(low, n)
    BY <2>4, <2>5, MinIs
  <2>7. Max(S \cup {n}) = Higher(high, n)
    BY <1>1, <2>4, <2>5, MaxIs
  <2>8. RangeOf(S \cup {n}) = [first |-> Lower(low, n), last |-> Higher(high, n), seen |-> TRUE]
    BY <2>6, <2>7 DEF RangeOf
  <2> QED BY <2>3, <2>8
<1> QED BY <1>2, <1>3

LEMMA IndexBlockSeen ==
  ASSUME FollowerTypeOK, SeenRangeIsExact, NEW n \in Heights, IndexBlock(n)
  PROVE  SeenRangeIsExact'
<1>1. ASSUME NEW a \in Accounts
      PROVE  seen'[a] = RangeOf(Named(a, indexed'))
  <2>1. seen[a] = RangeOf(Named(a, indexed)) /\ indexed' = indexed \cup {n}
    BY SeenAgain DEF IndexBlock, SaveBlock
  <2>2. CASE a \in AccountsOf(n)
    <3>1. Named(a, indexed') = Named(a, indexed) \cup {n} /\ Named(a, indexed) \subseteq Heights
      BY <2>1, <2>2 DEF Named, FollowerTypeOK
    <3>2. seen'[a] = TouchAccount(seen[a], n)
      BY <2>2 DEF IndexBlock, SaveBlock
    <3> QED BY <2>1, <3>1, <3>2, TouchWidens
  <2>3. CASE a \notin AccountsOf(n)
    <3>1. Named(a, indexed') = Named(a, indexed)
      BY <2>1, <2>3 DEF Named
    <3>2. seen'[a] = seen[a]
      BY <2>3 DEF IndexBlock, SaveBlock
    <3> QED BY <2>1, <3>1, <3>2
  <2> QED BY <2>2, <2>3
<1> QED BY <1>1 DEF SeenRangeIsExact, Named, RangeOf

LEMMA SeenKept ==
  ASSUME SeenRangeIsExact, UNCHANGED <<indexed, seen>>
  PROVE  SeenRangeIsExact'
BY DEF SeenRangeIsExact

\* A step indexes one block, or leaves the rows alone.
LEMMA SeenStep == Inv /\ SeenRangeIsExact /\ [FollowerNext]_followerVars => SeenRangeIsExact'
<1> SUFFICES ASSUME Inv, SeenRangeIsExact, [FollowerNext]_followerVars PROVE SeenRangeIsExact'
  OBVIOUS
<1>0. FollowerTypeOK
  BY DEF Inv
<1>1. CASE Backfill
  <2>1. missing # {} /\ missing \subseteq Nat
    BY <1>0, <1>1, Bounds DEF Backfill, FollowerTypeOK, Heights
  <2>2. Min(missing) \in Heights
    BY <1>0, <2>1, MinOf DEF FollowerTypeOK
  <2> QED BY <1>0, <1>1, <2>2, IndexBlockSeen DEF Backfill
<1>2. CASE CatchUp
  <2>1. CASE cursor.next \in indexed
    BY <1>2, <2>1, SeenKept DEF CatchUp
  <2>2. CASE cursor.next \notin indexed
    <3>1. IndexBlock(cursor.next)
      BY <1>2, <2>2 DEF CatchUp
    <3>2. cursor.next \in Heights
      BY <1>0, <1>2, Bounds DEF CatchUp, Inv, QueueIsBehind, FollowerTypeOK, Heights
    <3> QED BY <1>0, <3>1, <3>2, IndexBlockSeen
  <2> QED BY <2>1, <2>2
<1>3. CASE ~Backfill /\ ~CatchUp
  <2>1. UNCHANGED <<indexed, seen>>
    BY <1>3 DEF FollowerNext, followerVars, Finalize, Start, Subscribe, HeadArrives, BeginCatchUp,
       CatchUpFails, Wait, WaitTimesOut, Stop, Close, Crash
  <2> QED BY <2>1, SeenKept
<1> QED BY <1>1, <1>2, <1>3

\* The range an account was seen in is exact, whatever order blocks come in
\* (store.ts: touchAccount).
THEOREM SeenRangeStaysExact == FollowerSpec => []SeenRangeIsExact
<1>1. FollowerInit => SeenRangeIsExact
  BY DEF FollowerInit, SeenRangeIsExact
<1> QED BY <1>1, SeenStep, Always, PTL DEF FollowerSpec

-----------------------------------------------------------------------------
(* Sorting.                                                                *)

Orders(before, S) ==
  /\ \A x \in S : <<x, x>> \notin before
  /\ \A x, y \in S : x # y => (<<x, y>> \in before \/ <<y, x>> \in before)
  /\ \A x, y, z \in S : (<<x, y>> \in before /\ <<y, z>> \in before) => <<x, z>> \in before

BelowIn(S, before, x) == {y \in S : <<y, x>> \in before}
RankIn(S, before, x) == Cardinality(BelowIn(S, before, x))

\* Things in a strict total order have each a rank of its own.
LEMMA RanksGrow ==
  ASSUME NEW S, IsFiniteSet(S), NEW before, Orders(before, S)
  PROVE  /\ \A x \in S : RankIn(S, before, x) \in 0..(Cardinality(S) - 1)
         /\ \A x, y \in S : <<x, y>> \in before <=> RankIn(S, before, x) < RankIn(S, before, y)
<1>1. ASSUME NEW x \in S
      PROVE  /\ IsFiniteSet(BelowIn(S, before, x)) /\ RankIn(S, before, x) \in Nat
             /\ RankIn(S, before, x) \in 0..(Cardinality(S) - 1)
  <2>1. BelowIn(S, before, x) \in SUBSET (S \ {x})
    BY DEF BelowIn, Orders
  <2>2. IsFiniteSet(S \ {x}) /\ Cardinality(S \ {x}) = Cardinality(S) - 1
    BY FS_RemoveElement
  <2>3. IsFiniteSet(BelowIn(S, before, x)) /\ RankIn(S, before, x) <= Cardinality(S) - 1
    BY <2>1, <2>2, FS_Subset DEF RankIn
  <2>4. RankIn(S, before, x) \in Nat /\ Cardinality(S) \in Nat
    BY <2>3, FS_CardinalityType DEF RankIn
  <2> QED BY <2>3, <2>4
<1>2. ASSUME NEW x \in S, NEW y \in S, <<x, y>> \in before
      PROVE  RankIn(S, before, x) < RankIn(S, before, y)
  <2>1. x \notin BelowIn(S, before, x) /\ BelowIn(S, before, x) \cup {x} \in SUBSET BelowIn(S, before, y)
    BY <1>2 DEF BelowIn, Orders
  <2>2. Cardinality(BelowIn(S, before, x) \cup {x}) = RankIn(S, before, x) + 1
    BY <1>1, <2>1, FS_AddElement DEF RankIn
  <2>3. Cardinality(BelowIn(S, before, x) \cup {x}) <= RankIn(S, before, y)
    BY <1>1, <2>1, FS_Subset DEF RankIn
  <2>4. RankIn(S, before, x) \in Nat /\ RankIn(S, before, y) \in Nat
    BY <1>1
  <2> QED BY <2>2, <2>3, <2>4
<1>3. ASSUME NEW x \in S, NEW y \in S, RankIn(S, before, x) < RankIn(S, before, y)
      PROVE  <<x, y>> \in before
  <2>1. RankIn(S, before, x) \in Nat /\ RankIn(S, before, y) \in Nat
    BY <1>1
  <2>2. x # y /\ ~ (<<y, x>> \in before)
    BY <1>2, <1>3, <2>1
  <2> QED BY <2>2 DEF Orders
<1> QED BY <1>1, <1>2, <1>3

\* Sorted, each has one place, and the places follow the order.
LEMMA InOrderLists ==
  ASSUME NEW S, IsFiniteSet(S), NEW before, Orders(before, S)
  PROVE  LET list == InOrder(S, before)
             n    == Cardinality(S)
         IN  /\ n \in Nat /\ list \in [1..n -> S] /\ list \in Seq(S) /\ Len(list) = n
             /\ \A x \in S : \E r \in 1..n : list[r] = x
             /\ \A r \in 1..n : RankIn(S, before, list[r]) = r - 1
             /\ \A i, j \in 1..n : i < j <=> <<list[i], list[j]>> \in before
<1> DEFINE n == Cardinality(S)
<1> DEFINE rank == [x \in S |-> RankIn(S, before, x)]
<1>1. n \in Nat
  BY FS_CardinalityType
<1>2. IsFiniteSet(0..(n - 1)) /\ Cardinality(0..(n - 1)) = n
  BY <1>1, FS_Interval
<1>3. /\ \A x \in S : RankIn(S, before, x) \in 0..(n - 1)
      /\ \A x, y \in S : <<x, y>> \in before <=> RankIn(S, before, x) < RankIn(S, before, y)
  BY RanksGrow
<1>4. rank \in Injection(S, 0..(n - 1))
  <2>1. rank \in [S -> 0..(n - 1)]
    BY <1>3
  <2>2. ASSUME NEW x \in S, NEW y \in S, rank[x] = rank[y]
        PROVE  x = y
    <3>1. rank[x] \in Nat /\ RankIn(S, before, x) = RankIn(S, before, y) /\ RankIn(S, before, x) \in Nat
      BY <1>1, <1>3, <2>2
    <3>2. ~ (<<x, y>> \in before) /\ ~ (<<y, x>> \in before)
      BY <1>3, <3>1
    <3> QED BY <3>2 DEF Orders
  <2> QED BY <2>1, <2>2 DEF Injection, IsInjective
<1>5. rank \in Surjection(S, 0..(n - 1))
  BY <1>2, <1>4, FS_Injection
<1>6. \A r \in 1..n : \E x \in S : RankIn(S, before, x) = r - 1
  <2>1. ASSUME NEW r \in 1..n PROVE \E x \in S : RankIn(S, before, x) = r - 1
    <3>1. r - 1 \in 0..(n - 1)
      BY <1>1
    <3>2. PICK x \in S : rank[x] = r - 1
      BY <1>5, <3>1 DEF Surjection
    <3> QED BY <3>2
  <2> QED BY <2>1
<1> DEFINE list == InOrder(S, before)
<1>7. list = [r \in 1..n |-> CHOOSE x \in S : RankIn(S, before, x) = r - 1]
  BY DEF InOrder, RankIn, BelowIn
<1> HIDE DEF list, rank, n
<1>8. \A r \in 1..n : list[r] \in S /\ RankIn(S, before, list[r]) = r - 1
  BY <1>6, <1>7
<1>9. list \in [1..n -> S]
  BY <1>7, <1>8
<1>10. list \in Seq(S) /\ Len(list) = n
  BY <1>1, <1>9
<1>11. ASSUME NEW x \in S
       PROVE  \E r \in 1..n : list[r] = x
  <2>1. PICK k \in 0..(n - 1) : k = RankIn(S, before, x)
    BY <1>3
  <2>2. k + 1 \in 1..n /\ (k + 1) - 1 = k
    BY <1>1, <2>1
  <2>3. list[k + 1] \in S /\ RankIn(S, before, list[k + 1]) = k
    BY <1>8, <2>2
  <2>4. ~ (<<list[k + 1], x>> \in before) /\ ~ (<<x, list[k + 1]>> \in before)
    <3>1. k \in Nat
      BY <1>1, <2>1
    <3> QED BY <1>3, <2>1, <2>3, <3>1
  <2>5. list[k + 1] = x
    BY <2>3, <2>4 DEF Orders
  <2> QED BY <2>2, <2>5
<1>12. ASSUME NEW i \in 1..n, NEW j \in 1..n
       PROVE  i < j <=> <<list[i], list[j]>> \in before
  <2>1. <<list[i], list[j]>> \in before <=> i - 1 < j - 1
    BY <1>3, <1>8
  <2> QED BY <1>1, <2>1
<1> QED BY <1>1, <1>8, <1>9, <1>10, <1>11, <1>12 DEF list, n

\* The same without the ranks.
IsListOf(list, S, n, before) ==
  /\ n \in Nat /\ list \in [1..n -> S] /\ list \in Seq(S) /\ Len(list) = n
  /\ \A x \in S : \E r \in 1..n : list[r] = x
  /\ \A i, j \in 1..n : i < j <=> <<list[i], list[j]>> \in before

LEMMA InOrderIsList ==
  ASSUME NEW S, IsFiniteSet(S), NEW before, Orders(before, S)
  PROVE  IsListOf(InOrder(S, before), S, Cardinality(S), before)
BY InOrderLists DEF IsListOf

-----------------------------------------------------------------------------
(* The lists of the API.                                                   *)

ByPlace(places, up) ==
  {pair \in places \X places : IF up THEN Earlier(pair[1], pair[2]) ELSE Earlier(pair[2], pair[1])}

LEMMA ByPlaceIs ==
  ASSUME NEW S, NEW up \in BOOLEAN, NEW p \in S, NEW q \in S
  PROVE  <<p, q>> \in ByPlace(S, up) <=> IF up THEN Earlier(p, q) ELSE Earlier(q, p)
BY DEF ByPlace

LEMMA EarlierOrders ==
  ASSUME NEW p \in Nat \X Nat, NEW q \in Nat \X Nat, NEW s \in Nat \X Nat
  PROVE  /\ ~Earlier(p, p)
         /\ p # q => Earlier(p, q) \/ Earlier(q, p)
         /\ Earlier(p, q) /\ Earlier(q, s) => Earlier(p, s)
BY DEF Earlier

LEMMA PlacesAreOrdered ==
  ASSUME NEW S, S \subseteq Nat \X Nat, NEW up \in BOOLEAN
  PROVE  Orders(ByPlace(S, up), S)
<1>1. ASSUME NEW x \in S PROVE <<x, x>> \notin ByPlace(S, up)
  BY ByPlaceIs, EarlierOrders
<1>2. ASSUME NEW x \in S, NEW y \in S, x # y
      PROVE  <<x, y>> \in ByPlace(S, up) \/ <<y, x>> \in ByPlace(S, up)
  <2>1. Earlier(x, y) \/ Earlier(y, x)
    BY <1>2, EarlierOrders
  <2> QED BY <2>1, ByPlaceIs
<1>3. ASSUME NEW x \in S, NEW y \in S, NEW z \in S,
             <<x, y>> \in ByPlace(S, up), <<y, z>> \in ByPlace(S, up)
      PROVE  <<x, z>> \in ByPlace(S, up)
  <2>1. x \in Nat \X Nat /\ y \in Nat \X Nat /\ z \in Nat \X Nat
    OBVIOUS
  <2>2. IF up THEN Earlier(x, y) /\ Earlier(y, z) ELSE Earlier(y, x) /\ Earlier(z, y)
    BY <1>3, ByPlaceIs
  <2>3. IF up THEN Earlier(x, z) ELSE Earlier(z, x)
    BY <2>1, <2>2, EarlierOrders
  <2> QED BY <2>3, ByPlaceIs
<1> QED BY <1>1, <1>2, <1>3 DEF Orders

LEMMA ListedIs ==
  ASSUME NEW S, S \subseteq Nat \X Nat, IsFiniteSet(S), NEW up \in BOOLEAN
  PROVE  LET list == Listed(S, up)
             n    == Cardinality(S)
         IN  /\ n \in Nat /\ list \in [1..n -> S] /\ DOMAIN list = 1..n
             /\ \A x \in S : \E r \in 1..n : list[r] = x
             /\ \A r \in 1..n : list[r] \in S /\ RankIn(S, ByPlace(S, up), list[r]) = r - 1
<1>1. Orders(ByPlace(S, up), S)
  BY PlacesAreOrdered
<1>2. Listed(S, up) = InOrder(S, ByPlace(S, up))
  BY DEF Listed, ByPlace
<1>3. LET list == InOrder(S, ByPlace(S, up))
          n    == Cardinality(S)
      IN  /\ n \in Nat /\ list \in [1..n -> S]
          /\ \A x \in S : \E r \in 1..n : list[r] = x
          /\ \A r \in 1..n : RankIn(S, ByPlace(S, up), list[r]) = r - 1
  BY <1>1, InOrderLists
<1> QED BY <1>2, <1>3

\* A row only ever moves to a later place: what else is listed stands before
\* or after it.
LEMMA RowsMoveBack ==
  ASSUME NEW S, NEW T, S \subseteq T, T \subseteq Nat \X Nat, IsFiniteSet(T), NEW up \in BOOLEAN,
         NEW r \in 1..Cardinality(S)
  PROVE  \E q \in 1..Cardinality(T) : r <= q /\ Listed(T, up)[q] = Listed(S, up)[r]
<1>1. IsFiniteSet(S) /\ S \subseteq Nat \X Nat
  BY FS_Subset
<1>2. PICK x \in S : x = Listed(S, up)[r] /\ RankIn(S, ByPlace(S, up), x) = r - 1
  BY <1>1, ListedIs
<1>3. PICK q \in 1..Cardinality(T) : Listed(T, up)[q] = x
  BY ListedIs
<1>4. RankIn(T, ByPlace(T, up), x) = q - 1
  BY <1>3, ListedIs
<1>5. BelowIn(S, ByPlace(S, up), x) \subseteq BelowIn(T, ByPlace(T, up), x)
  <2>1. ASSUME NEW y \in S, <<y, x>> \in ByPlace(S, up) PROVE <<y, x>> \in ByPlace(T, up)
    <3>1. x \in T /\ y \in T
      OBVIOUS
    <3> QED BY <2>1, <3>1, ByPlaceIs
  <2> QED BY <2>1 DEF BelowIn
<1>6. IsFiniteSet(BelowIn(T, ByPlace(T, up), x))
  <2>1. BelowIn(T, ByPlace(T, up), x) \subseteq T
    BY DEF BelowIn
  <2> QED BY <2>1, FS_Subset
<1>7. RankIn(S, ByPlace(S, up), x) <= RankIn(T, ByPlace(T, up), x)
  BY <1>5, <1>6, FS_Subset DEF RankIn
<1>8. Cardinality(S) \in Nat /\ Cardinality(T) \in Nat
  BY <1>1, FS_CardinalityType
<1>9. r <= q
  BY <1>2, <1>4, <1>7, <1>8
<1> QED BY <1>2, <1>3, <1>9

IsWindow(items, S, rows, o, l, k) ==
  /\ items \in Seq(S) /\ Len(items) = k
  /\ k = 0 \/ o + k <= Len(rows)
  /\ k >= l \/ o + k >= Len(rows)
  /\ \A i \in 1..k : items[i] = rows[o + i]

LEMMA WindowIs ==
  ASSUME NEW S, NEW rows \in Seq(S), NEW o \in Nat, NEW l \in Nat
  PROVE  \E k \in Nat : IsWindow(Window(rows, [limit |-> l, offset |-> o]).items, S, rows, o, l, k)
<1> DEFINE n == Len(rows)
           last == IF n < o + l THEN n ELSE o + l
           k == IF last > o THEN last - o ELSE 0
           items == SubSeq(rows, o + 1, last)
<1>1. n \in Nat
  OBVIOUS
<1> HIDE DEF n
<1>2. last \in Nat /\ k \in Nat /\ (k = 0 \/ o + k = last) /\ last <= n /\ (k >= l \/ o + k >= n)
      /\ (k = 0 <=> last <= o)
  BY <1>1
<1>3. Window(rows, [limit |-> l, offset |-> o]).items = items
  BY DEF Window, Lower, n
<1>4. /\ items \in Seq(S) /\ Len(items) = k
      /\ \A i \in 1..k : items[i] = rows[o + i]
  <2> HIDE DEF last
  <2>1. CASE last <= o
    <3>1. items = <<>>
      BY <1>2, <2>1
    <3>2. k = 0
      BY <1>2, <2>1
    <3> HIDE DEF items, k
    <3> QED BY <3>1, <3>2
  <2>2. CASE ~ (last <= o)
    <3>1. /\ o + k = last /\ k >= 1
      BY <1>2, <2>2
    <3> HIDE DEF k
    <3>2. \A i \in (o + 1)..last : rows[i] \in S
      BY <1>1, <1>2 DEF n
    <3>3. /\ SubSeq(rows, o + 1, last) \in Seq(S)
          /\ Len(SubSeq(rows, o + 1, last)) = IF o + 1 <= last THEN last - (o + 1) + 1 ELSE 0
          /\ \A i \in 1..(last - (o + 1) + 1) : SubSeq(rows, o + 1, last)[i] = rows[(o + 1) + i - 1]
      BY <1>1, <1>2, <2>2, SubSeqProperties DEF n
    <3>4. last - (o + 1) + 1 = k /\ o + 1 <= last
      BY <1>1, <1>2, <3>1
    <3>5. \A i \in 1..k : (o + 1) + i - 1 = o + i
      OBVIOUS
    <3> QED BY <3>3, <3>4, <3>5
  <2> QED BY <2>1, <2>2
<1> HIDE DEF last, k, items
<1>5. /\ k \in Nat
      /\ items \in Seq(S) /\ Len(items) = k
      /\ k = 0 \/ o + k <= Len(rows)
      /\ k >= l \/ o + k >= Len(rows)
      /\ \A i \in 1..k : items[i] = rows[o + i]
  BY <1>2, <1>4 DEF n
<1> QED BY <1>3, <1>5 DEF IsWindow

-----------------------------------------------------------------------------
(* The rows of a list.                                                     *)

Query(request) ==
  [block |-> request.block, extrinsic |-> request.extrinsic, section |-> request.section,
   method |-> request.method, account |-> NormalizeAddress(request.address)]

Refused(request) ==
  \/ Missing(request, NormalizeAddress(request.address))
  \/ request.route = "activity.list" /\ request.kind \notin ActivityKinds \cup {Absent}

Kept(request) ==
  CASE request.route = "blocks.list" -> BlockPlaces
    [] request.route \in {"blocks.extrinsics", "extrinsics.list", "accounts.extrinsics"} -> KeptExtrinsics(Query(request))
    [] request.route = "eras.list" -> KeptEvents(EraQuery)
    [] request.route = "activity.list" -> KeptActivity(request.kind, NormalizeAddress(request.address))
    [] OTHER -> KeptEvents(Query(request))

Up(request) == request.route \in {"blocks.extrinsics", "blocks.events", "extrinsics.events"}

RowOf(request, p) ==
  CASE request.route = "blocks.list" -> p[1]
    [] request.route \in {"blocks.extrinsics", "extrinsics.list", "accounts.extrinsics"} -> ExtrinsicAt(p)
    [] request.route = "eras.list" -> EraEntry(TRUE, SettledEraFromEvent(EventAt(p)).era, SettledEraFromEvent(EventAt(p)).settledAt)
    [] request.route = "activity.list" -> ActivityItem(EventAt(p))
    [] OTHER -> EventAt(p)

\* The era in progress stands before the settled ones.
Shift(request) == IF request.route = "eras.list" THEN 1 ELSE 0

Stored(request) == Cardinality(Kept(request))
StoredRow(request, r) == RowOf(request, Listed(Kept(request), Up(request))[r])

Current(request) == EraEntry(FALSE, CurrentEra, Absent)

\* A page holds what stands after the offset, as much as fits.
IsPageOf(request, items, offset, limit) ==
  \E k \in Nat :
    /\ DOMAIN items = 1..k /\ Len(items) = k /\ (items = <<>> <=> k = 0)
    /\ k = 0 \/ offset + k <= Shift(request) + Stored(request)
    /\ k >= limit \/ offset + k >= Shift(request) + Stored(request)
    /\ \A i \in 1..k, r \in Nat :
         offset + i = Shift(request) + r =>
           items[i] = IF r > 0 THEN StoredRow(request, r) ELSE Current(request)

LEMMA FamilyIsFinite ==
  ASSUME NEW I, IsFiniteSet(I), NEW F, \A n \in I : IsFiniteSet(F[n])
  PROVE  IsFiniteSet(UNION {F[n] : n \in I})
<1> DEFINE G == [n \in I |-> F[n]]
<1>1. G \in Surjection(I, {F[n] : n \in I})
  BY DEF Surjection
<1>2. IsFiniteSet({F[n] : n \in I})
  BY <1>1, FS_Surjection
<1> QED BY <1>2, FS_UNION

LEMMA RowOfListIsFinite ==
  ASSUME NEW n, NEW list, IsList(list)
  PROVE  /\ IsFiniteSet({<<n, i>> : i \in DOMAIN list})
         /\ n \in Nat => {<<n, i>> : i \in DOMAIN list} \subseteq Nat \X Nat
<1>1. IsFiniteSet(DOMAIN list)
  BY FS_Interval DEF IsList
<1> DEFINE G == [i \in DOMAIN list |-> <<n, i>>]
<1>2. G \in Surjection(DOMAIN list, {<<n, i>> : i \in DOMAIN list})
  BY DEF Surjection
<1>3. IsFiniteSet({<<n, i>> : i \in DOMAIN list})
  BY <1>1, <1>2, FS_Surjection
<1>4. DOMAIN list \subseteq Nat
  BY DEF IsList
<1> QED BY <1>3, <1>4

LEMMA PlacesAreFinite ==
  ASSUME indexed \subseteq Heights
  PROVE  /\ IsFiniteSet(BlockPlaces) /\ BlockPlaces \subseteq Nat \X Nat
         /\ IsFiniteSet(EventPlaces) /\ EventPlaces \subseteq Nat \X Nat
         /\ IsFiniteSet(ExtrinsicPlaces) /\ ExtrinsicPlaces \subseteq Nat \X Nat
<1>1. MaxHeight \in Nat /\ DOMAIN Blocks = 0..MaxHeight
  BY FollowerConstants
<1>2. indexed \subseteq Nat /\ indexed \subseteq DOMAIN Blocks
  BY <1>1 DEF Heights
<1>3. IsFiniteSet(indexed)
  <2>1. IsFiniteSet(0..MaxHeight)
    BY <1>1, FS_Interval
  <2> QED BY <2>1, FS_Subset DEF Heights
<1>4. IsFiniteSet(BlockPlaces) /\ BlockPlaces \subseteq Nat \X Nat
  <2> DEFINE G == [n \in indexed |-> <<n, 0>>]
  <2>1. G \in Surjection(indexed, BlockPlaces)
    BY DEF Surjection, BlockPlaces
  <2>2. IsFiniteSet(BlockPlaces)
    BY <1>3, <2>1, FS_Surjection
  <2> QED BY <1>2, <2>2 DEF BlockPlaces
<1>5. IsFiniteSet(EventPlaces) /\ EventPlaces \subseteq Nat \X Nat
  <2> DEFINE F == [n \in indexed |-> {<<n, i>> : i \in DOMAIN Blocks[n].events}]
  <2>1. ASSUME NEW n \in indexed PROVE IsFiniteSet(F[n]) /\ F[n] \subseteq Nat \X Nat
    <3>1. IsList(Blocks[n].events) /\ n \in Nat
      BY <1>2, ApiConstants
    <3>2. F[n] = {<<n, i>> : i \in DOMAIN Blocks[n].events}
      OBVIOUS
    <3> HIDE DEF F
    <3> QED BY <3>1, <3>2, RowOfListIsFinite
  <2>2. EventPlaces = UNION {F[n] : n \in indexed}
    BY DEF EventPlaces
  <2> HIDE DEF F
  <2>3. IsFiniteSet(UNION {F[n] : n \in indexed})
    BY <1>3, <2>1, FamilyIsFinite
  <2> QED BY <2>1, <2>2, <2>3
<1>6. IsFiniteSet(ExtrinsicPlaces) /\ ExtrinsicPlaces \subseteq Nat \X Nat
  <2> DEFINE F == [n \in indexed |-> {<<n, i>> : i \in DOMAIN Blocks[n].extrinsics}]
  <2>1. ASSUME NEW n \in indexed PROVE IsFiniteSet(F[n]) /\ F[n] \subseteq Nat \X Nat
    <3>1. IsList(Blocks[n].extrinsics) /\ n \in Nat
      BY <1>2, ApiConstants
    <3>2. F[n] = {<<n, i>> : i \in DOMAIN Blocks[n].extrinsics}
      OBVIOUS
    <3> HIDE DEF F
    <3> QED BY <3>1, <3>2, RowOfListIsFinite
  <2>2. ExtrinsicPlaces = UNION {F[n] : n \in indexed}
    BY DEF ExtrinsicPlaces
  <2> HIDE DEF F
  <2>3. IsFiniteSet(UNION {F[n] : n \in indexed})
    BY <1>3, <2>1, FamilyIsFinite
  <2> QED BY <2>1, <2>2, <2>3
<1> QED BY <1>4, <1>5, <1>6

LEMMA KeptIsFinite ==
  ASSUME indexed \subseteq Heights, NEW request
  PROVE  IsFiniteSet(Kept(request)) /\ Kept(request) \subseteq Nat \X Nat /\ Stored(request) \in Nat
<1>1. \/ Kept(request) \subseteq BlockPlaces
      \/ Kept(request) \subseteq EventPlaces
      \/ Kept(request) \subseteq ExtrinsicPlaces
  <2>1. /\ KeptExtrinsics(Query(request)) \subseteq ExtrinsicPlaces
        /\ KeptEvents(Query(request)) \subseteq EventPlaces
        /\ KeptEvents(EraQuery) \subseteq EventPlaces
        /\ KeptActivity(request.kind, NormalizeAddress(request.address)) \subseteq EventPlaces
    BY DEF KeptExtrinsics, KeptEvents, KeptActivity
  <2> QED BY <2>1, Zenon DEF Kept
<1>2. IsFiniteSet(Kept(request)) /\ Kept(request) \subseteq Nat \X Nat
  BY <1>1, PlacesAreFinite, FS_Subset
<1> QED BY <1>2, FS_CardinalityType DEF Stored

ListsAreFinite ==
  indexed \subseteq Heights =>
    \A request :
      IsFiniteSet(Kept(request)) /\ Kept(request) \subseteq Nat \X Nat /\ Stored(request) \in Nat

LEMMA ListsStayFinite == ListsAreFinite
BY KeptIsFinite DEF ListsAreFinite

LEMMA KeptGrows ==
  ASSUME NEW request, indexed \subseteq indexed'
  PROVE  Kept(request) \subseteq Kept(request)'
<1>1. /\ BlockPlaces \subseteq BlockPlaces' /\ EventPlaces \subseteq EventPlaces'
      /\ ExtrinsicPlaces \subseteq ExtrinsicPlaces'
  BY DEF BlockPlaces, EventPlaces, ExtrinsicPlaces
<1>2. /\ KeptExtrinsics(Query(request)) \subseteq KeptExtrinsics(Query(request))'
      /\ KeptEvents(Query(request)) \subseteq KeptEvents(Query(request))'
      /\ KeptEvents(EraQuery) \subseteq KeptEvents(EraQuery)'
      /\ KeptActivity(request.kind, NormalizeAddress(request.address)) \subseteq KeptActivity(request.kind, NormalizeAddress(request.address))'
  BY <1>1 DEF KeptExtrinsics, KeptEvents, KeptActivity
<1> QED BY <1>1, <1>2, Zenon DEF Kept

-----------------------------------------------------------------------------
(* The answer of a list.                                                   *)

\* A list without the era in progress is a window of its rows.
LEMMA PlainPage ==
  ASSUME indexed \subseteq Heights, NEW request, request.route # "eras.list",
         NEW rows, NEW o \in Nat, NEW l \in Nat, NEW result,
         rows = [r \in 1..Stored(request) |-> StoredRow(request, r)],
         result.items = Window(rows, [limit |-> l, offset |-> o]).items,
         result.total = Window(rows, [limit |-> l, offset |-> o]).total
  PROVE  IsPageOf(request, result.items, o, l) /\ result.total = Stored(request)
<1> DEFINE n == Stored(request)
           S == {StoredRow(request, r) : r \in 1..n}
<1>1. n \in Nat
  BY KeptIsFinite
<1> HIDE DEF n
<1>2. rows \in [1..n -> S]
  BY DEF n
<1>3. rows = [r \in 1..n |-> StoredRow(request, r)]
  BY DEF n
<1> HIDE DEF S
<1>4. rows \in Seq(S) /\ Len(rows) = n
  BY ONLY <1>1, <1>2
<1>5. PICK k \in Nat : IsWindow(result.items, S, rows, o, l, k)
  BY <1>4, WindowIs
<1>5a. /\ result.items \in Seq(S) /\ Len(result.items) = k
       /\ k = 0 \/ o + k <= n
       /\ k >= l \/ o + k >= n
       /\ \A i \in 1..k : result.items[i] = rows[o + i]
  BY <1>4, <1>5 DEF IsWindow
<1>6. Shift(request) = 0
  BY DEF Shift
<1>7. ASSUME NEW i \in 1..k, NEW r \in Nat, o + i = 0 + r
      PROVE  result.items[i] = IF r > 0 THEN StoredRow(request, r) ELSE Current(request)
  <2>1. r \in 1..n /\ r = o + i
    BY <1>1, <1>7, <1>5a
  <2>2. result.items[i] = rows[r]
    BY <1>5a, <2>1
  <2>3. rows[r] = StoredRow(request, r)
    BY <1>3, <2>1
  <2> QED BY <2>1, <2>2, <2>3
<1>8. DOMAIN result.items = 1..k /\ (result.items = <<>> <=> k = 0)
  BY <1>5a, EmptySeq
<1>9. n = Stored(request)
  BY DEF n
<1>10. /\ DOMAIN result.items = 1..k /\ Len(result.items) = k /\ (result.items = <<>> <=> k = 0)
       /\ k = 0 \/ o + k <= 0 + n
       /\ k >= l \/ o + k >= 0 + n
       /\ \A i \in 1..k, r \in Nat :
            o + i = 0 + r =>
             result.items[i] = IF r > 0 THEN StoredRow(request, r) ELSE Current(request)
  <2>1. k = 0 \/ o + k <= 0 + n
    BY <1>1, <1>5a
  <2>2. k >= l \/ o + k >= 0 + n
    BY <1>1, <1>5a
  <2> QED BY <1>7, <1>8, <1>5a, <2>1, <2>2
<1>11. result.total = n
  BY <1>4 DEF Window
<1> HIDE DEF n
<1> QED BY <1>6, <1>9, <1>10, <1>11 DEF IsPageOf

LEMMA RowsByPlace ==
  ASSUME indexed \subseteq Heights, NEW request
  PROVE  /\ DOMAIN Listed(Kept(request), Up(request)) = 1..Stored(request)
         /\ \A r \in 1..Stored(request) : Listed(Kept(request), Up(request))[r] \in Kept(request)
<1>1. Up(request) \in BOOLEAN
  BY DEF Up
<1>2. IsFiniteSet(Kept(request)) /\ Kept(request) \subseteq Nat \X Nat
  BY KeptIsFinite
<1> QED BY <1>1, <1>2, ListedIs DEF Stored

LEMMA ExtrinsicsPage ==
  ASSUME indexed \subseteq Heights, NEW request,
         request.route \in {"blocks.extrinsics", "extrinsics.list", "accounts.extrinsics"},
         NEW o \in Nat, NEW l \in Nat, NEW result,
         result.items = ListExtrinsics(Query(request), Up(request), [limit |-> l, offset |-> o]).items,
         result.total = ListExtrinsics(Query(request), Up(request), [limit |-> l, offset |-> o]).total
  PROVE  IsPageOf(request, result.items, o, l) /\ result.total = Stored(request)
<1> DEFINE rows == [r \in 1..Stored(request) |-> StoredRow(request, r)]
<1>1. Kept(request) = KeptExtrinsics(Query(request)) /\ \A p : RowOf(request, p) = ExtrinsicAt(p)
  BY DEF Kept, RowOf
<1>2. rows = [r \in DOMAIN Listed(Kept(request), Up(request)) |-> ExtrinsicAt(Listed(Kept(request), Up(request))[r])]
  BY <1>1, RowsByPlace DEF StoredRow
<1>3. /\ result.items = Window(rows, [limit |-> l, offset |-> o]).items
      /\ result.total = Window(rows, [limit |-> l, offset |-> o]).total
  BY <1>1, <1>2 DEF ListExtrinsics
<1> HIDE DEF rows
<1>4. rows = [r \in 1..Stored(request) |-> StoredRow(request, r)]
  BY DEF rows
<1> QED BY <1>3, <1>4, PlainPage

LEMMA EventsPage ==
  ASSUME indexed \subseteq Heights, NEW request,
         request.route \in {"blocks.events", "extrinsics.events", "events.list", "agents.events"},
         NEW o \in Nat, NEW l \in Nat, NEW result,
         result.items = ListEvents(Query(request), Up(request), [limit |-> l, offset |-> o]).items,
         result.total = ListEvents(Query(request), Up(request), [limit |-> l, offset |-> o]).total
  PROVE  IsPageOf(request, result.items, o, l) /\ result.total = Stored(request)
<1> DEFINE rows == [r \in 1..Stored(request) |-> StoredRow(request, r)]
<1>1. Kept(request) = KeptEvents(Query(request)) /\ \A p : RowOf(request, p) = EventAt(p)
  BY DEF Kept, RowOf
<1>2. rows = [r \in DOMAIN Listed(Kept(request), Up(request)) |-> EventAt(Listed(Kept(request), Up(request))[r])]
  BY <1>1, RowsByPlace DEF StoredRow
<1>3. /\ result.items = Window(rows, [limit |-> l, offset |-> o]).items
      /\ result.total = Window(rows, [limit |-> l, offset |-> o]).total
  BY <1>1, <1>2 DEF ListEvents
<1> HIDE DEF rows
<1>4. rows = [r \in 1..Stored(request) |-> StoredRow(request, r)]
  BY DEF rows
<1> QED BY <1>3, <1>4, PlainPage

LEMMA BlocksPage ==
  ASSUME indexed \subseteq Heights, NEW request, request.route = "blocks.list",
         NEW o \in Nat, NEW l \in Nat, NEW result,
         result.items = ListBlocks([limit |-> l, offset |-> o]).items,
         result.total = ListBlocks([limit |-> l, offset |-> o]).total
  PROVE  IsPageOf(request, result.items, o, l) /\ result.total = Stored(request)
<1> DEFINE rows == [r \in 1..Stored(request) |-> StoredRow(request, r)]
<1>1. Kept(request) = BlockPlaces /\ Up(request) = FALSE /\ \A p : RowOf(request, p) = p[1]
  BY DEF Kept, RowOf, Up
<1>2. rows = [r \in DOMAIN Listed(Kept(request), Up(request)) |-> Listed(Kept(request), Up(request))[r][1]]
  BY <1>1, RowsByPlace DEF StoredRow
<1>3. /\ result.items = Window(rows, [limit |-> l, offset |-> o]).items
      /\ result.total = Window(rows, [limit |-> l, offset |-> o]).total
  BY <1>1, <1>2 DEF ListBlocks
<1> HIDE DEF rows
<1>4. rows = [r \in 1..Stored(request) |-> StoredRow(request, r)]
  BY DEF rows
<1> QED BY <1>3, <1>4, PlainPage

LEMMA ActivityPage ==
  ASSUME indexed \subseteq Heights, NEW request, request.route = "activity.list",
         NEW account, account = NormalizeAddress(request.address),
         NEW o \in Nat, NEW l \in Nat, NEW items, NEW total,
         LET feed == ListActivity(request.kind, account, [limit |-> l, offset |-> o])
         IN  /\ items = [i \in DOMAIN feed.items |-> ActivityItem(feed.items[i])]
             /\ total = feed.total
  PROVE  IsPageOf(request, items, o, l) /\ total = Stored(request)
<1> DEFINE n == Stored(request)
           order == Listed(Kept(request), Up(request))
           events == [r \in 1..n |-> EventAt(order[r])]
           S == {events[r] : r \in 1..n}
           given == Window(events, [limit |-> l, offset |-> o]).items
<1>1. Kept(request) = KeptActivity(request.kind, account) /\ Up(request) = FALSE
      /\ \A p : RowOf(request, p) = ActivityItem(EventAt(p))
  BY DEF Kept, RowOf, Up
<1>2. n \in Nat /\ DOMAIN order = 1..n
  BY KeptIsFinite, RowsByPlace
<1>3. /\ given = ListActivity(request.kind, account, [limit |-> l, offset |-> o]).items
      /\ total = Window(events, [limit |-> l, offset |-> o]).total
  BY <1>1, <1>2 DEF ListActivity
<1>4. items = [i \in DOMAIN given |-> ActivityItem(given[i])]
  BY <1>3
<1>5. \A r \in 1..n : StoredRow(request, r) = ActivityItem(events[r])
  BY <1>1 DEF StoredRow
<1> HIDE DEF n, order
<1>6. events \in [1..n -> S]
  OBVIOUS
<1> HIDE DEF events, S
<1>7. events \in Seq(S) /\ Len(events) = n
  BY ONLY <1>2, <1>6
<1>8. PICK k \in Nat : IsWindow(given, S, events, o, l, k)
  BY <1>7, WindowIs DEF given
<1>8a. /\ given \in Seq(S) /\ Len(given) = k
       /\ k = 0 \/ o + k <= n
       /\ k >= l \/ o + k >= n
       /\ \A i \in 1..k : given[i] = events[o + i]
  BY <1>7, <1>8 DEF IsWindow
<1> HIDE DEF given
<1>9. items = [i \in 1..k |-> ActivityItem(given[i])]
  BY <1>4, <1>8a
<1>10. ASSUME NEW i \in 1..k, NEW r \in Nat, o + i = 0 + r
       PROVE  items[i] = IF r > 0 THEN StoredRow(request, r) ELSE Current(request)
  <2>1. r \in 1..n /\ r = o + i
    BY <1>2, <1>10, <1>8a
  <2>2. given[i] = events[r]
    BY <1>8a, <2>1
  <2>3. items[i] = ActivityItem(events[r])
    BY <1>9, <2>2
  <2> QED BY <1>5, <2>1, <2>3
<1> DEFINE R == {ActivityItem(given[i]) : i \in 1..k}
<1>11. items \in [1..k -> R]
  BY <1>9
<1> HIDE DEF R
<1>12. items \in Seq(R) /\ Len(items) = k /\ DOMAIN items = 1..k
  BY ONLY <1>8, <1>11
<1>13. items = <<>> <=> k = 0
  BY <1>12, EmptySeq
<1>14. Shift(request) = 0 /\ total = n
  BY <1>3, <1>7 DEF Shift, Window
<1>15. n = Stored(request)
  BY DEF n
<1>16. k = 0 \/ o + k <= 0 + n
  BY <1>2, <1>8a
<1>17. k >= l \/ o + k >= 0 + n
  BY <1>2, <1>8a
<1>18. /\ DOMAIN items = 1..k /\ Len(items) = k /\ (items = <<>> <=> k = 0)
       /\ k = 0 \/ o + k <= 0 + n
       /\ k >= l \/ o + k >= 0 + n
       /\ \A i \in 1..k, r \in Nat :
            o + i = 0 + r =>
              items[i] = IF r > 0 THEN StoredRow(request, r) ELSE Current(request)
  BY <1>10, <1>12, <1>13, <1>16, <1>17
<1> QED BY <1>14, <1>15, <1>18 DEF IsPageOf

\* The settled eras of a page, as entries.
AreSettled(items, R, request, o, l, k) ==
  /\ items \in Seq(R) /\ Len(items) = k
  /\ k = 0 \/ o + k <= Stored(request)
  /\ k >= l \/ o + k >= Stored(request)
  /\ \A i \in 1..k : o + i \in 1..Stored(request) /\ items[i] = StoredRow(request, o + i)

LEMMA SettledPageIs ==
  ASSUME indexed \subseteq Heights, NEW request, request.route = "eras.list",
         NEW o \in Nat, NEW l \in Nat
  PROVE  /\ \E k \in Nat : \E R : AreSettled(SettledEntries(SettledPage(l, o).items), R, request, o, l, k)
         /\ SettledPage(l, o).total = Stored(request)
<1> DEFINE n == Stored(request)
           order == Listed(Kept(request), Up(request))
           events == [r \in 1..n |-> EventAt(order[r])]
           S == {events[r] : r \in 1..n}
           given == Window(events, [limit |-> l, offset |-> o]).items
           items == SettledEntries(SettledPage(l, o).items)
           Entry(row) == EraEntry(TRUE, SettledEraFromEvent(row).era, SettledEraFromEvent(row).settledAt)
<1>1. Kept(request) = KeptEvents(EraQuery) /\ Up(request) = FALSE
      /\ \A q : RowOf(request, q) = Entry(EventAt(q))
  BY DEF Kept, RowOf, Up
<1>2. n \in Nat /\ DOMAIN order = 1..n
  BY KeptIsFinite, RowsByPlace
<1>3. given = SettledPage(l, o).items /\ SettledPage(l, o).total = Window(events, [limit |-> l, offset |-> o]).total
  BY <1>1, <1>2 DEF SettledPage, ListEvents
<1>4. items = [i \in DOMAIN given |-> Entry(given[i])]
  BY <1>3 DEF SettledEntries
<1>5. \A r \in 1..n : StoredRow(request, r) = Entry(events[r])
  BY <1>1 DEF StoredRow
<1> HIDE DEF n, order, items
<1>6. events \in [1..n -> S]
  OBVIOUS
<1> HIDE DEF events, S
<1>7. events \in Seq(S) /\ Len(events) = n
  BY ONLY <1>2, <1>6
<1>8. PICK k \in Nat : IsWindow(given, S, events, o, l, k)
  BY <1>7, WindowIs
<1>9. /\ given \in Seq(S) /\ Len(given) = k
      /\ k = 0 \/ o + k <= n
      /\ k >= l \/ o + k >= n
      /\ \A i \in 1..k : given[i] = events[o + i]
  BY <1>7, <1>8 DEF IsWindow
<1> HIDE DEF given
<1>10. items = [i \in 1..k |-> Entry(given[i])]
  BY <1>4, <1>9
<1>11. ASSUME NEW i \in 1..k
       PROVE  o + i \in 1..n /\ items[i] = StoredRow(request, o + i)
  <2>1. PICK r \in 1..n : r = o + i
    BY <1>2, <1>9
  <2>2. items[i] = Entry(events[r])
    BY <1>9, <1>10, <2>1
  <2>3. items[i] = StoredRow(request, r)
    BY <1>5, <2>2
  <2> QED BY <2>1, <2>3
<1> DEFINE R == {Entry(given[i]) : i \in 1..k}
<1>12. items \in [1..k -> R]
  BY <1>10
<1> HIDE DEF R, Entry
<1>13. items \in Seq(R) /\ Len(items) = k
  BY ONLY <1>8, <1>12
<1>14. /\ items \in Seq(R) /\ Len(items) = k
       /\ k = 0 \/ o + k <= n
       /\ k >= l \/ o + k >= n
       /\ \A i \in 1..k : o + i \in 1..n /\ items[i] = StoredRow(request, o + i)
  BY <1>9, <1>11, <1>13
<1> HIDE DEF R
<1>15. AreSettled(items, R, request, o, l, k)
  BY <1>14 DEF AreSettled, n
<1>16. SettledPage(l, o).total = n
  BY <1>3, <1>7 DEF Window
<1> QED BY <1>8, <1>15, <1>16 DEF items, n

LEMMA ErasPage ==
  ASSUME indexed \subseteq Heights, NEW request, request.route = "eras.list",
         NEW o \in Nat, NEW l \in Nat, l >= 1
  PROVE  /\ IsPageOf(request, ErasList([limit |-> l, offset |-> o]).items, o, l)
         /\ ErasList([limit |-> l, offset |-> o]).total = 1 + Stored(request)
<1> DEFINE n == Stored(request)
           items == ErasList([limit |-> l, offset |-> o]).items
<1>1. n \in Nat /\ Shift(request) = 1
  BY KeptIsFinite DEF Shift
<1>2. CASE o = 0
  <2> DEFINE rows == SettledEntries(SettledPage(l - 1, 0).items)
             now == EraEntry(FALSE, CurrentEra, Absent)
  <2>1. items = <<now>> \o rows
    BY <1>2 DEF ErasList
  <2>2. l - 1 \in Nat
    OBVIOUS
  <2> PICK k \in Nat : \E R : AreSettled(rows, R, request, 0, l - 1, k)
    BY <2>2, SettledPageIs
  <2> PICK R : AreSettled(rows, R, request, 0, l - 1, k)
    OBVIOUS
  <2>3. /\ rows \in Seq(R) /\ Len(rows) = k
        /\ k = 0 \/ 0 + k <= n
        /\ k >= l - 1 \/ 0 + k >= n
        /\ \A i \in 1..k : 0 + i \in 1..n /\ rows[i] = StoredRow(request, 0 + i)
    BY DEF AreSettled
  <2> HIDE DEF rows, items, n
  <2> HIDE DEF now
  <2>4. rows \in Seq(R \cup {now}) /\ <<now>> \in Seq(R \cup {now})
    <3>1. rows \in [1..k -> R]
      BY <2>3
    <3>2. rows \in [1..k -> R \cup {now}]
      BY ONLY <3>1
    <3> QED BY ONLY <3>2, k \in Nat
  <2>5. /\ items \in Seq(R \cup {now}) /\ Len(items) = k + 1
        /\ items[1] = now /\ \A i \in 1..k : items[i + 1] = rows[i]
    BY <2>1, <2>3, <2>4
  <2>6. DOMAIN items = 1..(k + 1) /\ items # <<>>
    BY <2>5
  <2>7. ASSUME NEW i \in 1..(k + 1), NEW r \in Nat, o + i = 1 + r
        PROVE  items[i] = IF r > 0 THEN StoredRow(request, r) ELSE Current(request)
    <3>1. i = r + 1
      BY <1>2, <2>7
    <3>2. CASE r = 0
      <4>1. i = 1 /\ now = Current(request)
        BY <3>1, <3>2 DEF Current, now
      <4> QED BY <2>5, <3>2, <4>1
    <3>3. CASE r > 0
      <4>1. r \in 1..k /\ 0 + r = r
        BY <2>7, <3>1, <3>3
      <4> QED BY <2>3, <2>5, <3>1, <3>3, <4>1
    <3> QED BY <3>2, <3>3
  <2>8. /\ k + 1 \in Nat /\ (items = <<>> <=> k + 1 = 0)
        /\ k + 1 = 0 \/ o + (k + 1) <= 1 + n
        /\ k + 1 >= l \/ o + (k + 1) >= 1 + n
    BY <1>1, <1>2, <2>3, <2>6
  <2> DEFINE K == k + 1
  <2>9. /\ K \in Nat /\ DOMAIN items = 1..K /\ Len(items) = K /\ (items = <<>> <=> K = 0)
        /\ K = 0 \/ o + K <= 1 + n
        /\ K >= l \/ o + K >= 1 + n
        /\ \A i \in 1..K, r \in Nat :
             o + i = 1 + r => items[i] = IF r > 0 THEN StoredRow(request, r) ELSE Current(request)
    BY <2>5, <2>6, <2>7, <2>8
  <2> HIDE DEF K
  <2>10. n = Stored(request)
    BY DEF n
  <2>11. IsPageOf(request, items, o, l)
    BY <1>1, <2>9, <2>10 DEF IsPageOf
  <2>12. ErasList([limit |-> l, offset |-> o]).total = SettledPage(l - 1, 0).total + 1
    BY <1>2 DEF ErasList
  <2>13. SettledPage(l - 1, 0).total = n
    BY <2>2, SettledPageIs DEF n
  <2> QED BY <1>1, <2>11, <2>12, <2>13 DEF items, n
<1>3. CASE o # 0
  <2> DEFINE rows == SettledEntries(SettledPage(l, o - 1).items)
  <2>1. items = rows
    BY <1>3 DEF ErasList
  <2>2. o - 1 \in Nat
    BY <1>3
  <2> PICK k \in Nat : \E R : AreSettled(rows, R, request, o - 1, l, k)
    BY <2>2, SettledPageIs
  <2> PICK R : AreSettled(rows, R, request, o - 1, l, k)
    OBVIOUS
  <2>3. /\ rows \in Seq(R) /\ Len(rows) = k
        /\ k = 0 \/ (o - 1) + k <= n
        /\ k >= l \/ (o - 1) + k >= n
        /\ \A i \in 1..k : (o - 1) + i \in 1..n /\ rows[i] = StoredRow(request, (o - 1) + i)
    BY DEF AreSettled
  <2> HIDE DEF rows, items, n
  <2>4. DOMAIN items = 1..k /\ Len(items) = k /\ (items = <<>> <=> k = 0)
    BY <2>1, <2>3, EmptySeq
  <2>5. ASSUME NEW i \in 1..k, NEW r \in Nat, o + i = 1 + r
        PROVE  items[i] = IF r > 0 THEN StoredRow(request, r) ELSE Current(request)
    <3>1. r = (o - 1) + i
      BY <2>5
    <3>2. r \in 1..n /\ rows[i] = StoredRow(request, r)
      BY <2>3, <3>1
    <3> QED BY <2>1, <3>2
  <2>6. k = 0 \/ o + k <= 1 + n
    BY <1>1, <2>3
  <2>7. k >= l \/ o + k >= 1 + n
    BY <1>1, <2>3
  <2>8. n = Stored(request)
    BY DEF n
  <2>9. IsPageOf(request, items, o, l)
    BY <1>1, <2>4, <2>5, <2>6, <2>7, <2>8 DEF IsPageOf
  <2>10. ErasList([limit |-> l, offset |-> o]).total = SettledPage(l, o - 1).total + 1
    BY <1>3 DEF ErasList
  <2>11. SettledPage(l, o - 1).total = n
    BY <2>2, SettledPageIs DEF n
  <2> QED BY <1>1, <2>9, <2>10, <2>11 DEF items, n
<1> QED BY <1>2, <1>3

\* What the API answers: the page asked for, or nothing.
LEMMA AnswerIs ==
  ASSUME indexed \subseteq Heights, NEW request \in Requests,
         NEW o \in Nat, NEW l \in Nat, l >= 1 \/ request.route # "eras.list"
  PROVE  LET answer == Answer(request, NormalizeAddress(request.address), [limit |-> l, offset |-> o])
         IN  /\ Refused(request) => answer.items = <<>> /\ answer.total = 0
             /\ ~Refused(request) => /\ IsPageOf(request, answer.items, o, l)
                                    /\ answer.total = Shift(request) + Stored(request)
<1> DEFINE account == NormalizeAddress(request.address)
           page == [limit |-> l, offset |-> o]
           answer == Answer(request, account, page)
<1>1. request.route \in ListRoutes
  BY ApiConstants
<1>2. ASSUME Missing(request, account) PROVE answer.items = <<>> /\ answer.total = 0
  BY <1>2 DEF Answer, Bad
<1>3. ASSUME Refused(request) PROVE answer.items = <<>> /\ answer.total = 0
  <2>1. CASE ~Missing(request, account)
    <3>1. request.route = "activity.list" /\ request.kind \notin ActivityKinds \cup {Absent}
      BY <1>3, <2>1 DEF Refused
    <3>2. answer = ActivityRoute(request, account, page)
      BY <2>1, <3>1 DEF Answer
    <3> QED BY <3>1, <3>2 DEF ActivityRoute, Bad
  <2> QED BY <1>2, <2>1
<1>4. Shift(request) = (IF request.route = "eras.list" THEN 1 ELSE 0) /\ Stored(request) \in Nat
  BY KeptIsFinite DEF Shift
<1>5. ASSUME ~Refused(request)
      PROVE  IsPageOf(request, answer.items, o, l) /\ answer.total = Shift(request) + Stored(request)
  <2>0. ~Missing(request, account)
    BY <1>5 DEF Refused
  <2>1. CASE request.route = "blocks.list"
    <3>1. answer = Ok(ListBlocks(page))
      BY <2>0, <2>1 DEF Answer, BlockRoutes
    <3>2. answer.items = ListBlocks(page).items /\ answer.total = ListBlocks(page).total
      BY <3>1 DEF Ok
    <3> HIDE DEF answer
    <3> QED BY <1>4, <2>1, <3>2, BlocksPage
  <2>2. CASE request.route \in {"blocks.extrinsics", "extrinsics.list", "accounts.extrinsics"}
    <3>1. answer = Ok(ListExtrinsics(Query(request), Up(request), page))
      <4>1. CASE request.route = "blocks.extrinsics"
        <5>1. Up(request) = TRUE
          BY <4>1 DEF Up
        <5>2. answer = Ok(ListExtrinsics(Query(request), TRUE, page))
          BY <2>0, <4>1 DEF Answer, BlockRoutes, Query
        <5> QED BY <5>1, <5>2
      <4>2. CASE request.route = "extrinsics.list"
        <5>1. Up(request) = FALSE
          BY <4>2 DEF Up
        <5>2. answer = Ok(ListExtrinsics(Query(request), FALSE, page))
          BY <2>0, <4>2 DEF Answer, ExtrinsicRoutes, Query
        <5> QED BY <5>1, <5>2
      <4>3. CASE request.route = "accounts.extrinsics"
        <5>1. Up(request) = FALSE
          BY <4>3 DEF Up
        <5>2. answer = Ok(ListExtrinsics(Query(request), FALSE, page))
          BY <2>0, <4>3 DEF Answer, AccountRoutes, Query
        <5> QED BY <5>1, <5>2
      <4> QED BY <2>2, <4>1, <4>2, <4>3
    <3>2. /\ answer.items = ListExtrinsics(Query(request), Up(request), page).items
          /\ answer.total = ListExtrinsics(Query(request), Up(request), page).total
      BY <3>1 DEF Ok
    <3> HIDE DEF answer
    <3> QED BY <1>4, <2>2, <3>2, ExtrinsicsPage
  <2>3. CASE request.route \in {"blocks.events", "extrinsics.events", "events.list", "agents.events"}
    <3>1. answer = Ok(ListEvents(Query(request), Up(request), page))
      <4>1. CASE request.route = "blocks.events"
        <5>1. Up(request) = TRUE
          BY <4>1 DEF Up
        <5>2. answer = Ok(ListEvents(Query(request), TRUE, page))
          BY <2>0, <4>1 DEF Answer, BlockRoutes, Query
        <5> QED BY <5>1, <5>2
      <4>2. CASE request.route = "extrinsics.events"
        <5>1. Up(request) = TRUE
          BY <4>2 DEF Up
        <5>2. answer = Ok(ListEvents(Query(request), TRUE, page))
          BY <2>0, <4>2 DEF Answer, ExtrinsicRoutes, Query
        <5> QED BY <5>1, <5>2
      <4>3. CASE request.route = "events.list"
        <5>1. Up(request) = FALSE
          BY <4>3 DEF Up
        <5>2. answer = Ok(ListEvents(Query(request), FALSE, page))
          BY <2>0, <4>3 DEF Answer, EventRoutes, Query
        <5> QED BY <5>1, <5>2
      <4>4. CASE request.route = "agents.events"
        <5>1. Up(request) = FALSE
          BY <4>4 DEF Up
        <5>2. answer = Ok(ListEvents(Query(request), FALSE, page))
          BY <2>0, <4>4 DEF Answer, AgentRoutes, Query
        <5> QED BY <5>1, <5>2
      <4> QED BY <2>3, <4>1, <4>2, <4>3, <4>4
    <3>2. /\ answer.items = ListEvents(Query(request), Up(request), page).items
          /\ answer.total = ListEvents(Query(request), Up(request), page).total
      BY <3>1 DEF Ok
    <3> HIDE DEF answer
    <3> QED BY <1>4, <2>3, <3>2, EventsPage
  <2>4. CASE request.route = "eras.list"
    <3>1. answer = OkSince(ErasList(page))
      BY <2>0, <2>4 DEF Answer
    <3>2. answer.items = ErasList(page).items /\ answer.total = ErasList(page).total
      BY <3>1 DEF OkSince, Ok
    <3> HIDE DEF answer
    <3> QED BY <1>4, <2>4, <3>2, ErasPage
  <2>5. CASE request.route = "activity.list"
    <3> DEFINE feed == ListActivity(request.kind, account, page)
    <3>1. answer = ActivityRoute(request, account, page)
      BY <2>0, <2>5 DEF Answer
    <3>2. request.kind \in ActivityKinds \cup {Absent}
      BY <1>5, <2>5 DEF Refused
    <3>3. /\ answer.items = [i \in DOMAIN feed.items |-> ActivityItem(feed.items[i])]
          /\ answer.total = feed.total
      BY <3>1, <3>2 DEF ActivityRoute, OkSince, Ok
    <3> HIDE DEF answer
    <3> QED BY <1>4, <2>5, <3>3, ActivityPage
  <2> QED BY <1>1, <2>1, <2>2, <2>3, <2>4, <2>5 DEF ListRoutes
<1> QED BY <1>3, <1>5

-----------------------------------------------------------------------------
(* The client.                                                             *)

\* A row that is still to come stands after what the client has asked for.
IsAhead(request, offset, row) ==
  /\ ~Refused(request)
  /\ \E r \in 1..Stored(request) : Shift(request) + r > offset /\ StoredRow(request, r) = row

ClientInv ==
  client # NoClient =>
    /\ client.request \in Requests /\ client.offset \in Nat
    /\ client = [request |-> client.request, offset |-> client.offset,
                 owed |-> client.owed, got |-> client.got]
    /\ \A row \in client.owed \ client.got : IsAhead(client.request, client.offset, row)

ApiInv == Inv /\ ClientInv /\ PagingMissesNothing

\* Nothing indexed is lost, and nothing finalized is taken back.
LEMMA OnlyMore ==
  ASSUME Inv, FollowerNext
  PROVE  indexed \subseteq indexed' /\ finalized <= finalized'
<1>1. finalized \in Nat
  BY Bounds DEF Inv, FollowerTypeOK, Heights
<1>2. CASE Finalize
  BY <1>1, <1>2 DEF Finalize
<1>3. CASE Backfill
  BY <1>1, <1>3, IndexBlockAdds DEF Backfill
<1>4. CASE CatchUp
  BY <1>1, <1>4, IndexBlockAdds DEF CatchUp
<1>5. CASE ~Finalize /\ ~Backfill /\ ~CatchUp
  <2>1. UNCHANGED <<indexed, finalized>>
    BY <1>5 DEF FollowerNext, Start, Subscribe, HeadArrives, BeginCatchUp,
       CatchUpFails, Wait, WaitTimesOut, Stop, Close, Crash, process
  <2> QED BY <1>1, <2>1
<1> QED BY <1>2, <1>3, <1>4, <1>5

\* What was found once is found again.
LEMMA StillFound ==
  ASSUME NEW request, indexed \subseteq indexed', finalized <= finalized',
         finalized \in Nat, finalized' \in Nat, Refused(request)'
  PROVE  Refused(request)
<1> DEFINE account == NormalizeAddress(request.address)
<1>1. HeldBlock(request) => HeldBlock(request)'
  BY DEF HeldBlock
<1>2. HeldExtrinsic(request) => HeldExtrinsic(request)'
  BY <1>1 DEF HeldExtrinsic
<1>3. HeldEvent(request) => HeldEvent(request)'
  BY <1>1 DEF HeldEvent
<1>4. IsAgent(account) => IsAgent(account)'
  <2>1. 0..finalized \subseteq 0..finalized'
    OBVIOUS
  <2> QED BY <2>1 DEF IsAgent
<1> HIDE DEF account
<1>5. Missing(request, account)' => Missing(request, account)
  BY <1>1, <1>2, <1>3, <1>4 DEF Missing
<1> QED BY <1>5 DEF Refused, account

LEMMA StaysAhead ==
  ASSUME Inv, Inv', NEW request, NEW offset \in Nat, NEW row,
         indexed \subseteq indexed', finalized <= finalized', IsAhead(request, offset, row)
  PROVE  IsAhead(request, offset, row)'
<1>1. /\ indexed \subseteq Heights /\ indexed' \subseteq Heights
      /\ finalized \in Nat /\ finalized' \in Nat
  BY Bounds DEF Inv, FollowerTypeOK, Heights
<1>2. ~Refused(request)'
  BY <1>1, StillFound DEF IsAhead
<1>3. Kept(request) \subseteq Kept(request)'
  BY KeptGrows
<1>4. Stored(request) \in Nat /\ IsFiniteSet(Kept(request)')
      /\ Kept(request)' \subseteq Nat \X Nat /\ Stored(request)' \in Nat
  <2>1. ListsAreFinite'
    BY ListsStayFinite, PTL
  <2>2. Stored(request) \in Nat
    BY <1>1, KeptIsFinite
  <2>3. Heights' = Heights
    BY DEF Heights
  <2> QED BY <1>1, <2>1, <2>2, <2>3 DEF ListsAreFinite
<1>5. PICK r \in 1..Stored(request) : Shift(request) + r > offset /\ StoredRow(request, r) = row
  BY DEF IsAhead
<1>6. Up(request) \in BOOLEAN /\ Shift(request) \in Nat
  BY DEF Up, Shift
<1>7. PICK q \in 1..Cardinality(Kept(request)') :
         r <= q /\ Listed(Kept(request)', Up(request))[q] = Listed(Kept(request), Up(request))[r]
  BY <1>3, <1>4, <1>5, <1>6, RowsMoveBack DEF Stored
<1>8. q \in 1..Stored(request)' /\ StoredRow(request, q)' = row
  BY <1>5, <1>7 DEF Stored, StoredRow
<1>9. Shift(request)' + q > offset
  BY <1>4, <1>5, <1>6, <1>7 DEF Shift
<1> QED BY <1>2, <1>8, <1>9 DEF IsAhead

LEMMA FollowerKeepsClient ==
  ApiInv /\ FollowerNext /\ UNCHANGED <<client, missed>> => ApiInv'
<1> SUFFICES ASSUME ApiInv, FollowerNext, UNCHANGED <<client, missed>>
             PROVE  ApiInv'
  OBVIOUS
<1>1. Inv /\ Inv'
  BY FollowerInductive DEF ApiInv
<1>2. indexed \subseteq indexed' /\ finalized <= finalized'
  BY <1>1, OnlyMore
<1>3. ClientInv'
  <2> SUFFICES ASSUME client # NoClient, NEW row \in client.owed \ client.got
               PROVE  IsAhead(client.request, client.offset, row)'
    BY DEF ApiInv, ClientInv
  <2>1. client.offset \in Nat /\ IsAhead(client.request, client.offset, row)
    BY DEF ApiInv, ClientInv
  <2> PICK request, offset : request = client.request /\ offset = client.offset
    OBVIOUS
  <2>2. IsAhead(request, offset, row)'
    BY <1>1, <1>2, <2>1, StaysAhead
  <2> QED BY <2>2
<1> QED BY <1>1, <1>3 DEF ApiInv, PagingMissesNothing

LEMMA OpenStep ==
  ASSUME ApiInv, NEW request \in Requests, Open(request)
  PROVE  ApiInv'
<1>1. indexed \subseteq Heights
  BY DEF ApiInv, Inv, FollowerTypeOK
<1>2. /\ UNCHANGED <<followerVars, missed>>
      /\ client' = [request |-> request, offset |-> 0, owed |-> RowsNow(request), got |-> {}]
  BY DEF Open
<1> DEFINE account == NormalizeAddress(request.address)
           all == Answer(request, account, [limit |-> 1, offset |-> 0]).total
           items == Answer(request, account, [limit |-> all, offset |-> 0]).items
<1>3. RowsNow(request) = {row \in ToSet(items) : request.route = "eras.list" => row.settled}
  BY DEF RowsNow
<1>4. Stored(request) \in Nat
  BY <1>1, KeptIsFinite
<1>5. ASSUME NEW row \in RowsNow(request)
      PROVE  IsAhead(request, 0, row)
  <2>1. PICK i \in DOMAIN items : items[i] = row
    BY <1>3 DEF ToSet
  <2>2. request.route = "eras.list" => row.settled
    BY <1>3
  <2>3. /\ Refused(request) => all = 0
        /\ ~Refused(request) => all = Shift(request) + Stored(request)
    BY <1>1, AnswerIs
  <2>4. all \in Nat
    BY <1>4, <2>3 DEF Shift
  <2>5. CASE Refused(request)
    <3>1. items = <<>>
      <4>1. Missing(request, account) => items = <<>>
        BY DEF Answer, Bad
      <4>2. ~Missing(request, account) => items = <<>>
        <5>1. ASSUME ~Missing(request, account)
              PROVE  request.route = "activity.list" /\ request.kind \notin ActivityKinds \cup {Absent}
          BY <2>5, <5>1 DEF Refused
        <5>2. ASSUME ~Missing(request, account)
              PROVE  all >= 1 \/ request.route # "eras.list"
          BY <5>1, <5>2
        <5> HIDE DEF all
        <5> QED BY <1>1, <2>4, <2>5, <5>2, AnswerIs
      <4> QED BY <4>1, <4>2
    <3> QED BY <2>1, <3>1
  <2>6. CASE ~Refused(request)
    <3>1. all >= 1 \/ request.route # "eras.list"
      BY <1>4, <2>3, <2>6 DEF Shift
    <3> HIDE DEF all
    <3>2. IsPageOf(request, items, 0, all)
      BY <1>1, <2>4, <2>6, <3>1, AnswerIs
    <3> HIDE DEF items
    <3>3. PICK k \in Nat :
            /\ DOMAIN items = 1..k
            /\ k = 0 \/ 0 + k <= Shift(request) + Stored(request)
            /\ \A j \in 1..k, r \in Nat :
                 0 + j = Shift(request) + r =>
                   items[j] = IF r > 0 THEN StoredRow(request, r) ELSE Current(request)
      BY <3>2 DEF IsPageOf
    <3>4. Shift(request) \in {0, 1}
      BY DEF Shift
    <3>5. PICK r \in Nat : i = Shift(request) + r
      <4>1. i \in Nat /\ i >= 1
        BY <2>1, <3>3
      <4>2. i - Shift(request) \in Nat /\ i = Shift(request) + (i - Shift(request))
        BY <3>4, <4>1
      <4> QED BY <4>2
    <3>6. items[i] = IF r > 0 THEN StoredRow(request, r) ELSE Current(request)
      BY <2>1, <3>3, <3>5
    <3>7. r > 0
      <4>1. CASE r = 0
        <5>1. Shift(request) = 1 /\ row = Current(request)
          BY <2>1, <3>3, <3>4, <3>5, <3>6, <4>1
        <5>2. request.route = "eras.list" /\ row.settled = FALSE
          BY <5>1 DEF Shift, Current, EraEntry
        <5> QED BY <2>2, <5>2
      <4> QED BY <4>1
    <3>8. r \in 1..Stored(request) /\ Shift(request) + r > 0
      BY <1>4, <2>1, <3>3, <3>4, <3>5, <3>7
    <3> QED BY <2>1, <2>6, <3>6, <3>7, <3>8 DEF IsAhead
  <2> QED BY <2>5, <2>6
<1>6. Inv /\ Inv' /\ indexed \subseteq indexed' /\ finalized <= finalized'
  <2>1. Inv /\ finalized \in Nat
    BY Bounds DEF ApiInv, Inv, FollowerTypeOK, Heights
  <2>2. [FollowerNext]_followerVars
    BY <1>2
  <2>3. Inv'
    BY <2>1, <2>2, FollowerInductive
  <2> QED BY <1>2, <2>1, <2>3 DEF followerVars
<1>7. ASSUME NEW row \in RowsNow(request)
      PROVE  IsAhead(request, 0, row)'
  BY <1>5, <1>6, StaysAhead
<1>8. ClientInv'
  <2>1. /\ client'.request = request /\ client'.offset = 0
        /\ client'.owed = RowsNow(request) /\ client'.got = {}
    BY <1>2
  <2>2. ASSUME NEW row \in client'.owed \ client'.got
        PROVE  IsAhead(client.request, client.offset, row)'
    <3>1. row \in RowsNow(request)
      BY <2>1
    <3>2. IsAhead(request, 0, row)'
      BY <1>7, <3>1
    <3> QED BY <2>1, <3>2
  <2> HIDE DEF account, all, items
  <2> QED BY <1>2, <2>1, <2>2 DEF ClientInv
<1>9. PagingMissesNothing'
  BY <1>2 DEF ApiInv, PagingMissesNothing
<1> QED BY <1>6, <1>8, <1>9 DEF ApiInv

\* Where no page is refused that the client asks for, it gets its page.
LEMMA HandleIs ==
  ASSUME indexed \subseteq Heights, NEW request \in Requests, NEW offset \in Nat,
         NEW limit \in {Absent, MaxLimit + 1}
  PROVE  \E l \in Nat \ {0} :
           Handle(request, limit, offset) =
             Answer(request, NormalizeAddress(request.address), [limit |-> l, offset |-> offset])
<1>1. /\ MaxLimit \in Nat \ {0} /\ DefaultLimit \in Nat \ {0} /\ Absent \notin Nat
      /\ Junk \notin Nat /\ Junk \notin [limit : Nat, offset : Nat]
      /\ request.block # Junk /\ NormalizeAddress(request.address) # Junk
  BY ApiConstants
<1> DEFINE l == IF limit = Absent THEN DefaultLimit ELSE MaxLimit
<1>2. l \in Nat \ {0}
  BY <1>1
<1>3. ParsePage(limit, offset) = [limit |-> l, offset |-> offset]
  <2>1. offset # Absent /\ ~IsRefused(offset) /\ ~(offset < 0)
    BY <1>1 DEF IsRefused
  <2>2. limit # Absent => ~IsRefused(limit) /\ ~(limit < 1) /\ Clamp(limit) = MaxLimit
    BY <1>1 DEF IsRefused, Clamp, Lower
  <2> QED BY <2>1, <2>2 DEF ParsePage
<1>4. Junk \notin {ParsePage(limit, offset), NormalizeAddress(request.address)}
  BY <1>1, <1>2, <1>3
<1>5. ~(request.route \in {"extrinsics.list", "events.list"} /\ IsRefused(request.block))
  BY <1>1 DEF IsRefused
<1>6. Handle(request, limit, offset) = Answer(request, NormalizeAddress(request.address), ParsePage(limit, offset))
  BY <1>4, <1>5 DEF Handle
<1> HIDE DEF l
<1> QED BY <1>2, <1>3, <1>6

LEMMA NextPageStep == ApiInv /\ NextPage => ApiInv'
<1> SUFFICES ASSUME ApiInv, NextPage PROVE ApiInv'
  OBVIOUS
<1> PICK request, offset, owed, got :
      request = client.request /\ offset = client.offset /\ owed = client.owed /\ got = client.got
  OBVIOUS
<1>1. /\ client # NoClient /\ UNCHANGED followerVars /\ indexed \subseteq Heights
      /\ request \in Requests /\ offset \in Nat
      /\ client = [request |-> request, offset |-> offset, owed |-> owed, got |-> got]
      /\ \A row \in owed \ got : IsAhead(request, offset, row)
  BY DEF NextPage, ApiInv, ClientInv, Inv, FollowerTypeOK
<1>2. Inv /\ Inv' /\ indexed \subseteq indexed' /\ finalized <= finalized'
  <2>1. Inv /\ finalized \in Nat
    BY Bounds DEF ApiInv, Inv, FollowerTypeOK, Heights
  <2>2. Inv'
    BY <1>1, <2>1, FollowerInductive
  <2> QED BY <1>1, <2>1, <2>2 DEF followerVars
<1>3. PICK limit \in {Absent, MaxLimit + 1} :
        LET items == Handle(request, limit, offset).items
        IN  IF items = <<>>
            THEN client' = NoClient /\ missed' = missed \cup (owed \ got)
            ELSE /\ client' = [client EXCEPT !.offset = @ + Len(items), !.got = @ \cup ToSet(items)]
                 /\ UNCHANGED missed
  BY DEF NextPage
<1>4. PICK l \in Nat \ {0} :
        Handle(request, limit, offset) =
          Answer(request, NormalizeAddress(request.address), [limit |-> l, offset |-> offset])
  BY <1>1, HandleIs
<1> PICK items : items = Handle(request, limit, offset).items
  OBVIOUS
<1>5. ~Refused(request) => IsPageOf(request, items, offset, l)
  BY <1>1, <1>4, AnswerIs
<1>6. \A row \in owed \ got : IsPageOf(request, items, offset, l) /\ IsAhead(request, offset, row)
  BY <1>1, <1>5 DEF IsAhead
<1>7. Stored(request) \in Nat /\ Shift(request) \in Nat
  BY <1>1, KeptIsFinite DEF Shift
<1>8. CASE items = <<>>
  <2>1. ASSUME NEW row \in owed \ got PROVE FALSE
    <3>1. PICK k \in Nat :
            k = 0 /\ (k >= l \/ offset + k >= Shift(request) + Stored(request))
      BY <1>6, <1>8 DEF IsPageOf
    <3>2. PICK r \in 1..Stored(request) : Shift(request) + r > offset
      BY <1>6 DEF IsAhead
    <3> QED BY <1>1, <1>7, <3>1, <3>2
  <2>2. client' = NoClient /\ missed' = missed
    BY <1>3, <1>8, <2>1
  <2> QED BY <1>2, <2>2 DEF ApiInv, ClientInv, PagingMissesNothing
<1>9. CASE items # <<>>
  <2>1. /\ client' = [request |-> request, offset |-> offset + Len(items),
                      owed |-> owed, got |-> got \cup ToSet(items)]
        /\ missed' = missed
    BY <1>1, <1>3, <1>9
  <2>2. ASSUME NEW row \in owed \ (got \cup ToSet(items))
        PROVE  offset + Len(items) \in Nat /\ IsAhead(request, offset + Len(items), row)
    <3>1. PICK k \in Nat :
            /\ DOMAIN items = 1..k /\ Len(items) = k
            /\ \A i \in 1..k, r \in Nat :
                 offset + i = Shift(request) + r =>
                   items[i] = IF r > 0 THEN StoredRow(request, r) ELSE Current(request)
      BY <1>6, <2>2 DEF IsPageOf
    <3>2. PICK r \in 1..Stored(request) : Shift(request) + r > offset /\ StoredRow(request, r) = row
      BY <1>6, <2>2 DEF IsAhead
    <3>3. CASE Shift(request) + r <= offset + k
      <4>1. PICK i \in 1..k : offset + i = Shift(request) + r
        <5>1. (Shift(request) + r) - offset \in 1..k
          BY <1>1, <1>7, <3>2, <3>3
        <5>2. offset + ((Shift(request) + r) - offset) = Shift(request) + r
          BY <1>1, <1>7, <3>2
        <5> QED BY <5>1, <5>2
      <4>2. r \in Nat /\ r > 0
        BY <1>7
      <4>3. items[i] = row
        BY <3>1, <3>2, <4>1, <4>2
      <4>4. row \in ToSet(items)
        BY <3>1, <4>1, <4>3 DEF ToSet
      <4> QED BY <2>2, <4>4
    <3>4. CASE ~(Shift(request) + r <= offset + k)
      <4>1. Shift(request) + r > offset + k /\ offset + k \in Nat
        BY <1>1, <1>7, <3>4
      <4>2. ~Refused(request)
        BY <1>6, <2>2 DEF IsAhead
      <4> QED BY <3>1, <3>2, <4>1, <4>2 DEF IsAhead
    <3> QED BY <3>3, <3>4
  <2>3. ASSUME NEW row \in owed \ (got \cup ToSet(items))
        PROVE  IsAhead(request, offset + Len(items), row)'
    <3> PICK further : further = offset + Len(items)
      OBVIOUS
    <3>1. further \in Nat /\ IsAhead(request, further, row)
      BY <2>2
    <3>2. IsAhead(request, further, row)'
      BY <1>2, <3>1, StaysAhead
    <3> QED BY <3>2
  <2>4. offset + Len(items) \in Nat
    <3>1. Refused(request) => items = <<>>
      BY <1>1, <1>4, AnswerIs
    <3>2. Len(items) \in Nat
      BY <1>5, <1>9, <3>1 DEF IsPageOf
    <3> QED BY <1>1, <3>2
  <2>5. ClientInv'
    BY <1>1, <2>1, <2>3, <2>4 DEF ClientInv
  <2> QED BY <1>2, <2>1, <2>5 DEF ApiInv, PagingMissesNothing
<1> QED BY <1>8, <1>9

LEMMA ApiStep == ApiInv /\ [ApiNext]_apiVars => ApiInv'
<1> SUFFICES ASSUME ApiInv, [ApiNext]_apiVars PROVE ApiInv'
  OBVIOUS
<1>1. ASSUME UNCHANGED <<followerVars, client, missed>> \/ Hangup
      PROVE  ApiInv'
  <2>1. UNCHANGED followerVars /\ UNCHANGED missed /\ Inv
    BY <1>1 DEF Hangup, ApiInv
  <2>2. Inv'
    BY <2>1, FollowerInductive
  <2>3. CASE Hangup
    BY <2>1, <2>2, <2>3 DEF Hangup, ApiInv, ClientInv, PagingMissesNothing
  <2>4. CASE UNCHANGED <<followerVars, client, missed>>
    <3>1. indexed \subseteq indexed' /\ finalized <= finalized'
      BY <2>1, Bounds DEF followerVars, Inv, FollowerTypeOK, Heights
    <3>2. ASSUME client # NoClient, NEW row \in client.owed \ client.got
          PROVE  IsAhead(client.request, client.offset, row)'
      <4> PICK request, offset : request = client.request /\ offset = client.offset
        OBVIOUS
      <4>1. offset \in Nat /\ IsAhead(request, offset, row)
        BY <3>2 DEF ApiInv, ClientInv
      <4>2. IsAhead(request, offset, row)'
        BY <2>1, <2>2, <3>1, <4>1, StaysAhead
      <4> QED BY <2>4, <4>2
    <3>3. ClientInv'
      BY <2>4, <3>2 DEF ApiInv, ClientInv
    <3> QED BY <2>2, <2>4, <3>3 DEF ApiInv, PagingMissesNothing
  <2> QED BY <1>1, <2>3, <2>4
<1> QED BY <1>1, FollowerKeepsClient, OpenStep, NextPageStep DEF ApiNext, apiVars

\* A client that pages to the end of a list has been given every row the list
\* had when it began, whatever is indexed meanwhile (pagination.ts; the lists
\* of store.ts are ordered by block and index; eras.ts shifts the settled eras
\* by the one in progress).
THEOREM PagesMissNothing == ApiSpec => []PagingMissesNothing
<1>1. ApiInit => ApiInv
  BY Initially DEF ApiInit, ApiInv, ClientInv, PagingMissesNothing
<1>2. ApiInv => PagingMissesNothing
  BY DEF ApiInv
<1> QED BY <1>1, <1>2, ApiStep, PTL DEF ApiSpec

-----------------------------------------------------------------------------
(* Scans of the live state.                                                *)

\* The keys, by their places.
LEMMA Places ==
  /\ Len(KeyOrder) \in Nat /\ DOMAIN KeyOrder = 1..Len(KeyOrder)
  /\ \A i \in DOMAIN KeyOrder : KeyOrder[i] \in LiveKeys /\ Place(KeyOrder[i]) = i
  /\ \A key \in LiveKeys : Place(key) \in DOMAIN KeyOrder /\ KeyOrder[Place(key)] = key
<1>1. Len(KeyOrder) \in Nat /\ DOMAIN KeyOrder = 1..Len(KeyOrder)
  BY KeysOnce
<1>2. LiveKeys = {KeyOrder[i] : i \in DOMAIN KeyOrder}
  BY DEF LiveKeys, ToSet
<1>3. \A key \in LiveKeys : Place(key) \in DOMAIN KeyOrder /\ KeyOrder[Place(key)] = key
  BY <1>2 DEF Place
<1>4. \A i \in DOMAIN KeyOrder : KeyOrder[i] \in LiveKeys /\ Place(KeyOrder[i]) = i
  BY <1>2, <1>3, KeysOnce
<1> QED BY <1>1, <1>3, <1>4

After(query, from) == {i \in DOMAIN KeyOrder : i > from /\ stored[KeyOrder[i]] # 0 /\ InScope(query, KeyOrder[i])}

\* A page holds the first of what is left, in order; one that is not full
\* holds all of it.
IsPage(page, query, from, size) ==
  \E taken, n :
    /\ n \in 0..size /\ taken \in [1..n -> After(query, from)]
    /\ page = [r \in 1..n |-> [key |-> KeyOrder[taken[r]], value |-> stored[KeyOrder[taken[r]]]]]
    /\ \A i, j \in 1..n : i < j <=> taken[i] < taken[j]
    /\ \A x \in After(query, from), r \in 1..n : x <= taken[r] => \E s \in 1..n : taken[s] = x
    /\ n < size => \A x \in After(query, from) : \E s \in 1..n : taken[s] = x

LEMMA PageHolds ==
  ASSUME NEW query, NEW from \in Nat, NEW size \in Nat
  PROVE  IsPage(NodePage(query, from, size), query, from, size)
<1> DEFINE after == After(query, from)
<1> DEFINE before == {p \in after \X after : p[1] < p[2]}
<1>1. after \subseteq DOMAIN KeyOrder /\ DOMAIN KeyOrder = 1..Len(KeyOrder) /\ Len(KeyOrder) \in Nat
  BY Places DEF After
<1> DEFINE left == InOrder(after, before)
<1> DEFINE m == Cardinality(after)
<1> DEFINE n == IF m < size THEN m ELSE size
<1> DEFINE taken == SubSeq(left, 1, n)
<1> HIDE DEF after
<1>2. after \subseteq Nat /\ IsFiniteSet(after)
  <2>1. IsFiniteSet(1..Len(KeyOrder))
    BY <1>1, FS_Interval
  <2> QED BY <1>1, <2>1, FS_Subset
<1>3. Orders(before, after)
  BY <1>2 DEF Orders
<1> HIDE DEF before
<1>4. /\ m \in Nat /\ left \in [1..m -> after] /\ left \in Seq(after) /\ Len(left) = m
      /\ \A x \in after : \E r \in 1..m : left[r] = x
      /\ \A i, j \in 1..m : i < j <=> <<left[i], left[j]>> \in before
  BY <1>2, <1>3, InOrderIsList DEF IsListOf
<1>5. \A i, j \in 1..m : i < j <=> left[i] < left[j]
  <2>1. \A i \in 1..m : left[i] \in after
    BY <1>4
  <2> QED BY <1>4, <2>1 DEF before
<1> HIDE DEF left, m
<1>6. n \in Nat /\ n <= m /\ n <= size /\ (n < size => n = m)
  BY <1>4
<1>7. taken = [r \in 1..n |-> left[r]]
  BY <1>4, <1>6
<1>8. NodePage(query, from, size) = [r \in 1..n |-> [key |-> KeyOrder[taken[r]], value |-> stored[KeyOrder[taken[r]]]]]
  <2>1. n = IF Len(left) < size THEN Len(left) ELSE size
    BY <1>4
  <2>2. NodePage(query, from, size) = [r \in DOMAIN taken |-> [key |-> KeyOrder[taken[r]], value |-> stored[KeyOrder[taken[r]]]]]
    BY <2>1 DEF NodePage, After, after, before, left
  <2>3. DOMAIN taken = 1..n
    BY <1>7
  <2> QED BY <2>2, <2>3
<1> HIDE DEF n, taken
<1>9. taken \in [1..n -> after] /\ \A r \in 1..n : taken[r] = left[r] /\ r \in 1..m
  BY <1>4, <1>6, <1>7
<1>10. \A i, j \in 1..n : i < j <=> taken[i] < taken[j]
  BY <1>5, <1>9
<1>11. ASSUME NEW x \in after, NEW r \in 1..n, x <= taken[r]
       PROVE  \E s \in 1..n : taken[s] = x
  <2>1. PICK s \in 1..m : left[s] = x
    BY <1>4
  <2>2. left[r] \in Nat /\ x \in Nat /\ x <= left[r]
    BY <1>2, <1>4, <1>9, <1>11
  <2>3. ~ (left[r] < left[s])
    BY <2>1, <2>2
  <2>4. ~ (r < s)
    BY <1>5, <1>9, <2>3
  <2>5. s \in 1..n
    BY <1>4, <1>6, <2>4
  <2> QED BY <1>9, <2>1, <2>5
<1>12. ASSUME n < size, NEW x \in after
       PROVE  \E s \in 1..n : taken[s] = x
  BY <1>4, <1>6, <1>9, <1>12
<1>13. n \in 0..size
  BY <1>6
<1>14. /\ n \in 0..size /\ taken \in [1..n -> After(query, from)]
       /\ NodePage(query, from, size) = [r \in 1..n |-> [key |-> KeyOrder[taken[r]], value |-> stored[KeyOrder[taken[r]]]]]
       /\ \A i, j \in 1..n : i < j <=> taken[i] < taken[j]
       /\ \A x \in After(query, from), r \in 1..n : x <= taken[r] => \E s \in 1..n : taken[s] = x
       /\ n < size => \A x \in After(query, from) : \E s \in 1..n : taken[s] = x
  BY <1>8, <1>9, <1>10, <1>11, <1>12, <1>13 DEF after
<1> QED BY <1>14 DEF IsPage

-----------------------------------------------------------------------------
Rows == [key : LiveKeys, value : Nat]
KeysOf(entries) == {entries[i].key : i \in DOMAIN entries}
Distinct(entries) == \A i, j \in DOMAIN entries : entries[i].key = entries[j].key => i = j

LEMMA KeysCount ==
  ASSUME NEW entries \in Seq(Rows), Distinct(entries)
  PROVE  Cardinality(KeysOf(entries)) = Len(entries)
<1> DEFINE n == Len(entries)
<1> DEFINE f == [i \in 1..n |-> entries[i].key]
<1>1. n \in Nat /\ DOMAIN entries = 1..n
  OBVIOUS
<1>2. IsFiniteSet(1..n) /\ Cardinality(1..n) = n
  BY <1>1, FS_Interval
<1>3. f \in Surjection(1..n, KeysOf(entries))
  BY <1>1 DEF Surjection, KeysOf
<1>4. f \in Injection(1..n, KeysOf(entries))
  BY <1>1 DEF Injection, IsInjective, KeysOf, Distinct
<1> HIDE DEF n, f
<1>5. Cardinality(KeysOf(entries)) = Cardinality(1..n)
  BY <1>2, <1>3, <1>4, FS_Surjection
<1> QED BY <1>2, <1>5 DEF n

\* Ranking keeps what it keeps once.
LEMMA RankedKeeps ==
  ASSUME NEW query, NEW entries \in Seq(Rows), Distinct(entries)
  PROVE  /\ Ranked(query, entries) \in Seq(Rows) /\ Distinct(Ranked(query, entries))
         /\ \A i \in DOMAIN entries : Keeps(query, entries[i].key) => entries[i].key \in KeysOf(Ranked(query, entries))
<1> DEFINE kept == {i \in DOMAIN entries : Keeps(query, entries[i].key)}
<1> DEFINE place(i) == Place(entries[i].key)
<1> DEFINE comesFirst(i, j) ==
             \/ entries[i].value > entries[j].value
             \/ entries[i].value = entries[j].value /\ (place(i) < place(j) \/ (place(i) = place(j) /\ i < j))
<1> DEFINE before == {p \in kept \X kept : comesFirst(p[1], p[2])}
<1> DEFINE ranks == InOrder(kept, before)
<1> DEFINE n == Cardinality(kept)
<1>1. DOMAIN entries = 1..Len(entries) /\ Len(entries) \in Nat
  OBVIOUS
<1>2. kept \subseteq DOMAIN entries
  OBVIOUS
<1>3. IsFiniteSet(kept)
  <2>1. IsFiniteSet(1..Len(entries))
    BY <1>1, FS_Interval
  <2> QED BY <1>1, <1>2, <2>1, FS_Subset
<1>4. \A i \in kept : entries[i] \in Rows /\ i \in Nat /\ entries[i].value \in Nat /\ place(i) \in Nat
  <2>1. ASSUME NEW i \in kept
        PROVE  entries[i] \in Rows /\ i \in Nat
    BY <1>1, <1>2
  <2>2. ASSUME NEW i \in kept
        PROVE  entries[i].value \in Nat /\ entries[i].key \in LiveKeys
    BY <2>1, <2>2 DEF Rows
  <2> QED BY <2>1, <2>2, Places
<1>5. Orders(before, kept)
  <2> HIDE DEF kept, place
  <2>1. \A i \in kept : <<i, i>> \notin before
    BY <1>4
  <2>2. \A i, j \in kept : i # j => (<<i, j>> \in before \/ <<j, i>> \in before)
    BY <1>4
  <2>3. \A i, j, k \in kept : (<<i, j>> \in before /\ <<j, k>> \in before) => <<i, k>> \in before
    BY <1>4
  <2> QED BY <2>1, <2>2, <2>3 DEF Orders
<1> HIDE DEF before
<1>6. /\ n \in Nat /\ ranks \in [1..n -> kept]
      /\ \A x \in kept : \E r \in 1..n : ranks[r] = x
      /\ \A i, j \in 1..n : i < j <=> <<ranks[i], ranks[j]>> \in before
  BY <1>3, <1>5, InOrderLists
<1> DEFINE list == [r \in 1..n |-> entries[ranks[r]]]
<1>7. Ranked(query, entries) = list
  <2>1. Ranked(query, entries) = [r \in DOMAIN ranks |-> entries[ranks[r]]]
    BY DEF Ranked, before
  <2> QED BY <1>6, <2>1
<1> HIDE DEF kept, ranks, n
<1>8. \A r \in 1..n : ranks[r] \in kept /\ ranks[r] \in DOMAIN entries
  BY <1>2, <1>6
<1>9. list \in Seq(Rows)
  <2>1. list \in [1..n -> Rows]
    BY <1>4, <1>8
  <2> QED BY <1>6, <2>1
<1>10. Distinct(list)
  <2>1. \A i, j \in 1..n : i # j => ranks[i] # ranks[j]
    <3>1. SUFFICES ASSUME NEW i \in 1..n, NEW j \in 1..n, i < j PROVE ranks[i] # ranks[j]
      BY <1>6
    <3>2. <<ranks[i], ranks[j]>> \in before /\ <<ranks[i], ranks[i]>> \notin before
      BY <1>5, <1>6, <1>8, <3>1 DEF Orders
    <3> QED BY <3>2
  <2> QED BY <1>8, <2>1 DEF Distinct
<1>11. \A i \in kept : entries[i].key \in KeysOf(list)
  <2>1. SUFFICES ASSUME NEW i \in kept PROVE entries[i].key \in KeysOf(list)
    OBVIOUS
  <2>2. PICK r \in 1..n : ranks[r] = i
    BY <1>6
  <2>3. list[r] = entries[i] /\ r \in DOMAIN list
    BY <2>2
  <2> HIDE DEF list
  <2> QED BY <2>3 DEF KeysOf
<1> HIDE DEF list
<1> QED BY <1>7, <1>9, <1>10, <1>11 DEF kept

-----------------------------------------------------------------------------
ScanFields == {"state", "query", "cursor", "entries", "truncated", "window", "items", "standing"}

\* What matched throughout is in what was read, as far as was read.
Scanning ==
  /\ scan.cursor \in Nat /\ Len(scan.entries) <= MaxLiveScan
  /\ IsOneRead(scan.query) => scan.cursor = 0 /\ scan.entries = <<>>
  /\ \A i \in DOMAIN scan.entries : Place(scan.entries[i].key) <= scan.cursor
  /\ \A key \in scan.standing : Place(key) <= scan.cursor => key \in KeysOf(scan.entries)

LiveInv ==
  /\ stored \in [LiveKeys -> {0} \cup Values]
  /\ DOMAIN scan = ScanFields /\ scan.state \in {"idle", "scanning", "ranking", "describing"}
  /\ scan.entries \in Seq(Rows) /\ Distinct(scan.entries)
  /\ \A key \in scan.standing : key \in LiveKeys /\ stored[key] # 0 /\ Keeps(scan.query, key)
  /\ scan.state = "scanning" => Scanning
  /\ scan.state \in {"ranking", "describing"} /\ ~scan.truncated => scan.standing \subseteq KeysOf(scan.entries)

LEMMA KeptIsInScope ==
  ASSUME NEW query, NEW key, Keeps(query, key)
  PROVE  InScope(query, key)
BY DEF Keeps, InScope, Admits, IsOneRead

\* One key at most is in the scope of a read of both parts.
LEMMA OneReadIsOne ==
  ASSUME NEW query, IsOneRead(query), NEW from, NEW x \in After(query, from), NEW y \in After(query, from)
  PROVE  x = y
<1>1. x \in DOMAIN KeyOrder /\ y \in DOMAIN KeyOrder /\ InScope(query, KeyOrder[x]) /\ InScope(query, KeyOrder[y])
  BY DEF After
<1>2. KeyOrder[x][1] = KeyOrder[y][1] /\ KeyOrder[x][2] = KeyOrder[y][2]
  BY <1>1 DEF InScope, IsOneRead, Admits
<1>3. KeyOrder[x] = <<KeyOrder[x][1], KeyOrder[x][2]>> /\ KeyOrder[y] = <<KeyOrder[y][1], KeyOrder[y][2]>>
  BY <1>1, KeysOnce
<1>4. KeyOrder[x] = KeyOrder[y]
  BY <1>2, <1>3
<1> QED BY <1>1, <1>4, KeysOnce

\* A page added to what was read.
LEMMA FoundHolds ==
  ASSUME LiveInv, Scanning, NEW size \in Nat, size = PageSize(Len(scan.entries))
  PROVE  LET page  == NodePage(scan.query, scan.cursor, size)
             found == scan.entries \o page
         IN  /\ page \in Seq(Rows) /\ Len(page) <= size /\ size > 0
             /\ found \in Seq(Rows) /\ Len(found) = Len(scan.entries) + Len(page) /\ Distinct(found)
             /\ Len(page) > 0 =>
                  /\ Place(Last(page).key) \in Nat /\ Place(Last(page).key) > scan.cursor
                  /\ \A i \in DOMAIN found : Place(found[i].key) <= Place(Last(page).key)
                  /\ \A key \in scan.standing : Place(key) <= Place(Last(page).key) => key \in KeysOf(found)
             /\ Len(page) < size \/ IsOneRead(scan.query) => scan.standing \subseteq KeysOf(found)
<1>a. PICK query, from, entries, m :
        query = scan.query /\ from = scan.cursor /\ entries = scan.entries /\ m = Len(entries)
  OBVIOUS
<1>0. /\ from \in Nat /\ entries \in Seq(Rows) /\ m \in Nat /\ m <= MaxLiveScan
      /\ DOMAIN entries = 1..m /\ Distinct(entries)
  BY <1>a DEF Scanning, LiveInv
<1>1. PICK taken, n :
        /\ n \in 0..size /\ taken \in [1..n -> After(query, from)]
        /\ NodePage(query, from, size) = [r \in 1..n |-> [key |-> KeyOrder[taken[r]], value |-> stored[KeyOrder[taken[r]]]]]
        /\ \A i, j \in 1..n : i < j <=> taken[i] < taken[j]
        /\ \A x \in After(query, from), r \in 1..n : x <= taken[r] => \E s \in 1..n : taken[s] = x
        /\ n < size => \A x \in After(query, from) : \E s \in 1..n : taken[s] = x
  <2>1. IsPage(NodePage(query, from, size), query, from, size)
    BY <1>0, PageHolds
  <2> QED BY <2>1 DEF IsPage
<1> DEFINE page == NodePage(query, from, size)
<1>2. size > 0
  <2>1. size = IF MaxLiveScan + 1 - m < ScanPageSize THEN MaxLiveScan + 1 - m ELSE ScanPageSize
    BY <1>a DEF PageSize
  <2>2. MaxLiveScan \in Nat /\ ScanPageSize \in Nat /\ ScanPageSize # 0
    BY ScanConstants
  <2> QED BY ONLY <1>0, <2>1, <2>2
<1>3. \A x \in After(query, from) : x \in DOMAIN KeyOrder /\ x \in Nat /\ x > from
  BY Places DEF After
<1>4. \A r \in 1..n : /\ taken[r] \in DOMAIN KeyOrder /\ taken[r] \in Nat /\ taken[r] > from
                      /\ page[r].key = KeyOrder[taken[r]] /\ page[r].key \in LiveKeys
                      /\ Place(page[r].key) = taken[r] /\ page[r] \in Rows
  <2>1. SUFFICES ASSUME NEW r \in 1..n
                 PROVE  /\ taken[r] \in DOMAIN KeyOrder /\ taken[r] \in Nat /\ taken[r] > from
                        /\ page[r].key = KeyOrder[taken[r]] /\ page[r].key \in LiveKeys
                        /\ Place(page[r].key) = taken[r] /\ page[r] \in Rows
    OBVIOUS
  <2>2. taken[r] \in DOMAIN KeyOrder /\ taken[r] \in Nat /\ taken[r] > from
    BY <1>1, <1>3
  <2>3. page[r] = [key |-> KeyOrder[taken[r]], value |-> stored[KeyOrder[taken[r]]]]
    BY <1>1
  <2>4. KeyOrder[taken[r]] \in LiveKeys /\ Place(KeyOrder[taken[r]]) = taken[r]
    BY <2>2, Places
  <2>5. stored[KeyOrder[taken[r]]] \in Nat
    <3>1. stored \in [LiveKeys -> {0} \cup Values] /\ {0} \cup Values \subseteq Nat
      BY ScanConstants DEF LiveInv
    <3> QED BY <2>4, <3>1
  <2> QED BY <2>2, <2>3, <2>4, <2>5 DEF Rows
<1>5. page \in Seq(Rows) /\ Len(page) = n /\ DOMAIN page = 1..n /\ n \in Nat /\ n <= size
  <2>1. page \in [1..n -> Rows]
    BY <1>1, <1>4
  <2>2. n \in Nat /\ n <= size
    BY <1>1
  <2> QED BY <2>1, <2>2
<1> DEFINE found == entries \o page
<1> HIDE DEF page
<1>6. /\ found \in Seq(Rows) /\ Len(found) = m + n /\ m \in Nat
      /\ \A i \in 1..m : found[i] = entries[i] /\ i \in DOMAIN entries
      /\ \A i \in 1..n : found[m + i] = page[i]
  <2>1. /\ entries \in Seq(Rows) /\ page \in Seq(Rows) /\ Len(entries) = m /\ Len(page) = n
        /\ m \in Nat /\ n \in Nat /\ DOMAIN entries = 1..m
    BY <1>a, <1>0, <1>5
  <2> HIDE DEF page
  <2>2. Len(found) = m + n /\ found \in Seq(Rows)
    BY ONLY <2>1
  <2>3. \A i \in 1..m : found[i] = entries[i]
    BY ONLY <2>1
  <2>4. \A i \in 1..n : found[m + i] = page[i]
    BY ONLY <2>1
  <2> QED BY <2>1, <2>2, <2>3, <2>4
<1>7. \A i \in DOMAIN entries : Place(entries[i].key) <= from /\ Place(entries[i].key) \in Nat
  <2>1. \A i \in DOMAIN entries : entries[i].key \in LiveKeys
    <3>1. \A i \in DOMAIN entries : entries[i] \in Rows
      BY <1>0
    <3> QED BY <3>1 DEF Rows
  <2> QED BY <1>a, <2>1, Places DEF Scanning
<1> HIDE DEF found
<1>8. \A i \in DOMAIN found : (i \in 1..m) \/ (\E r \in 1..n : i = m + r)
  <2>1. DOMAIN found = 1..(m + n)
    BY <1>6
  <2>2. ASSUME NEW i \in 1..(m + n), ~ (i \in 1..m)
        PROVE  \E r \in 1..n : i = m + r
    <3>1. i - m \in 1..n /\ i = m + (i - m)
      BY <1>5, <1>6, <2>2
    <3> QED BY <3>1
  <2> QED BY <2>1, <2>2
<1>9. Distinct(found)
  <2>1. SUFFICES ASSUME NEW i \in DOMAIN found, NEW j \in DOMAIN found, found[i].key = found[j].key
                 PROVE  i = j
    BY DEF Distinct
  <2>2. CASE i \in 1..m /\ j \in 1..m
    BY <1>0, <1>6, <2>1, <2>2 DEF Distinct
  <2>3. CASE i \in 1..m /\ \E r \in 1..n : j = m + r
    <3>1. PICK r \in 1..n : j = m + r
      BY <2>3
    <3>2. Place(found[i].key) <= from /\ Place(found[i].key) \in Nat
      BY <1>6, <1>7, <2>3
    <3>3. Place(found[j].key) > from /\ Place(found[j].key) \in Nat
      BY <1>4, <1>6, <3>1
    <3> QED BY <1>0, <2>1, <3>2, <3>3
  <2>4. CASE j \in 1..m /\ \E r \in 1..n : i = m + r
    <3>1. PICK r \in 1..n : i = m + r
      BY <2>4
    <3>2. Place(found[j].key) <= from /\ Place(found[j].key) \in Nat
      BY <1>6, <1>7, <2>4
    <3>3. Place(found[i].key) > from /\ Place(found[i].key) \in Nat
      BY <1>4, <1>6, <3>1
    <3> QED BY <1>0, <2>1, <3>2, <3>3
  <2>5. CASE (\E r \in 1..n : i = m + r) /\ (\E s \in 1..n : j = m + s)
    <3>1. PICK r \in 1..n : i = m + r
      BY <2>5
    <3>2. PICK s \in 1..n : j = m + s
      BY <2>5
    <3>3. taken[r] = taken[s] /\ taken[r] \in Nat
      BY <1>4, <1>6, <2>1, <3>1, <3>2
    <3>4. ~ (r < s) /\ ~ (s < r)
      BY <1>1, <3>3
    <3>5. r = s
      BY <1>5, <3>4
    <3> QED BY <3>1, <3>2, <3>5
  <2> QED BY <1>8, <2>2, <2>3, <2>4, <2>5
<1>10. \A i \in 1..n : page[i].key \in KeysOf(found)
  <2>1. SUFFICES ASSUME NEW i \in 1..n PROVE page[i].key \in KeysOf(found)
    OBVIOUS
  <2>2. m + i \in DOMAIN found /\ found[m + i] = page[i]
    <3>1. m + i \in 1..(m + n)
      BY <1>5, <1>6
    <3>2. DOMAIN found = 1..(m + n) /\ found[m + i] = page[i]
      BY <1>6
    <3> QED BY <3>1, <3>2
  <2> QED BY <2>2 DEF KeysOf
<1>11. KeysOf(entries) \subseteq KeysOf(found)
  <2>1. SUFFICES ASSUME NEW i \in DOMAIN entries PROVE entries[i].key \in KeysOf(found)
    BY DEF KeysOf
  <2>2. i \in 1..m /\ i \in DOMAIN found /\ found[i] = entries[i]
    BY <1>0, <1>5, <1>6
  <2> QED BY <2>2 DEF KeysOf
<1>12. \A key \in scan.standing : key \in LiveKeys /\ Place(key) \in Nat
                                 /\ (key \in KeysOf(entries) \/ Place(key) \in After(query, from))
  <2>1. SUFFICES ASSUME NEW key \in scan.standing
                 PROVE  key \in LiveKeys /\ Place(key) \in Nat /\ (key \in KeysOf(entries) \/ Place(key) \in After(query, from))
    OBVIOUS
  <2>2. key \in LiveKeys /\ stored[key] # 0 /\ InScope(query, key)
    BY <1>a, <2>1, KeptIsInScope DEF LiveInv
  <2>3. Place(key) \in DOMAIN KeyOrder /\ KeyOrder[Place(key)] = key /\ Place(key) \in Nat
    BY <2>2, Places
  <2>4. CASE Place(key) <= from
    BY <1>a, <2>1, <2>2, <2>3, <2>4 DEF Scanning
  <2>5. CASE ~ (Place(key) <= from)
    BY <1>0, <2>2, <2>3, <2>5 DEF After
  <2> QED BY <2>2, <2>3, <2>4, <2>5
<1>13. \A key \in scan.standing, s \in 1..n : taken[s] = Place(key) => key \in KeysOf(found)
  <2>1. SUFFICES ASSUME NEW key \in scan.standing, NEW s \in 1..n, taken[s] = Place(key)
                 PROVE  key \in KeysOf(found)
    OBVIOUS
  <2>2. page[s].key = key
    BY <1>4, <1>12, <2>1, Places
  <2> QED BY <1>10, <2>2
<1>14. ASSUME n > 0
       PROVE  /\ Place(Last(page).key) \in Nat /\ Place(Last(page).key) > from
              /\ \A i \in DOMAIN found : Place(found[i].key) <= Place(Last(page).key)
              /\ \A key \in scan.standing : Place(key) <= Place(Last(page).key) => key \in KeysOf(found)
  <2>1. n \in 1..n /\ Last(page) = page[n] /\ Place(Last(page).key) = taken[n]
    BY <1>4, <1>5, <1>14 DEF Last
  <2>2. taken[n] \in Nat /\ taken[n] > from /\ from \in Nat
    BY <1>0, <1>4, <2>1
  <2>3. ASSUME NEW i \in DOMAIN found
        PROVE  Place(found[i].key) <= taken[n]
    <3>1. CASE i \in 1..m
      <4>1. Place(found[i].key) <= from /\ Place(found[i].key) \in Nat
        BY <1>6, <1>7, <3>1
      <4> QED BY <2>2, <4>1
    <3>2. CASE \E r \in 1..n : i = m + r
      <4>1. PICK r \in 1..n : i = m + r
        BY <3>2
      <4>2. Place(found[i].key) = taken[r] /\ taken[r] \in Nat
        BY <1>4, <1>6, <4>1
      <4>3. ~ (n < r)
        BY <1>5
      <4>4. ~ (taken[n] < taken[r])
        BY <1>1, <2>1, <4>3
      <4> QED BY <2>2, <4>2, <4>4
    <3> QED BY <1>8, <3>1, <3>2
  <2>4. ASSUME NEW key \in scan.standing, Place(key) <= taken[n]
        PROVE  key \in KeysOf(found)
    <3>1. CASE key \in KeysOf(entries)
      BY <1>11, <3>1
    <3>2. CASE Place(key) \in After(query, from)
      <4>1. PICK s \in 1..n : taken[s] = Place(key)
        BY <1>1, <2>1, <2>4, <3>2
      <4> QED BY <1>13, <4>1
    <3> QED BY <1>12, <3>1, <3>2
  <2> QED BY <2>1, <2>2, <2>3, <2>4
<1>15. ASSUME n < size \/ IsOneRead(query)
       PROVE  scan.standing \subseteq KeysOf(found)
  <2>1. SUFFICES ASSUME NEW key \in scan.standing, Place(key) \in After(query, from)
                 PROVE  key \in KeysOf(found)
    BY <1>11, <1>12
  <2>2. CASE n < size
    <3>1. PICK s \in 1..n : taken[s] = Place(key)
      BY <1>1, <2>1, <2>2
    <3> QED BY <1>13, <3>1
  <2>3. CASE ~ (n < size)
    <3>1. 1 \in 1..n /\ taken[1] \in After(query, from)
      BY <1>1, <1>2, <1>5, <2>3
    <3>2. taken[1] = Place(key)
      BY <1>15, <2>1, <2>3, <3>1, OneReadIsOne
    <3> QED BY <1>13, <3>1, <3>2
  <2> QED BY <2>2, <2>3
<1> QED BY <1>a, <1>2, <1>5, <1>6, <1>9, <1>14, <1>15 DEF found, page

LEMMA ReadScanPageInv == LiveInv /\ ReadScanPage => LiveInv'
<1> SUFFICES ASSUME LiveInv, ReadScanPage PROVE LiveInv'
  OBVIOUS
<1>1. scan.state = "scanning" /\ Scanning /\ UNCHANGED stored
  BY DEF ReadScanPage, LiveInv
<1>2. PICK size : size = PageSize(Len(scan.entries))
  OBVIOUS
<1>3. size \in Nat
  <2>1. /\ Len(scan.entries) \in Nat /\ Len(scan.entries) <= MaxLiveScan
        /\ MaxLiveScan \in Nat /\ ScanPageSize \in Nat
    BY <1>1, ScanConstants DEF Scanning, LiveInv
  <2>2. PICK m : m = Len(scan.entries)
    OBVIOUS
  <2>3. size = IF MaxLiveScan + 1 - m < ScanPageSize THEN MaxLiveScan + 1 - m ELSE ScanPageSize
    BY <1>2, <2>2 DEF PageSize
  <2>4. m \in Nat /\ m <= MaxLiveScan
    BY <2>1, <2>2
  <2> QED BY ONLY <2>1, <2>3, <2>4
<1>4. PICK page, found : page = NodePage(scan.query, scan.cursor, size) /\ found = scan.entries \o page
  OBVIOUS
<1>5. /\ page \in Seq(Rows) /\ Len(page) <= size /\ size > 0
      /\ found \in Seq(Rows) /\ Len(found) = Len(scan.entries) + Len(page) /\ Distinct(found)
      /\ Len(page) > 0 =>
           /\ Place(Last(page).key) \in Nat /\ Place(Last(page).key) > scan.cursor
           /\ \A i \in DOMAIN found : Place(found[i].key) <= Place(Last(page).key)
           /\ \A key \in scan.standing : Place(key) <= Place(Last(page).key) => key \in KeysOf(found)
      /\ Len(page) < size \/ IsOneRead(scan.query) => scan.standing \subseteq KeysOf(found)
  BY <1>1, <1>2, <1>3, <1>4, FoundHolds
<1>6. \A key \in scan.standing : key \in LiveKeys /\ stored[key] # 0 /\ Keeps(scan.query, key)
  BY DEF LiveInv
<1>7. DOMAIN scan = ScanFields /\ stored \in [LiveKeys -> {0} \cup Values]
  BY DEF LiveInv
<1> DEFINE full == Len(found) > MaxLiveScan
<1> DEFINE goesOn == Len(page) = size /\ size > 0 /\ ~full /\ ~IsOneRead(scan.query)
<1>8. scan' = IF goesOn THEN [scan EXCEPT !.entries = found, !.cursor = Place(Last(page).key)]
              ELSE [scan EXCEPT !.state = "ranking", !.truncated = full,
                      !.entries = SubSeq(found, 1, IF full THEN MaxLiveScan ELSE Len(found))]
  BY <1>2, <1>4 DEF ReadScanPage
<1>9. CASE goesOn
  <2>1. /\ DOMAIN scan' = ScanFields /\ scan'.state = "scanning" /\ scan'.entries = found
        /\ scan'.cursor = Place(Last(page).key) /\ scan'.query = scan.query /\ scan'.standing = scan.standing
    BY <1>1, <1>7, <1>8, <1>9 DEF ScanFields
  <2>2. Len(page) > 0 /\ Len(found) \in Nat /\ Len(found) <= MaxLiveScan /\ ~ IsOneRead(scan.query)
    BY <1>3, <1>5, <1>9, ScanConstants
  <2>3. Scanning'
    BY <1>5, <2>1, <2>2 DEF Scanning
  <2> QED BY <1>1, <1>5, <1>6, <1>7, <2>1, <2>3 DEF LiveInv
<1>10. CASE ~goesOn
  <2> DEFINE cut == SubSeq(found, 1, IF full THEN MaxLiveScan ELSE Len(found))
  <2>1. /\ DOMAIN scan' = ScanFields /\ scan'.state = "ranking" /\ scan'.entries = cut
        /\ scan'.truncated = full /\ scan'.query = scan.query /\ scan'.standing = scan.standing
    BY <1>7, <1>8, <1>10 DEF ScanFields
  <2>2. PICK n : n = IF full THEN MaxLiveScan ELSE Len(found)
    OBVIOUS
  <2>3. n \in Nat /\ n <= Len(found) /\ (~full => n = Len(found)) /\ Len(found) \in Nat /\ DOMAIN found = 1..Len(found)
    BY <1>5, <2>2, ScanConstants
  <2>4. cut = [i \in 1..n |-> found[i]]
    BY <1>5, <2>2, <2>3
  <2> HIDE DEF cut
  <2>5. \A i \in 1..n : i \in DOMAIN found /\ found[i] \in Rows
    BY <1>5, <2>3
  <2>6. cut \in Seq(Rows)
    <3>1. cut \in [1..n -> Rows]
      BY <2>4, <2>5
    <3>2. n \in Nat
      BY <2>3
    <3> QED BY ONLY <3>1, <3>2
  <2>7. Distinct(cut)
    BY <1>5, <2>4, <2>5 DEF Distinct
  <2>8. ~full => scan.standing \subseteq KeysOf(cut)
    <3>1. SUFFICES ASSUME ~full PROVE scan.standing \subseteq KeysOf(cut)
      OBVIOUS
    <3>2. Len(page) < size \/ IsOneRead(scan.query)
      BY <1>3, <1>5, <1>10, <3>1
    <3>3. KeysOf(found) \subseteq KeysOf(cut)
      BY <2>3, <2>4, <3>1 DEF KeysOf
    <3> QED BY <1>5, <3>2, <3>3
  <2> QED BY <1>1, <1>6, <1>7, <2>1, <2>6, <2>7, <2>8 DEF LiveInv
<1> QED BY <1>9, <1>10

LEMMA RankScanInv == LiveInv /\ RankScan => LiveInv'
<1> SUFFICES ASSUME LiveInv, RankScan PROVE LiveInv'
  OBVIOUS
<1>1. PICK ranked, shown : ranked = Ranked(scan.query, scan.entries)
        /\ scan' = [scan EXCEPT !.state = "describing", !.window = shown, !.entries = ranked]
  BY DEF RankScan
<1>2. scan.state = "ranking" /\ UNCHANGED stored
  BY DEF RankScan
<1>3. /\ DOMAIN scan' = ScanFields /\ scan'.state = "describing" /\ scan'.entries = ranked
      /\ scan'.truncated = scan.truncated /\ scan'.query = scan.query /\ scan'.standing = scan.standing
  BY <1>1 DEF ScanFields, LiveInv
<1>4. /\ ranked \in Seq(Rows) /\ Distinct(ranked)
      /\ \A i \in DOMAIN scan.entries : Keeps(scan.query, scan.entries[i].key) => scan.entries[i].key \in KeysOf(ranked)
  BY <1>1, RankedKeeps DEF LiveInv
<1>5. ~scan.truncated => scan.standing \subseteq KeysOf(ranked)
  <2>1. SUFFICES ASSUME ~scan.truncated, NEW key \in scan.standing PROVE key \in KeysOf(ranked)
    OBVIOUS
  <2>2. key \in KeysOf(scan.entries) /\ Keeps(scan.query, key)
    BY <1>2, <2>1 DEF LiveInv
  <2>3. PICK i \in DOMAIN scan.entries : scan.entries[i].key = key
    BY <2>2 DEF KeysOf
  <2> QED BY <1>4, <2>2, <2>3
<1> QED BY <1>2, <1>3, <1>4, <1>5 DEF LiveInv

\* The other steps of a request leave alone what was read.
LEMMA OtherScanStepsInv ==
  LiveInv /\ (DescribeRow \/ AnswerScan \/ (\E query \in Queries : BeginScan(query)) \/ UNCHANGED liveVars) => LiveInv'
<1> SUFFICES ASSUME LiveInv, DescribeRow \/ AnswerScan \/ (\E query \in Queries : BeginScan(query)) \/ UNCHANGED liveVars
             PROVE  LiveInv'
  OBVIOUS
<1>1. UNCHANGED stored /\ stored \in [LiveKeys -> {0} \cup Values]
  BY DEF LiveInv, DescribeRow, AnswerScan, BeginScan, liveVars
<1>2. CASE DescribeRow
  <2>1. PICK shown, items : scan' = [scan EXCEPT !.window = shown, !.items = items]
    BY <1>2 DEF DescribeRow
  <2>2. /\ DOMAIN scan' = ScanFields /\ scan'.state = "describing" /\ scan'.entries = scan.entries
        /\ scan'.truncated = scan.truncated /\ scan'.query = scan.query /\ scan'.standing = scan.standing
        /\ scan.state = "describing"
    BY <1>2, <2>1 DEF ScanFields, LiveInv, DescribeRow
  <2> QED BY <1>1, <2>2 DEF LiveInv
<1>3. CASE AnswerScan
  <2>1. scan' = Quiet
    BY <1>3 DEF AnswerScan
  <2>2. /\ DOMAIN scan' = ScanFields /\ scan'.state = "idle" /\ scan'.entries = <<>> /\ scan'.standing = {}
    BY <2>1 DEF Quiet, ScanFields
  <2>3. Distinct(<<>>) /\ <<>> \in Seq(Rows)
    BY DEF Distinct
  <2> QED BY <1>1, <2>2, <2>3 DEF LiveInv
<1>4. CASE \E query \in Queries : BeginScan(query)
  <2>1. PICK query \in Queries : BeginScan(query)
    BY <1>4
  <2>2. /\ DOMAIN scan' = ScanFields /\ scan'.state = "scanning" /\ scan'.entries = <<>> /\ scan'.cursor = 0
        /\ scan'.query = query /\ scan'.standing = {key \in LiveKeys : stored[key] # 0 /\ Keeps(query, key)}
    BY <2>1 DEF BeginScan, Quiet, ScanFields
  <2>3. Distinct(<<>>) /\ <<>> \in Seq(Rows)
    BY DEF Distinct
  <2>4. \A key \in LiveKeys : Place(key) \in Nat /\ Place(key) > 0
    BY Places
  <2>5. Scanning'
    BY <2>2, <2>4, ScanConstants DEF Scanning
  <2> QED BY <1>1, <2>2, <2>3, <2>5 DEF LiveInv
<1>5. CASE UNCHANGED liveVars
  BY <1>5 DEF liveVars, LiveInv, Scanning
<1> QED BY <1>2, <1>3, <1>4, <1>5

\* Blocks add to the map and take from it.
LEMMA MapStepsInv ==
  ASSUME LiveInv, NEW key \in LiveKeys, TakeEntry(key) \/ \E value \in Values : PutEntry(key, value)
  PROVE  LiveInv'
<1>1. CASE TakeEntry(key)
  <2>1. /\ stored' = [stored EXCEPT ![key] = 0] /\ scan' = [scan EXCEPT !.standing = scan.standing \ {key}]
    BY <1>1 DEF TakeEntry
  <2>2. /\ DOMAIN scan' = ScanFields /\ scan'.state = scan.state /\ scan'.entries = scan.entries
        /\ scan'.cursor = scan.cursor /\ scan'.truncated = scan.truncated /\ scan'.query = scan.query
        /\ scan'.standing = scan.standing \ {key}
    BY <2>1 DEF LiveInv, ScanFields
  <2>3. stored' \in [LiveKeys -> {0} \cup Values] /\ \A k \in LiveKeys : k # key => stored'[k] = stored[k]
    BY <2>1 DEF LiveInv
  <2>4. \A k \in scan'.standing : k \in LiveKeys /\ stored'[k] # 0 /\ Keeps(scan'.query, k)
    BY <2>2, <2>3 DEF LiveInv
  <2>5. Scanning => Scanning'
    BY <2>2 DEF Scanning
  <2> QED BY <2>2, <2>3, <2>4, <2>5 DEF LiveInv
<1>2. CASE \E value \in Values : PutEntry(key, value)
  <2>1. PICK value \in Values : stored' = [stored EXCEPT ![key] = value] /\ scan' = scan
    BY <1>2 DEF PutEntry
  <2>2. value # 0
    BY ScanConstants
  <2>3. stored' \in [LiveKeys -> {0} \cup Values] /\ \A k \in LiveKeys : stored'[k] = IF k = key THEN value ELSE stored[k]
    BY <2>1 DEF LiveInv
  <2>4. \A k \in scan.standing : k \in LiveKeys /\ stored'[k] # 0 /\ Keeps(scan.query, k)
    BY <2>2, <2>3 DEF LiveInv
  <2>5. Scanning => Scanning'
    BY <2>1 DEF Scanning
  <2> QED BY <2>1, <2>3, <2>4, <2>5 DEF LiveInv
<1> QED BY <1>1, <1>2

LEMMA LiveStep == LiveInv /\ [LiveNext]_liveVars => LiveInv'
BY ReadScanPageInv, RankScanInv, OtherScanStepsInv, MapStepsInv DEF LiveNext

LEMMA LiveStart == LiveInit => LiveInv
<1> SUFFICES ASSUME LiveInit PROVE LiveInv
  OBVIOUS
<1>1. /\ DOMAIN scan = ScanFields /\ scan.state = "idle" /\ scan.entries = <<>> /\ scan.standing = {}
      /\ stored \in [LiveKeys -> {0} \cup Values]
  BY DEF LiveInit, Quiet, ScanFields
<1>2. Distinct(<<>>) /\ <<>> \in Seq(Rows)
  BY DEF Distinct
<1> QED BY <1>1, <1>2 DEF LiveInv

\* A scan that does not call itself truncated holds, once each, every entry
\* that matched throughout (chainState.ts: the cursor is a key, one entry more
\* than the ceiling is asked for), whatever blocks do between its pages.
THEOREM ScansSeeStanding == LiveInit /\ [][LiveNext]_liveVars => []ScanSeesStanding
<1>1. LiveInv => ScanSeesStanding
  <2> SUFFICES ASSUME LiveInv, scan.state = "describing" PROVE ScanSeesStanding
    BY DEF ScanSeesStanding
  <2>1. ~scan.truncated => scan.standing \subseteq KeysOf(scan.entries)
    BY DEF LiveInv
  <2>2. Cardinality(KeysOf(scan.entries)) = Len(scan.entries)
    BY KeysCount DEF LiveInv
  <2>3. EscrowStats.pairs = Cardinality(KeysOf(scan.entries)) /\ EscrowStats.enumerated = Len(scan.entries)
    BY DEF EscrowStats, KeysOf
  <2> QED BY <2>1, <2>2, <2>3 DEF ScanSeesStanding, KeysOf
<1> QED BY <1>1, LiveStart, LiveStep, PTL
=============================================================================
