---------------------------- MODULE NetworkPage ----------------------------
(***************************************************************************)
(* The /network page in one reader's browser: a tick reads the node over   *)
(* the shared socket, then the indexer over HTTPS, and sets the timer of   *)
(* the next tick.  The reader hides and shows the tab and presses filter   *)
(* chips while all of that is under way.                                   *)
(*                                                                         *)
(* Calls made side by side, which fail together, are one call; what it     *)
(* returns is read at the node when it answers, and arrives later.  Of the *)
(* figures the height stands for all; the marks and words a failed read    *)
(* leaves on the page, and the blocks already read, are left out.          *)
(***************************************************************************)
EXTENDS Integers, LiveSocket

CONSTANTS
  MaxHead,       \* bound: the node's last block
  SlowEvery,     \* every how many ticks the indexer's lists are read
  Kinds, All,    \* the chips, All the one pressed at first
  Nil

VARIABLES
  tip,          \* the node's best block
  rpc,           \* the socket (LiveSocket)
  node,          \* the tick's read of the node: [step, wait, via, tip]
  visible, busy, timer, tick,
  pressed,       \* the chip that is pressed
  reads,         \* activity reads in flight: of the tick, of a chip
  lists,         \* the tick's read of the lists is in flight
  head, table    \* what the page shows: the height, and the kind of the rows

loopVars == <<visible, busy, timer, tick>>
indexerVars == <<pressed, reads, lists, table>>
pageVars == <<tip, rpc, node, loopVars, indexerVars, head>>

NoRead == [step |-> "none", wait |-> "none", via |-> NoSocket, tip |-> 0]

PageInit ==
  /\ tip = 0 /\ rpc = RpcIdle /\ node = NoRead
  /\ visible \in BOOLEAN /\ timer = visible /\ busy = FALSE /\ tick = 0
  /\ pressed = All /\ reads = [tick |-> Nil, chip |-> Nil] /\ lists = FALSE
  /\ head = 0 /\ table = Nil

-----------------------------------------------------------------------------
(* Calls.                                                                  *)

\* A tick's first calls: sent, or waiting for the socket.
Ask(socket) ==
  IF IsOpen(socket)
  THEN [NoRead EXCEPT !.step = "heads", !.wait = "sent", !.via = socket.current]
  ELSE [NoRead EXCEPT !.step = "heads", !.wait = "connect"]

\* What the tick does after the node, whether it was read or not: the activity,
\* and now and then the lists.
ReadIndexer ==
  /\ node' = NoRead
  /\ reads' = [reads EXCEPT !.tick = pressed]
  /\ lists' = (tick = 1 % SlowEvery)
  /\ UNCHANGED <<pressed, table>>

-----------------------------------------------------------------------------
(* The loop.                                                               *)

\* tick(), with the reader's tab and socket as they are by then.
Tick(socket) ==
  LET opened == Connect(socket, FALSE)
  IN  IF busy THEN UNCHANGED <<busy, timer, tick, node>> /\ rpc' = socket
      ELSE /\ MayConnect(socket)
           /\ busy' = TRUE /\ timer' = FALSE
           /\ tick' = (tick + 1) % SlowEvery
           /\ rpc' = opened
           /\ node' = Ask(opened)

TimerFires ==
  /\ timer /\ ~busy
  /\ Tick(rpc)
  /\ UNCHANGED <<tip, visible, indexerVars, head>>

Hide ==
  /\ visible
  /\ visible' = FALSE /\ timer' = FALSE
  /\ rpc' = Paused(rpc)
  /\ UNCHANGED <<tip, node, busy, tick, indexerVars, head>>

\* Calls that were sent are still pending until their socket's close event.
Waiting == node.wait \in {"sent", "answered"}

\* A mutant: the next tick is left to the timer.
ShowOnly ==
  /\ ~visible
  /\ visible' = TRUE
  /\ MayConnect([rpc EXCEPT !.paused = FALSE])
  /\ rpc' = Resumed(rpc, Waiting)
  /\ UNCHANGED <<tip, node, busy, timer, tick, indexerVars, head>>

Show ==
  /\ ~visible
  /\ visible' = TRUE
  /\ MayConnect([rpc EXCEPT !.paused = FALSE])
  /\ Tick(Resumed(rpc, Waiting))
  /\ UNCHANGED <<tip, indexerVars, head>>

\* The last of a tick's reads is done.
EndTick(ends) ==
  /\ busy' = (busy /\ ~ends)
  /\ timer' = IF ends THEN visible ELSE timer

-----------------------------------------------------------------------------
(* The socket.                                                             *)

SocketOpens ==
  /\ rpc.opening # NoSocket
  /\ rpc' = Opened(rpc, rpc.opening)
  /\ node' = IF node.wait = "connect" THEN [node EXCEPT !.wait = "sent", !.via = rpc.opening] ELSE node
  /\ UNCHANGED <<tip, loopVars, indexerVars, head>>

OpeningTimesOut ==
  /\ rpc.opening # NoSocket
  /\ rpc' = GaveUpOpening(rpc)
  /\ IF node.wait = "connect" THEN ReadIndexer ELSE UNCHANGED <<node, indexerVars>>
  /\ UNCHANGED <<tip, loopVars, head>>

\* The other side closes, or the network is gone: the close event follows.
SocketDrops(s) ==
  /\ rpc.state[s] = "open"
  /\ rpc' = [rpc EXCEPT !.state[s] = "closing"]
  /\ UNCHANGED <<tip, node, loopVars, indexerVars, head>>

\* Every pending call fails, whichever socket it was sent on.
SocketCloses(s) ==
  /\ rpc.state[s] \in {"connecting", "closing"}
  /\ rpc' = Closed(rpc, s)
  /\ IF Waiting \/ (node.wait = "connect" /\ rpc.opening = s) THEN ReadIndexer
     ELSE UNCHANGED <<node, indexerVars>>
  /\ UNCHANGED <<tip, loopVars, head>>

Reconnects ==
  /\ rpc.timer
  /\ MayReconnect(rpc)
  /\ rpc' = RetryFires(rpc)
  /\ UNCHANGED <<tip, node, loopVars, indexerVars, head>>

-----------------------------------------------------------------------------
(* The node.                                                               *)

NodeMoves ==
  /\ tip < MaxHead
  /\ tip' = tip + 1
  /\ UNCHANGED <<rpc, node, loopVars, indexerVars, head>>

NodeAnswers ==
  /\ node.wait = "sent" /\ rpc.state[node.via] = "open"
  /\ node' = IF node.step = "heads"
             THEN [node EXCEPT !.wait = "answered", !.tip = tip]
             ELSE [node EXCEPT !.wait = "answered"]
  /\ UNCHANGED <<tip, rpc, loopVars, indexerVars, head>>

\* A closing socket delivers nothing more.  The heads are followed by the
\* blocks of the window, and only then is the height replaced.
AnswerArrives ==
  /\ node.wait = "answered" /\ rpc.state[node.via] = "open"
  /\ IF node.step = "heads"
     THEN node' = [node EXCEPT !.step = "blocks", !.wait = "sent"] /\ UNCHANGED <<indexerVars, head>>
     ELSE head' = node.tip /\ ReadIndexer
  /\ UNCHANGED <<tip, rpc, loopVars>>

\* An error, or no answer in time; an answer that comes later finds no call.
CallFails ==
  /\ Waiting
  /\ ReadIndexer
  /\ UNCHANGED <<tip, rpc, loopVars, head>>

-----------------------------------------------------------------------------
(* The indexer.                                                            *)

Press(chip) ==
  /\ reads.chip = Nil        \* bound: one chip's read at a time beside the tick's
  /\ pressed' = chip
  /\ reads' = [reads EXCEPT !.chip = chip]
  /\ UNCHANGED <<tip, rpc, node, loopVars, lists, table, head>>

\* Rows of a chip that is no longer pressed are dropped.
StillPressed(asked) == asked = pressed

ActivityDone(by) ==
  /\ reads[by] # Nil
  /\ reads' = [reads EXCEPT ![by] = Nil]
  /\ EndTick(by = "tick" /\ ~lists)
  /\ UNCHANGED <<tip, rpc, node, visible, tick, pressed, lists, head>>

ActivityArrives(by) ==
  /\ ActivityDone(by)
  /\ IF StillPressed(reads[by])
     THEN table' = reads[by] ELSE UNCHANGED table

ActivityFails(by) ==
  /\ ActivityDone(by)
  /\ UNCHANGED table

\* Whichever of the lists failed.
ListsDone ==
  /\ lists
  /\ lists' = FALSE
  /\ EndTick(reads.tick = Nil)
  /\ UNCHANGED <<tip, rpc, node, visible, tick, pressed, reads, table, head>>

-----------------------------------------------------------------------------

NodeReadStep == SocketOpens \/ OpeningTimesOut \/ NodeAnswers \/ AnswerArrives \/ CallFails

ActivityStep(by) == ActivityArrives(by) \/ ActivityFails(by)

PageNext ==
  \/ TimerFires \/ Hide \/ Show
  \/ NodeReadStep \/ NodeMoves \/ Reconnects
  \/ \E s \in Sockets : SocketDrops(s) \/ SocketCloses(s)
  \/ \E chip \in Kinds : Press(chip)
  \/ \E by \in {"tick", "chip"} : ActivityStep(by)
  \/ ListsDone

\* Every call and request has a timer, the tick has one, and a socket that is
\* closed gets its close event.  Nothing is assumed of the node, the network
\* or the reader.
PageFairness ==
  /\ WF_pageVars(TimerFires)
  /\ WF_pageVars(node # NoRead /\ NodeReadStep)
  /\ WF_pageVars(ActivityStep("tick") \/ ListsDone)
  /\ \A s \in Sockets : WF_pageVars(rpc.state[s] = "closing" /\ SocketCloses(s))

PageSpec == PageInit /\ [][PageNext]_pageVars /\ PageFairness

-----------------------------------------------------------------------------
(* Properties.                                                             *)

\* A page that stays in view keeps reading: ticks end and new ones begin,
\* wherever hiding, showing, a lost socket or a read without an answer caught
\* the one before (main.js tick: busy and the timer are shared by all of them).
PollingGoesOn == <>[]visible => ([]<>busy /\ []<>~busy)

=============================================================================
