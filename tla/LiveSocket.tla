----------------------------- MODULE LiveSocket -----------------------------
(***************************************************************************)
(* The one WebSocket a page of the site shares for its JSON-RPC calls, as  *)
(* functions from its state to the next: it is opened by the first call,   *)
(* reopened after a loss, and closed while the tab is hidden.  A socket    *)
(* that was closed still owes its close event, so two may be alive.        *)
(*                                                                         *)
(* A state is [state, current, opening, retrying, timer, paused].  The     *)
(* delay of a reconnect (it doubles up to 30 s) is left out, and so are    *)
(* subscriptions, which no page uses.                                      *)
(***************************************************************************)
CONSTANTS Sockets, NoSocket

RpcIdle ==
  [state    |-> [s \in Sockets |-> "none"],    \* none, connecting, open, closing
   current  |-> NoSocket,                      \* the socket calls are sent on
   opening  |-> NoSocket,                      \* the one whose connect() is unsettled
   retrying |-> FALSE,                         \* that connect() is a reconnect's
   timer    |-> FALSE,                         \* a reconnect is scheduled
   paused   |-> FALSE]

IsOpen(rpc) == rpc.current # NoSocket /\ rpc.state[rpc.current] = "open"

Unused(rpc) == {s \in Sockets : rpc.state[s] = "none"}

\* connect() has nothing to open, or a socket to open it with (bound: Sockets).
MayConnect(rpc) == IsOpen(rpc) \/ rpc.opening # NoSocket \/ rpc.paused \/ Unused(rpc) # {}

\* Bound: a reconnect leaves a socket to the calls of the page.
MayReconnect(rpc) ==
  IsOpen(rpc) \/ rpc.opening # NoSocket \/ \E s, t \in Unused(rpc) : s # t

\* An opening socket is joined even by a paused page; only then is it refused.
Connect(rpc, retrying) ==
  IF IsOpen(rpc) \/ rpc.opening # NoSocket \/ rpc.paused THEN rpc
  ELSE LET s == CHOOSE s \in Unused(rpc) : TRUE
       IN  [rpc EXCEPT !.state[s] = "connecting", !.opening = s, !.retrying = retrying]

ScheduleReconnect(rpc) == [rpc EXCEPT !.timer = @ \/ ~rpc.paused]

\* onopen, whether or not the page was hidden meanwhile.
Opened(rpc, s) == [rpc EXCEPT !.state[s] = "open", !.current = s, !.opening = NoSocket]

\* The connection timer: only a reconnect schedules the next one here, the
\* others when the close event arrives.
GaveUpOpening(rpc) ==
  LET closing == [rpc EXCEPT !.state[rpc.opening] = "closing", !.opening = NoSocket]
  IN  IF rpc.retrying THEN ScheduleReconnect(closing) ELSE closing

\* onclose, of whichever socket.
Closed(rpc, s) ==
  ScheduleReconnect([rpc EXCEPT !.state[s] = "none",
                                !.current = IF @ = s THEN NoSocket ELSE @,
                                !.opening = IF @ = s THEN NoSocket ELSE @])

RetryFires(rpc) == Connect([rpc EXCEPT !.timer = FALSE], TRUE)

Paused(rpc) ==
  [rpc EXCEPT !.paused = TRUE, !.timer = FALSE, !.current = NoSocket,
              !.state = [s \in Sockets |-> IF s = rpc.current THEN "closing" ELSE @[s]]]

Resumed(rpc, waiting) ==
  IF ~rpc.paused THEN rpc
  ELSE IF waiting THEN Connect([rpc EXCEPT !.paused = FALSE], FALSE)
  ELSE [rpc EXCEPT !.paused = FALSE]

=============================================================================
