-------------------------- MODULE LiquidationStream --------------------------
(***************************************************************************)
(* The WebSocket of the worker's liquidations job: connect, reconnect with *)
(* backoff after a close, stop.  Callbacks of the socket, timers and stop  *)
(* come in any order.  Messages and the pruning of the buffer change       *)
(* nothing here; of the backoff only that it ends is kept.                 *)
(***************************************************************************)
EXTENDS Naturals

CONSTANT MaxReconnects \* bound on reconnectAttempts

ASSUME StreamAssumption == MaxReconnects \in Nat \ {0}

VARIABLES
  socket,      \* readyState of state.socket, "none" for null
  abandoned,   \* sockets nobody refers to whose close event is still to come
  reconnects,  \* reconnect timers that are armed
  heartbeat,   \* the heartbeat timer is armed
  pruning,     \* the prune timer is armed
  attempts,    \* reconnectAttempts
  streamState  \* "idle", "started", or "stopped": intentionallyClosed

streamVars == <<socket, abandoned, reconnects, heartbeat, pruning, attempts, streamState>>

-----------------------------------------------------------------------------

\* A bug to catch: a stream that was stopped reconnects as well.
AlwaysReconnects == TRUE

\* Not intentionallyClosed.
WantsStream == streamState # "stopped"

\* scheduleReconnect, when left timers are armed.
ScheduleReconnect(left) ==
  IF WantsStream
  THEN /\ reconnects' = left + 1
       /\ attempts' = IF attempts < MaxReconnects THEN attempts + 1 ELSE attempts
  ELSE /\ reconnects' = left
       /\ UNCHANGED attempts

\* connect, when left timers are armed: the socket is constructed, or that
\* fails at once.
Connect(left) ==
  IF socket \in {"CONNECTING", "OPEN"}
  THEN /\ reconnects' = left
       /\ UNCHANGED <<socket, attempts>>
  ELSE \/ /\ socket' = "CONNECTING"
          /\ reconnects' = left
          /\ UNCHANGED attempts
       \/ /\ ScheduleReconnect(left)
          /\ UNCHANGED socket

StreamStarts ==
  /\ streamState = "idle"
  /\ streamState' = "started"
  /\ Connect(reconnects)
  /\ pruning' = TRUE
  /\ UNCHANGED <<abandoned, heartbeat>>

ReconnectFires ==
  /\ reconnects > 0
  /\ Connect(reconnects - 1)
  /\ UNCHANGED <<abandoned, heartbeat, pruning, streamState>>

SocketOpens ==
  /\ socket = "CONNECTING"
  /\ socket' = "OPEN"
  /\ attempts' = 0
  /\ heartbeat' = TRUE
  /\ UNCHANGED <<abandoned, reconnects, pruning, streamState>>

\* A bug to catch: the close handler does not reconnect.
StaysClosed == UNCHANGED <<reconnects, attempts>>

\* clearTimers has run, and a reconnect is scheduled.
Reconnects == ScheduleReconnect(0)

\* The close event: clearTimers, forget the socket, scheduleReconnect.
OnClose ==
  /\ heartbeat' = FALSE
  /\ socket' = "none"
  /\ Reconnects

\* The connection fails, is refused or breaks.
SocketCloses ==
  /\ socket \in {"CONNECTING", "OPEN"}
  /\ OnClose
  /\ UNCHANGED <<abandoned, pruning, streamState>>

\* The handler of a socket that stop has closed.
LateClose ==
  /\ abandoned > 0
  /\ abandoned' = abandoned - 1
  /\ OnClose
  /\ UNCHANGED <<pruning, streamState>>

StreamStops ==
  /\ streamState = "started"
  /\ streamState' = "stopped"
  /\ heartbeat' = FALSE
  /\ reconnects' = 0
  /\ pruning' = FALSE
  /\ socket' = "none"
  /\ abandoned' = IF socket = "none" THEN abandoned ELSE abandoned + 1
  /\ UNCHANGED attempts

StreamInit ==
  /\ socket = "none"
  /\ abandoned = 0
  /\ reconnects = 0
  /\ heartbeat = FALSE
  /\ pruning = FALSE
  /\ attempts = 0
  /\ streamState = "idle"

StreamNext ==
  \/ StreamStarts \/ ReconnectFires \/ SocketOpens \/ SocketCloses \/ LateClose \/ StreamStops

StreamSpec == StreamInit /\ [][StreamNext]_streamVars

-----------------------------------------------------------------------------
(* Properties *)

Live == IF socket = "none" THEN 0 ELSE 1

\* The stream's state is well-formed.
StreamTypeOK ==
  /\ socket \in {"none", "CONNECTING", "OPEN"}
  /\ abandoned \in Nat /\ reconnects \in Nat
  /\ heartbeat \in BOOLEAN /\ pruning \in BOOLEAN
  /\ attempts \in 0..MaxReconnects
  /\ streamState \in {"idle", "started", "stopped"}

\* There is never a second connection, nor a reconnect on its way beside a
\* connection, through any order of callbacks; a started stream always has one
\* of the two, so a close is never the end of it; and after stop nothing is
\* left but the close event of the socket, which starts nothing.
OneStream ==
  /\ Live + abandoned + reconnects <= 1
  /\ streamState = "started" => Live + reconnects = 1
  /\ streamState = "stopped" => Live + reconnects = 0 /\ ~heartbeat /\ ~pruning
  /\ heartbeat => socket = "OPEN"

\* A stream that is not stopped is connected again and again.
StreamComesBack == [](streamState = "started" => <>(socket = "OPEN" \/ streamState = "stopped"))

=============================================================================
