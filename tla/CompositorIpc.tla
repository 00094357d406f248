---- MODULE CompositorIpc ----
(***************************************************************************)
(* The compositor's end of compositor.sock (compositor_ipc.c).             *)
(*                                                                         *)
(* The compositor is the client of the socket and playos-init the server.  *)
(* This module is the descriptor, its event source and the reconnect       *)
(* timer, with one action per callback, and what the peer of the current   *)
(* connection has been told.  Messages that arrive are dispatched by the   *)
(* modules that extend this one; the state they change is theirs.          *)
(***************************************************************************)
EXTENDS Naturals

CONSTANTS
    Tokens,     \* launch tokens playos-init hands out
    NoToken,    \* the empty launch token
    NoReport,   \* nothing sent yet on this connection
    BaseDelay,  \* first reconnect delay (100 ms in the code)
    MaxDelay    \* longest reconnect delay (5000 ms in the code)

ASSUME TokenAssumption  == NoToken \notin Tokens
ASSUME DelayAssumption  == /\ BaseDelay \in Nat \ {0}
                           /\ MaxDelay \in Nat
                           /\ BaseDelay <= MaxDelay

\* The wire names of enum playos_foreground_state.
ForegroundStates ==
    {"SHELL_FOREGROUND", "GAME_STARTING", "GAME_FOREGROUND",
     "PLAYOS_UI_FOREGROUND_WITH_GAME_BACKGROUND", "TERMINATING_GAME"}

ASSUME ReportAssumption == NoReport \notin ForegroundStates

VARIABLES
    link,             \* "down": compositor_sock_fd < 0; "up"; "hung": the fd is
                      \* still open but the peer has closed its end
    reconnect_timer,  \* ipc_reconnect_timer: "none", "armed", or "idle" (exists
                      \* and will not fire)
    reconnect_delay,  \* ipc_reconnect_delay_ms
    reported,         \* last CompositorStateChanged the current peer was sent
    ready_reported,   \* launch token of the last GameSurfaceReady it was sent
    alive             \* the compositor process has not been killed

linkVars == <<link, reconnect_timer, reconnect_delay>>
sendVars == <<reported, alive>>
wireVars == <<sendVars, ready_reported>>
ipcVars  == <<linkVars, wireVars>>

IpcTypeOK ==
    /\ link \in {"down", "up", "hung"}
    /\ reconnect_timer \in {"none", "idle", "armed"}
    /\ reconnect_delay \in BaseDelay .. MaxDelay
    /\ reported \in ForegroundStates \cup {NoReport}
    /\ ready_reported \in Tokens \cup {NoToken}
    /\ alive \in BOOLEAN

\* A new connection has a peer that has been told nothing.
FreshWire ==
    /\ reported' = NoReport
    /\ ready_reported' = NoToken
    /\ UNCHANGED alive

(* ipc_start: connect at once or schedule the first retry. *)
IpcInit ==
    /\ reconnect_delay = BaseDelay
    /\ reported = NoReport
    /\ ready_reported = NoToken
    /\ alive = TRUE
    /\ \/ link = "up"   /\ reconnect_timer = "none"
       \/ link = "down" /\ reconnect_timer = "armed"

(* frame_send: send() without MSG_NOSIGNAL, and no handler for SIGPIPE        *)
(* anywhere.  A peer that has closed its end refuses the message, and the     *)
(* signal kills the compositor unless it was started with the signal ignored; *)
(* what its parent set is not in this code.                                   *)
Send == alive' \in IF link = "hung" THEN BOOLEAN ELSE {alive}

(* playos_compositor_ipc_send: dropped without a descriptor.  There is no     *)
(* queue: a message that is not accepted now is never sent again.             *)
ReportState(state) ==
    /\ Send
    /\ reported' = IF link = "up" THEN state ELSE reported

ReportReady(token) ==
    /\ Send
    /\ ready_reported' = IF link = "up" THEN token ELSE ready_reported

(* ipc_disconnect, then ipc_schedule_reconnect, which leaves a timer that is *)
(* already there alone.                                                      *)
IpcHangup ==
    /\ link = "hung"
    /\ link' = "down"
    /\ reconnect_timer' = IF reconnect_timer = "none" THEN "armed" ELSE reconnect_timer
    /\ UNCHANGED <<reconnect_delay, wireVars>>

(* ipc_reconnect_handler, connect() succeeded. *)
\* Mutant: the back-off is not restarted.
MutIpcReconnected ==
    /\ reconnect_timer = "armed"
    /\ link' = "up"
    /\ reconnect_timer' = "none"
    /\ FreshWire
    /\ UNCHANGED reconnect_delay

IpcReconnected ==
    /\ reconnect_timer = "armed"
    /\ link' = "up"
    /\ reconnect_delay' = BaseDelay
    /\ reconnect_timer' = "none"
    /\ FreshWire

(* ipc_reconnect_handler, connect() failed: double up to the cap, re-arm. *)
\* Mutant: no cap.
MutNextDelay(d) == 2 * d

NextDelay(d) ==
    LET doubled == IF d < MaxDelay THEN 2 * d ELSE d
    IN  IF doubled > MaxDelay THEN MaxDelay ELSE doubled

\* Mutant: the timer is not armed again.
MutIpcRetryFailed ==
    /\ reconnect_timer = "armed"
    /\ reconnect_delay' = NextDelay(reconnect_delay)
    /\ reconnect_timer' = "idle"
    /\ UNCHANGED <<link, wireVars>>

IpcRetryFailed ==
    /\ reconnect_timer = "armed"
    /\ reconnect_delay' = NextDelay(reconnect_delay)
    /\ reconnect_timer' = "armed"
    /\ UNCHANGED <<link, wireVars>>

(* External: playos-init closes the connection (it restarts, or drops us). *)
PeerCloses ==
    /\ link = "up"
    /\ link' = "hung"
    /\ UNCHANGED <<reconnect_timer, reconnect_delay, wireVars>>

-----------------------------------------------------------------------------

\* Exactly one of a descriptor and a pending retry: a connection never keeps a
\* timer that would open a second one over it, and a lost connection is never
\* left without a retry (compositor_ipc.c ipc_fd_handler, ipc_reconnect_handler).
LinkOrRetry ==
    /\ link = "down"  => reconnect_timer = "armed"
    /\ link # "down" => reconnect_timer = "none"

\* A connection that succeeded restarts the back-off, so the first retry after
\* the next loss is quick (compositor_ipc.c ipc_reconnect_handler line 219).
BackoffRestarts == link # "down" => reconnect_delay = BaseDelay
====
