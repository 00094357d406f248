---- MODULE IpcPeer ----
(***************************************************************************)
(* compositor.sock on its own: the link of CompositorIpc against a         *)
(* playos-init that starts and stops listening, crashes while connected,   *)
(* and the compositor that sends state changes meanwhile and finally       *)
(* tears the link down (playos_compositor_ipc_stop).                       *)
(***************************************************************************)
EXTENDS CompositorIpc

VARIABLES
    listening,  \* external: playos-init has the socket bound and accepts
    stopped     \* playos_compositor_ipc_stop has run

peerVars == <<ipcVars, listening, stopped>>

PeerTypeOK == IpcTypeOK /\ listening \in BOOLEAN /\ stopped \in BOOLEAN

PeerInit ==
    /\ IpcInit
    /\ listening = (link = "up")
    /\ stopped = FALSE

Running == alive /\ stopped = FALSE

(* External. *)
PeerListens ==
    /\ listening' = ~listening
    /\ UNCHANGED <<ipcVars, stopped>>

PeerClosesLink == PeerCloses /\ UNCHANGED <<listening, stopped>>

(* The callbacks of the event loop. *)
HandleFd == Running /\ IpcHangup /\ UNCHANGED <<listening, stopped>>

FireTimer ==
    /\ Running
    /\ IF listening THEN IpcReconnected ELSE IpcRetryFailed
    /\ UNCHANGED <<listening, stopped>>

(* playos_state_transition and playos_state_game_surface_ready send. *)
SendState(state) ==
    /\ Running
    /\ ReportState(state)
    /\ UNCHANGED <<linkVars, ready_reported, listening, stopped>>

SendReady(token) ==
    /\ Running
    /\ ReportReady(token)
    /\ UNCHANGED <<linkVars, reported, listening, stopped>>

\* Mutant: the retry survives the teardown.
MutIpcStop ==
    /\ Running
    /\ stopped' = TRUE
    /\ link' = "down"
    /\ UNCHANGED <<reconnect_timer, reconnect_delay, wireVars, listening>>

(* playos_compositor_ipc_stop: the descriptor and the timer both go. *)
IpcStop ==
    /\ Running
    /\ stopped' = TRUE
    /\ link' = "down"
    /\ reconnect_timer' = "none"
    /\ UNCHANGED <<reconnect_delay, wireVars, listening>>

PeerNext ==
    \/ PeerListens
    \/ PeerClosesLink
    \/ HandleFd
    \/ FireTimer
    \/ \E state \in ForegroundStates : SendState(state)
    \/ \E token \in Tokens : SendReady(token)
    \/ IpcStop

PeerSpec == PeerInit /\ [][PeerNext]_peerVars

-----------------------------------------------------------------------------

\* While the compositor runs it holds a descriptor or an armed retry, never
\* both and never neither; after playos_compositor_ipc_stop it holds nothing
\* the event loop could still call into (compositor_ipc.c 313-321).
NeverStranded ==
    /\ Running => LinkOrRetry
    /\ stopped => link = "down" /\ reconnect_timer = "none"

\* The back-off restarts with every connection (compositor_ipc.c 219).
BackoffRestartsWhileRunning == Running => BackoffRestarts
====
