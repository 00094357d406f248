---- MODULE CompositorSafety ----
(***************************************************************************)
(* The safety properties of Compositor, proved for every value of its      *)
(* constants, on top of type correctness (CompositorProofs).               *)
(***************************************************************************)
EXTENDS CompositorProofs

-----------------------------------------------------------------------------
(* The session. *)

\* What a step can do to the session: a handler drives it, a destroyed game
\* window ends it, or nothing.
LEMMA SessionFrame ==
    ASSUME [Next]_vars
    PROVE  \/ SessionHandler
           \/ \E s \in Surfaces : role[s] = "GAME" /\ GameExited(enabled \ {s})
           \/ UNCHANGED stateVars
<1>1. CASE DestroyStep
  <2>1. PICK s \in Surfaces : DestroyToplevel(s)
    BY <1>1 DEF DestroyStep
  <2> QED BY <2>1 DEF DestroyToplevel
<1> QED
  BY <1>1, NextSteps
     DEF SessionStep, ClassifyStep, NewToplevel, RegisterShell, RegisterOverlay,
         ConnectionStep, LinkStep, offLink, vars

\* Every handler keeps expected launch, ready flag, overlay flag and state in step.
LEMMA SessionInductive ==
    ASSUME TypeOK, SessionCoherent, [Next]_vars
    PROVE  SessionCoherent'
<1> USE TokenAssumption DEF SessionCoherent, SessionStates, UI, ForegroundStates
<1>1. ASSUME NEW token \in Tokens, HandleSetExpectedGame(token) PROVE SessionCoherent'
  BY <1>1 DEF HandleSetExpectedGame, Transition, EnterState, OverlayEnds
<1>2. CASE HandleClearExpected
  BY <1>2 DEF HandleClearExpected, Transition, EnterState, OverlayEnds, TypeOK, ForegroundTypeOK
<1>3. CASE HandleForceTerminate
  BY <1>3 DEF HandleForceTerminate, Transition, EnterState, OverlayEnds
<1>4. CASE ShowOverlay
  BY <1>4 DEF ShowOverlay, EnterState
<1>5. CASE HideOverlay
  BY <1>5 DEF HideOverlay, EnterState
<1>6. CASE GameSurfaceReady
  BY <1>6 DEF GameSurfaceReady, Transition, EnterState, OverlayEnds
<1>7. ASSUME NEW s \in Surfaces, GameExited(enabled \ {s}) PROVE SessionCoherent'
  BY <1>7 DEF GameExited, Transition, EnterState, OverlayEnds
<1>8. CASE UNCHANGED stateVars
  BY <1>8 DEF stateVars
<1> QED BY <1>1, <1>2, <1>3, <1>4, <1>5, <1>6, <1>7, <1>8, SessionFrame DEF SessionHandler

\* One launch at a time: whatever order launches, cancellations, terminations,
\* first frames, overlay requests and window deaths come in, token, ready flag,
\* overlay flag and foreground state agree (state_machine.c, overlay_manager.c).
THEOREM SessionSafe == Spec => []SessionCoherent
<1>1. Init => SessionCoherent
  BY DEF Init, StateInit, SessionCoherent, SessionStates, UI
<1>2. TypeOK /\ SessionCoherent /\ [Next]_vars => SessionCoherent'
  BY SessionInductive
<1> QED BY <1>1, <1>2, TypeCorrect, PTL DEF Spec

-----------------------------------------------------------------------------
(* Clients. *)

\* Who is connected, who receives the events and who was told are inductive only
\* together: an event is told to a client that must still be the role holder.
ClientInv == HoldersConnected /\ EventsReachOverlay /\ NoStaleVisibleClient

\* Every step keeps roles, bindings and visibility events in step.
LEMMA ClientInductive ==
    ASSUME TypeOK, ClientInv, [Next]_vars
    PROVE  ClientInv'
<1> USE ClientAssumption DEF ClientInv, HoldersConnected, EventsReachOverlay, NoStaleVisibleClient
<1>0. TrustedTypeOK
  BY DEF TypeOK
<1>1. CASE SessionStep
  <2>1. UNCHANGED <<clients, closing, shell_client, overlay_client, overlay_resources, overlay_resource>>
    BY <1>1 DEF SessionStep, quiet, clientVars, bindingVars
  <2>2. closing = NULL
    BY <1>1 DEF SessionStep, Idle
  <2>3. NoStaleVisibleClient'
    <3>1. ASSUME NEW state, NEW nodes, Transition(state, nodes) PROVE NoStaleVisibleClient'
      BY <3>1, <2>1 DEF Transition, ToldHide, EnterState
    <3>2. ASSUME UNCHANGED <<overlay_visible, overlay_told>> PROVE NoStaleVisibleClient'
      BY <3>2, <2>1
    <3>3. CASE ShowOverlay
      BY <3>3, <2>1, <2>2, <1>0 DEF ShowOverlay, ToldShow, TrustedTypeOK
    <3>4. CASE HideOverlay
      BY <3>4, <2>1 DEF HideOverlay, ToldHide
    <3> QED BY <1>1, <3>1, <3>2, <3>3, <3>4
            DEF SessionStep, SessionHandler, HandleSetExpectedGame, HandleClearExpected,
                HandleForceTerminate, GameSurfaceReady
  <2> QED BY <2>1, <2>3
<1>2. CASE ClassifyStep
  <2>1. UNCHANGED <<overlay_visible, overlay_told, closing, clients, overlay_resources>>
    BY <1>2 DEF ClassifyStep, NewToplevel, RegisterShell, RegisterOverlay, ClaimShell,
                ClaimOverlay, stateVars, clientVars, bindingVars
  <2>2. ASSUME NEW s \in Surfaces, NewToplevel(s) PROVE ClientInv'
    BY <2>1, <2>2 DEF NewToplevel, clientVars, bindingVars
  <2>3. ASSUME NEW c \in Clients, RegisterShell(c) PROVE ClientInv'
    BY <2>1, <2>3 DEF RegisterShell, ClaimShell, Connected, Idle, bindingVars
  <2>4. ASSUME NEW c \in Clients, RegisterOverlay(c) PROVE ClientInv'
    <3>1. overlay_told = {}
      BY <2>4, <1>0 DEF RegisterOverlay, ClaimOverlay, TrustedTypeOK
    <3> QED BY <2>1, <2>4, <3>1 DEF RegisterOverlay, ClaimOverlay, Resolve, Connected, Idle
  <2> QED BY <1>2, <2>2, <2>3, <2>4 DEF ClassifyStep
<1>3. CASE DestroyStep
  <2>1. PICK s \in Surfaces : DestroyToplevel(s)
    BY <1>3 DEF DestroyStep
  <2>2. UNCHANGED <<clients, closing, shell_client, overlay_client, overlay_resources, overlay_resource>>
    BY <2>1 DEF DestroyToplevel, clientVars, bindingVars
  <2>3. CASE GameExited(enabled \ {s})
    BY <2>2, <2>3 DEF GameExited, Transition, ToldHide, EnterState
  <2>4. CASE UNCHANGED <<stateVars, overlay_told, sendVars>>
    BY <2>2, <2>4 DEF stateVars
  <2> QED BY <2>1, <2>3, <2>4 DEF DestroyToplevel
<1>4. CASE ConnectionStep
  <2>0. UNCHANGED overlay_visible
    BY <1>4 DEF ConnectionStep, stateVars
  <2>1. ASSUME NEW c \in Clients, Connect(c) PROVE ClientInv'
    BY <2>0, <2>1 DEF Connect, Idle, bindingVars
  <2>2. ASSUME NEW c \in Clients, BeginClose(c) PROVE ClientInv'
    BY <2>0, <2>2, <1>0 DEF BeginClose, Connected, Idle, TrustedTypeOK, bindingVars
  <2>3. ASSUME NEW c \in Clients, OverlayBind(c) PROVE ClientInv'
    BY <2>0, <2>3, <1>0 DEF OverlayBind, Resolve, Connected, Idle, TrustedTypeOK, clientVars
  <2>4. ASSUME DestroyBinding PROVE ClientInv'
    BY <2>0, <2>4, <1>0 DEF DestroyBinding, TrustedTypeOK, clientVars
  <2>5. ASSUME ForgetClient PROVE ClientInv'
    BY <2>0, <2>5, <1>0 DEF ForgetClient, TrustedTypeOK, bindingVars
  <2> QED BY <1>4, <2>1, <2>2, <2>3, <2>4, <2>5 DEF ConnectionStep
<1>5. CASE LinkStep \/ UNCHANGED vars
  BY <1>5 DEF LinkStep, offLink, vars, clientVars, bindingVars, stateVars
<1> QED BY <1>1, <1>2, <1>3, <1>4, <1>5, NextSteps

\* The three parts hold in every reachable state.
LEMMA ClientsInvariant == Spec => []ClientInv
<1>1. Init => ClientInv
  BY DEF Init, TrustedInit, ClientInv, HoldersConnected, EventsReachOverlay, NoStaleVisibleClient
<1>2. TypeOK /\ ClientInv /\ [Next]_vars => ClientInv'
  BY ClientInductive
<1> QED BY <1>1, <1>2, TypeCorrect, PTL DEF Spec

\* Roles and bindings belong to live connections, through any number of
\* disconnects and restarts (trusted_client.c 24-50).
THEOREM HoldersSafe == Spec => []HoldersConnected
<1>1. ClientInv => HoldersConnected
  BY DEF ClientInv
<1> QED BY <1>1, ClientsInvariant, PTL

\* The visibility events go to the holder of the overlay role and nobody else,
\* whichever order binds and claims come in (playos_manager.c 142-170).
THEOREM EventsSafe == Spec => []EventsReachOverlay
<1>1. ClientInv => EventsReachOverlay
  BY DEF ClientInv
<1> QED BY <1>1, ClientsInvariant, PTL

\* A client that was told it is about to be shown is the overlay client, and is
\* told otherwise before the overlay flag goes down (state_machine.c 82-95).
THEOREM VisibilitySafe == Spec => []NoStaleVisibleClient
<1>1. ClientInv => NoStaleVisibleClient
  BY DEF ClientInv
<1> QED BY <1>1, ClientsInvariant, PTL

-----------------------------------------------------------------------------
(* What playos-init was told. *)

\* Sending the new state with the transition, and forgetting both on a new
\* connection, keep the peer's view.
LEMMA WireInductive ==
    ASSUME TypeOK, PeerNotMisled, [Next]_vars
    PROVE  PeerNotMisled'
<1> USE DEF PeerNotMisled, ReportState
<1>1. ASSUME NEW state, NEW nodes, Transition(state, nodes), UNCHANGED linkVars
      PROVE  PeerNotMisled'
  BY <1>1 DEF Transition, EnterState, linkVars, sendVars
<1>2. CASE SessionStep
  <2>1. UNCHANGED linkVars
    BY <1>2 DEF SessionStep, quiet
  <2>2. CASE ShowOverlay \/ HideOverlay
    BY <2>1, <2>2 DEF ShowOverlay, HideOverlay, EnterState, linkVars, sendVars
  <2>3. CASE HandleClearExpected
    BY <2>1, <2>3, <1>1 DEF HandleClearExpected, linkVars, sendVars
  <2> QED BY <1>2, <1>1, <2>1, <2>2, <2>3
          DEF SessionStep, SessionHandler, HandleSetExpectedGame, HandleForceTerminate,
              GameSurfaceReady
<1>3. CASE ClassifyStep
  BY <1>3 DEF ClassifyStep, NewToplevel, RegisterShell, RegisterOverlay,
              stateVars, wireVars, sendVars, linkVars
<1>4. CASE DestroyStep
  BY <1>4, <1>1 DEF DestroyStep, DestroyToplevel, GameExited, stateVars, linkVars, sendVars
<1>5. CASE ConnectionStep
  BY <1>5 DEF ConnectionStep, ipcVars, linkVars, wireVars, sendVars, stateVars
<1>6. CASE LinkStep
  BY <1>6 DEF LinkStep, offLink, stateVars, PeerCloses, IpcHangup, IpcReconnected,
              IpcRetryFailed, FreshWire, wireVars, sendVars
<1>7. CASE UNCHANGED vars
  BY <1>7 DEF vars, ipcVars, linkVars, wireVars, sendVars, stateVars
<1> QED BY <1>2, <1>3, <1>4, <1>5, <1>6, <1>7, NextSteps

\* What playos-init heard of the state on a live connection is the current
\* state: no handler changes it silently (state_machine.c 97-109,
\* overlay_manager.c 26-30 and 47-53).
THEOREM PeerSafe == Spec => []PeerNotMisled
<1>1. Init => PeerNotMisled
  BY DEF Init, IpcInit, PeerNotMisled
<1>2. TypeOK /\ PeerNotMisled /\ [Next]_vars => PeerNotMisled'
  BY WireInductive
<1> QED BY <1>1, <1>2, TypeCorrect, PTL DEF Spec

\* The token sent with the first frame stays the expected one while the game is
\* up: a handler that changes it leaves both states.
LEMMA ReadyInductive ==
    ASSUME TypeOK, ReadyNamesLaunch, [Next]_vars
    PROVE  ReadyNamesLaunch'
<1> USE TokenAssumption DEF ReadyNamesLaunch, UI, ForegroundStates, SessionStates
<1>1. CASE SessionStep
  <2>1. UNCHANGED link
    BY <1>1 DEF SessionStep, quiet, linkVars
  <2>2. CASE ShowOverlay \/ HideOverlay
    BY <2>1, <2>2 DEF ShowOverlay, HideOverlay, EnterState
  <2>3. CASE HandleClearExpected
    BY <2>1, <2>3 DEF HandleClearExpected, Transition, EnterState, TypeOK, ForegroundTypeOK
  <2>4. CASE GameSurfaceReady
    BY <2>1, <2>4 DEF GameSurfaceReady, ReportReady
  <2>5. CASE HandleForceTerminate \/ \E token \in Tokens : HandleSetExpectedGame(token)
    BY <2>1, <2>5 DEF HandleForceTerminate, HandleSetExpectedGame, Transition, EnterState
  <2> QED BY <1>1, <2>2, <2>3, <2>4, <2>5 DEF SessionStep, SessionHandler
<1>2. CASE ClassifyStep
  BY <1>2 DEF ClassifyStep, NewToplevel, RegisterShell, RegisterOverlay,
              stateVars, wireVars, sendVars, linkVars
<1>3. CASE DestroyStep
  BY <1>3 DEF DestroyStep, DestroyToplevel, GameExited, Transition, EnterState,
              stateVars, linkVars
<1>4. CASE ConnectionStep
  BY <1>4 DEF ConnectionStep, ipcVars, linkVars, wireVars, sendVars, stateVars
<1>5. CASE LinkStep
  BY <1>5 DEF LinkStep, offLink, stateVars, PeerCloses, IpcHangup, IpcReconnected,
              IpcRetryFailed, FreshWire, wireVars, sendVars
<1>6. CASE UNCHANGED vars
  BY <1>6 DEF vars, ipcVars, linkVars, wireVars, sendVars, stateVars
<1> QED BY <1>1, <1>2, <1>3, <1>4, <1>5, <1>6, NextSteps

\* The launch playos-init was told is ready is the one that is expected, as long
\* as its game is up on the same connection (state_machine.c 153-170).
THEOREM ReadySafe == Spec => []ReadyNamesLaunch
<1>1. Init => ReadyNamesLaunch
  BY DEF Init, IpcInit, ReadyNamesLaunch
<1>2. TypeOK /\ ReadyNamesLaunch /\ [Next]_vars => ReadyNamesLaunch'
  BY ReadyInductive
<1> QED BY <1>1, <1>2, TypeCorrect, PTL DEF Spec

-----------------------------------------------------------------------------
(* The session implements Lifecycle. *)

\* Every step is a step of the lifecycle, or leaves state and launch alone.
LEMMA LifecycleStep ==
    ASSUME TypeOK, [Next]_vars
    PROVE  [Session!LifecycleNext]_<<fg_state, expected_launch_token>>
<1> DEFINE Step == [Session!LifecycleNext]_<<fg_state, expected_launch_token>>
<1> USE DEF Session!LifecycleNext, Session!Shell, Session!Starting, Session!Game,
            Session!Summoned, Session!Terminating
<1>0. fg_state \in ForegroundStates
  BY DEF TypeOK, ForegroundTypeOK
<1>1. ASSUME NEW token \in Tokens, HandleSetExpectedGame(token) PROVE Step
  <2>1. Session!Launch(token)
    BY <1>1 DEF HandleSetExpectedGame, Transition, EnterState, Session!Launch
  <2> QED BY <2>1
<1>2. CASE HandleClearExpected
  <2>1. CASE fg_state \in SessionStates
    <3>1. Session!Return
      BY <1>2, <2>1 DEF HandleClearExpected, Transition, EnterState, Session!Return, SessionStates
    <3> QED BY <3>1
  <2>2. CASE fg_state \notin SessionStates
    <3>1. Session!CallOff
      BY <1>0, <1>2, <2>2 DEF HandleClearExpected, Session!CallOff, SessionStates
    <3> QED BY <3>1
  <2> QED BY <2>1, <2>2
<1>3. CASE HandleForceTerminate
  <2>1. Session!Terminate
    BY <1>3 DEF HandleForceTerminate, Transition, EnterState, Session!Terminate
  <2> QED BY <2>1
<1>4. CASE ShowOverlay
  BY <1>4 DEF ShowOverlay, EnterState, UI, Session!Summon
<1>5. CASE HideOverlay
  BY <1>5 DEF HideOverlay, EnterState, UI, Session!Dismiss, Session!DismissToShell
<1>6. CASE GameSurfaceReady
  <2>1. Session!Activate
    BY <1>6 DEF GameSurfaceReady, Transition, EnterState, Session!Activate
  <2> QED BY <2>1
<1>7. ASSUME NEW s \in Surfaces, GameExited(enabled \ {s}) PROVE Step
  <2>1. Session!Return \/ Session!CallOff
    BY <1>7 DEF GameExited, Transition, EnterState, Session!Return, Session!CallOff
  <2> QED BY <2>1
<1>8. CASE UNCHANGED stateVars
  BY <1>8 DEF stateVars
<1> QED BY <1>1, <1>2, <1>3, <1>4, <1>5, <1>6, <1>7, <1>8, SessionFrame DEF SessionHandler

\* Whatever clients, windows and the link do, the session playos-init sees is
\* the abstract one: every handler, with all the calls it makes, is one step of
\* Lifecycle or none.
THEOREM SessionRefines == Spec => ImplementsLifecycle
<1>1. Init => Session!LifecycleInit
  BY DEF Init, StateInit, Session!LifecycleInit, Session!Shell
<1>2. TypeOK /\ [Next]_vars => [Session!LifecycleNext]_<<fg_state, expected_launch_token>>
  BY LifecycleStep
<1> QED BY <1>1, <1>2, TypeCorrect, PTL DEF Spec, ImplementsLifecycle, Session!LifecycleSpec

-----------------------------------------------------------------------------
(* The link. *)

\* What the running compositor holds of compositor.sock.
LinkHeld == LinkOrRetry /\ BackoffRestarts

\* In the whole compositor as on its own, a lost link has an armed retry and a
\* link that is up has none and the shortest delay in store: no request, message
\* or window touches the descriptor or the timer (compositor_ipc.c 195-270).
THEOREM LinkSafe == Spec => []LinkHeld
<1>1. Init => LinkHeld
  BY DEF Init, IpcInit, LinkHeld, LinkOrRetry, BackoffRestarts
<1>2. LinkHeld /\ [Next]_vars => LinkHeld'
  <2> SUFFICES ASSUME LinkHeld, [Next]_vars PROVE LinkHeld'
    OBVIOUS
  <2> USE DEF LinkHeld, LinkOrRetry, BackoffRestarts
  <2>1. CASE LinkStep
    BY <2>1 DEF LinkStep, PeerCloses, IpcHangup, IpcReconnected, IpcRetryFailed
  <2>2. CASE UNCHANGED linkVars
    BY <2>2 DEF linkVars
  <2>3. CASE SessionStep \/ ClassifyStep \/ DestroyStep \/ ConnectionStep \/ UNCHANGED vars
    <3>1. UNCHANGED linkVars
      BY <2>3 DEF SessionStep, quiet, ClassifyStep, DestroyStep, ConnectionStep, vars, ipcVars
    <3> QED BY <2>2, <3>1
  <2> QED BY <2>1, <2>3, NextSteps
<1> QED BY <1>1, <1>2, PTL DEF Spec
====
