---- MODULE LaunchProofs ----
(***************************************************************************)
(* Launches, proved for any number of clients, games, windows and tokens:  *)
(* every run of it is a run of the compositor, and no session outlives the *)
(* window that began it.                                                   *)
(***************************************************************************)
EXTENDS Launches, CompositorScene

-----------------------------------------------------------------------------
(* Launches is the compositor, with two variables more. *)

\* Every step of the environment or a client is one of the compositor or leaves
\* it alone.
LEMMA LaunchStepIsStep ==
    ASSUME [LaunchNext]_launchVars
    PROVE  [Next]_vars
<1> USE DEF Next, ClientNext, InitNext
<1>1. ASSUME alive, NEW c \in Clients, MapsWindows(c) PROVE Next
  BY <1>1 DEF MapsWindows
<1>2. ASSUME alive, NEW c \in Registrants, Claims(c) PROVE Next
  BY <1>2, ClientAssumption DEF Claims
<1>3. CASE alive /\ ClientLoses
  BY <1>3, ClientAssumption DEF ClientLoses
<1>4. ASSUME alive, NEW g \in Games, NEW token \in Tokens, LaunchHandled(g, token) PROVE Next
  BY <1>4 DEF LaunchHandled
<1>5. CASE alive /\ (LastOfClient \/ OtherInput)
  BY <1>5 DEF LastOfClient, OtherInput
<1>6. CASE GameFails \/ UNCHANGED launchVars
  BY <1>6 DEF GameFails, launchVars
<1> QED BY <1>1, <1>2, <1>3, <1>4, <1>5, <1>6 DEF LaunchNext

\* All that is proved of Spec holds whatever games are launched, in whatever order
\* messages, windows and claims come.
THEOREM LaunchesRefine == LaunchSpec => Spec
<1>1. LaunchInit => Init
  BY DEF LaunchInit
<1>2. [LaunchNext]_launchVars => [Next]_vars
  BY LaunchStepIsStep
<1> QED BY <1>1, <1>2, PTL DEF LaunchSpec, Spec

-----------------------------------------------------------------------------
(* The inductive invariant. *)

\* What the compositor guarantees whoever its clients are.
SafeInv == TypeOK /\ ClientInv /\ RolesMatchClaims

GameInv ==
    /\ LaunchTypeOK
    /\ SessionHasItsGame
    /\ activator # NULL => GameVisible

\* The types of the two variables.
LEMMA LaunchTypes ==
    ASSUME LaunchTypeOK, [LaunchNext]_launchVars
    PROVE  LaunchTypeOK'
BY DEF LaunchTypeOK, LaunchNext, LaunchHandled, GameFails, MapsWindows, Claims, ClientLoses,
       LastOfClient, OtherInput, SessionKept, launchVars

\* A step that keeps the windows and their roles ends the session or keeps its
\* window.
LEMMA WindowsStay ==
    ASSUME GameInv, LaunchTypeOK', UNCHANGED <<toplevels, role>>,
           SessionKept \/ UNCHANGED <<activator, fg_state>>
    PROVE  GameInv'
BY DEF GameInv, SessionHasItsGame, SessionKept, GameVisible, Tracked

\* A classification takes the window out of the game only for its own client's
\* claim.
LEMMA ClassifiedStays ==
    ASSUME SafeInv, GameInv, LaunchTypeOK', ClassifyStep, UNCHANGED fg_state,
           activator' \in {activator, NULL},
           activator' # NULL => ClientOf[activator] \notin {shell_client', overlay_client'}
    PROVE  GameInv'
<1> SUFFICES ASSUME activator' # NULL
             PROVE  /\ activator \in Tracked' /\ role'[activator] = "GAME"
                    /\ GameVisible'
  BY DEF GameInv, SessionHasItsGame
<1>1. activator' = activator /\ activator \in Surfaces /\ GameVisible
  BY DEF GameInv, LaunchTypeOK
<1>2. PICK nodes, order : Reclassify(nodes, order) /\ Tracked \subseteq Tracked'
  BY ClassifyFrame DEF SafeInv
<1>3. activator \in Tracked'
  BY <1>1, <1>2 DEF GameInv, SessionHasItsGame
<1>4. role'[activator] = RoleOf(ClientOf[activator])'
  BY <1>1, <1>2, <1>3 DEF Reclassify
<1>5. RoleOf(ClientOf[activator])' = "GAME"
  BY <1>1 DEF RoleOf, GameVisible, UI
<1> QED BY <1>1, <1>3, <1>4, <1>5 DEF GameVisible

\* The client of a window in the game role holds no role.
LEMMA GameHoldsNoRole ==
    ASSUME SafeInv, GameInv, activator # NULL
    PROVE  ClientOf[activator] \notin {shell_client, overlay_client}
BY DEF SafeInv, RolesMatchClaims, GameInv, SessionHasItsGame

\* Every step of playos-init and the clients keeps it.
LEMMA GameInductive ==
    ASSUME SafeInv, GameInv, [LaunchNext]_launchVars
    PROVE  GameInv'
<1>0. LaunchTypeOK'
  BY LaunchTypes DEF GameInv
<1>1. ASSUME NEW g \in Games, NEW token \in Tokens, LaunchHandled(g, token) PROVE GameInv'
  BY <1>0, <1>1, WindowsStay DEF LaunchHandled, IpcSetExpectedGame, quiet, surfaceVars
<1>2. CASE GameFails \/ UNCHANGED launchVars
  BY <1>0, <1>2, WindowsStay DEF GameFails, launchVars, vars, surfaceVars, stateVars
<1>3. ASSUME NEW c \in Clients, ClientConnects(c), UNCHANGED activator PROVE GameInv'
  BY <1>0, <1>3, WindowsStay DEF ClientConnects, sceneVars, surfaceVars, stateVars
<1>4. ASSUME NEW s \in Surfaces, ToplevelCreated(s), UNCHANGED activator PROVE GameInv'
  <2>1. NewToplevel(s) /\ ClassifyStep
    BY <1>4 DEF ToplevelCreated, ClassifyStep
  <2>2. UNCHANGED <<shell_client, overlay_client, fg_state>>
    BY <2>1 DEF NewToplevel, clientVars, stateVars
  <2> QED BY <1>0, <1>4, <2>1, <2>2, ClassifiedStays, GameHoldsNoRole
<1>5. ASSUME NEW s \in Surfaces, ToplevelCommits(s), activator' = s PROVE GameInv'
  <2>1. s \in Tracked /\ role[s] = "GAME" /\ UNCHANGED <<toplevels, role>> /\ GameSurfaceReady
    BY <1>5 DEF ToplevelCommits, CommitBuffer, surfaceVars
  <2>2. fg_state' = "GAME_FOREGROUND"
    BY <2>1 DEF GameSurfaceReady, Transition, EnterState
  <2> QED BY <1>0, <1>5, <2>1, <2>2 DEF GameInv, SessionHasItsGame, GameVisible, Tracked
<1>6. ASSUME NEW c \in Registrants, Claims(c) PROVE GameInv'
  <2>1. RegisterShell(c) \/ RegisterOverlay(c)
    BY <1>6 DEF Claims, ClientRegistersShell, ClientRegistersOverlay
  <2>2. ClassifyStep
    BY <1>6, <2>1, ClientAssumption
       DEF ClassifyStep, Claims, ClientRegistersShell, ClientRegistersOverlay
  <2>3. /\ UNCHANGED fg_state
        /\ shell_client' \in {shell_client, c}
        /\ overlay_client' \in {overlay_client, c}
    BY <2>1 DEF RegisterShell, RegisterOverlay, ClaimShell, ClaimOverlay, stateVars
  <2>4. /\ activator' \in {activator, NULL}
        /\ activator' # NULL => activator' = activator /\ ClientOf[activator] # c
    BY <1>6 DEF Claims, GameInv, LaunchTypeOK
  <2> QED BY <1>0, <2>2, <2>3, <2>4, ClassifiedStays, GameHoldsNoRole
<1>7. CASE ClientLoses
  <2>1. ASSUME NEW s \in Surfaces, DestroyToplevel(s), SessionKept PROVE GameInv'
    <3>1. Tracked' = Tracked \ {s} /\ role' = [role EXCEPT ![s] = "NONE"]
      BY <2>1, DestroyTracked DEF SafeInv, DestroyToplevel
    <3>2. role \in [Surfaces -> Roles]
      BY DEF SafeInv, TypeOK, ToplevelTypeOK
    <3>3. CASE role[s] = "GAME"
      <4>1. ~GameVisible'
        BY <2>1, <3>3 DEF DestroyToplevel, GameExited, Transition, EnterState, GameVisible, UI
      <4> QED BY <1>0, <2>1, <4>1 DEF SessionKept, GameInv, SessionHasItsGame
    <3>4. CASE role[s] # "GAME"
      <4>1. UNCHANGED fg_state
        BY <2>1, <3>4 DEF DestroyToplevel, stateVars
      <4>2. activator' # NULL => activator' = activator /\ GameVisible'
        BY <2>1 DEF SessionKept
      <4> QED BY <1>0, <3>1, <3>2, <3>4, <4>2 DEF GameInv, SessionHasItsGame, LaunchTypeOK
    <3> QED BY <3>3, <3>4
  <2>2. ASSUME ConnectionStep, SessionKept PROVE GameInv'
    BY <1>0, <2>2, WindowsStay DEF ConnectionStep, sceneVars, surfaceVars
  <2>3. ASSUME NEW c \in Clients, ClientCloses(c) PROVE ConnectionStep
    BY <2>3 DEF ClientCloses, ConnectionStep
  <2>4. ASSUME NEW c \in Registrants, ClientRejected(c) PROVE UNCHANGED <<toplevels, role>>
    BY <2>4 DEF ClientRejected, RegisterRejected, surfaceVars
  <2>5. ASSUME BindingDestroyed PROVE ConnectionStep
    BY <2>5 DEF BindingDestroyed, ConnectionStep
  <2> QED BY <1>0, <1>7, <2>1, <2>2, <2>3, <2>4, <2>5, WindowsStay
          DEF ClientLoses, ToplevelDestroyed
<1>8. CASE LastOfClient
  BY <1>0, <1>8, WindowsStay DEF LastOfClient, ClientGone, sceneVars, surfaceVars, stateVars
<1>9. CASE OtherInput
  <2>1. UNCHANGED <<toplevels, role>>
    BY <1>9 DEF OtherInput, ClientBindsOverlay, OverlayRequestsDismiss, IpcClearExpectedGame,
       IpcForceTerminateGame, IpcShowOverlay, IpcHideOverlay, SystemButton, quiet, sceneVars,
       surfaceVars
  <2> QED BY <1>0, <1>9, <2>1, WindowsStay DEF OtherInput
<1>10. ASSUME NEW c \in Clients, MapsWindows(c) PROVE GameInv'
  BY <1>3, <1>4, <1>5, <1>10 DEF MapsWindows
<1> QED BY <1>1, <1>2, <1>6, <1>7, <1>8, <1>9, <1>10 DEF LaunchNext

\* A session does not outlive the window that began it, in the game role for as
\* long as its client claims none, however many windows, games, claims and
\* disconnects come in between (state_machine.c 172-189, compositor.c 89-113 and
\* 763-792).
THEOREM SessionEndsWithGame == LaunchSpec => []SessionHasItsGame
<1>1. LaunchSpec => []SafeInv
  BY LaunchesRefine, TypeCorrect, ClientsInvariant, RolesSafe, PTL DEF SafeInv
<1>2. LaunchInit => GameInv
  BY DEF LaunchInit, GameInv, LaunchTypeOK, SessionHasItsGame
<1>3. SafeInv /\ GameInv /\ [LaunchNext]_launchVars => GameInv'
  BY GameInductive
<1>4. GameInv => SessionHasItsGame
  BY DEF GameInv
<1> QED BY <1>1, <1>2, <1>3, <1>4, PTL DEF LaunchSpec
====
