---- MODULE CompositorProofs ----
(***************************************************************************)
(* Invariants of Compositor, proved for every value of its constants.      *)
(***************************************************************************)
EXTENDS Compositor, SeqLemmas

-----------------------------------------------------------------------------
(* Reclassification. *)

\* The loop of reclassify picks a window on the list that has the role, or none.
LEMMA FirstWithTracked ==
    ASSUME toplevels' \in Seq(Surfaces), NEW CONSTANT r
    PROVE  \/ FirstWith(r)' = NULL
           \/ FirstWith(r)' \in Tracked' /\ role'[FirstWith(r)'] = r
<1> DEFINE IsFirst(i) == /\ role'[toplevels'[i]] = r
                         /\ \A j \in DOMAIN toplevels' : role'[toplevels'[j]] = r => i <= j
<1>1. FirstWith(r)' = IF \E i \in DOMAIN toplevels' : IsFirst(i)
                      THEN toplevels'[CHOOSE i \in DOMAIN toplevels' : IsFirst(i)]
                      ELSE NULL
  BY DEF FirstWith
<1>2. CASE \E i \in DOMAIN toplevels' : IsFirst(i)
  <2> DEFINE k == CHOOSE i \in DOMAIN toplevels' : IsFirst(i)
  <2>1. k \in DOMAIN toplevels' /\ IsFirst(k)
    BY <1>2
  <2>2. FirstWith(r)' = toplevels'[k]
    BY <1>1, <1>2
  <2> HIDE DEF k
  <2> QED BY <2>1, <2>2 DEF Tracked, ToSet
<1>3. CASE ~ \E i \in DOMAIN toplevels' : IsFirst(i)
  BY <1>1, <1>3
<1> QED BY <1>2, <1>3

\* Reclassification keeps the types of roles, pointers, Z order and scene.
LEMMA ReclassifyType ==
    ASSUME toplevels' \in Seq(Surfaces),
           NEW nodes, nodes \subseteq Surfaces,
           NEW order,
           Reclassify(nodes, order)
    PROVE  /\ role' \in [Surfaces -> Roles]
           /\ above' \subseteq Surfaces \X Surfaces
           /\ {shell_tree', game_tree', overlay_tree'} \subseteq Surfaces \cup {NULL}
           /\ enabled' \subseteq Surfaces
<1>1. Tracked' \subseteq Surfaces
  BY DEF Tracked, ToSet
<1>2. role' \in [Surfaces -> Roles]
  BY DEF Reclassify, RoleOf, Roles
<1>3. above' \subseteq Surfaces \X Surfaces
  BY <1>1 DEF Reclassify, Restack
<1>4. {shell_tree', game_tree', overlay_tree'} \subseteq Surfaces \cup {NULL}
  BY <1>1, FirstWithTracked DEF Reclassify
<1>5. enabled' \subseteq Surfaces
  BY <1>4 DEF Reclassify, Refresh, VisibleTrees, RoleTrees
<1> QED BY <1>2, <1>3, <1>4, <1>5

\* The initial state is well typed.
LEMMA InitType == Init => TypeOK
<1> SUFFICES ASSUME Init PROVE TypeOK
  OBVIOUS
<1>1. IpcTypeOK
  BY DelayAssumption DEF Init, IpcInit, IpcTypeOK
<1>2. TrustedTypeOK
  BY DEF Init, TrustedInit, TrustedTypeOK
<1>3. ForegroundTypeOK
  BY DEF Init, StateInit, ForegroundTypeOK, ForegroundStates
<1>4. ToplevelTypeOK
  BY DEF Init, StateInit, ToplevelInit, ToplevelTypeOK, Roles
<1> QED BY <1>1, <1>2, <1>3, <1>4 DEF TypeOK

\* Doubling with the cap stays within the two delays.
LEMMA NextDelayType ==
    ASSUME NEW d \in BaseDelay .. MaxDelay
    PROVE  NextDelay(d) \in BaseDelay .. MaxDelay
  BY DelayAssumption DEF NextDelay

\* The handlers that drive the session and leave clients and windows alone: IPC
\* messages, the System button, the first frame, the dismissal by the overlay.
SessionHandler ==
    \/ \E token \in Tokens : HandleSetExpectedGame(token)
    \/ HandleClearExpected
    \/ HandleForceTerminate
    \/ ShowOverlay
    \/ HideOverlay
    \/ GameSurfaceReady

\* A transition keeps the types of what it assigns.
LEMMA TransitionType ==
    ASSUME ForegroundTypeOK, TrustedTypeOK, IpcTypeOK,
           {shell_tree', game_tree', overlay_tree'} \subseteq Surfaces \cup {NULL},
           NEW state \in ForegroundStates,
           NEW nodes, nodes \subseteq Surfaces,
           Transition(state, nodes)
    PROVE  /\ fg_state' \in ForegroundStates
           /\ overlay_visible' \in BOOLEAN
           /\ overlay_told' \subseteq Clients
           /\ reported' \in ForegroundStates \cup {NoReport}
           /\ alive' \in BOOLEAN
           /\ enabled' \subseteq Surfaces
<1>1. CASE fg_state = state
  BY <1>1 DEF Transition, ForegroundTypeOK, TrustedTypeOK, IpcTypeOK, sendVars
<1>2. CASE fg_state # state
  <2>1. fg_state' = state /\ Refresh(nodes) /\ ReportState(state)
    BY <1>2 DEF Transition, EnterState
  <2>2. reported' \in ForegroundStates \cup {NoReport} /\ alive' \in BOOLEAN
    BY <2>1 DEF ReportState, Send, IpcTypeOK
  <2>3. overlay_visible' \in BOOLEAN
    BY <1>2 DEF Transition, ForegroundTypeOK
  <2>4. overlay_told' \subseteq Clients
    BY <1>2 DEF Transition, ToldHide, TrustedTypeOK
  <2>5. enabled' \subseteq Surfaces
    BY <2>1 DEF Refresh, VisibleTrees, RoleTrees
  <2> QED BY <2>1, <2>2, <2>3, <2>4, <2>5
<1> QED BY <1>1, <1>2

\* The session handlers keep the types.
LEMMA SessionHandlerType ==
    ASSUME TypeOK, SessionHandler,
           UNCHANGED <<linkVars, clientVars, bindingVars, surfaceVars>>
    PROVE  TypeOK'
<1> DEFINE Typed ==
      /\ UNCHANGED trees
      /\ ready_reported' \in Tokens \cup {NoToken}
      /\ expected_launch_token' \in Tokens \cup {NoToken}
      /\ game_surface_ready' \in BOOLEAN
      /\ fg_state' \in ForegroundStates
      /\ overlay_visible' \in BOOLEAN
      /\ overlay_told' \subseteq Clients
      /\ reported' \in ForegroundStates \cup {NoReport}
      /\ alive' \in BOOLEAN
      /\ enabled' \subseteq Surfaces
<1>1. Typed
  <2> USE DEF TypeOK
  <2>0. {"SHELL_FOREGROUND", "GAME_STARTING", "GAME_FOREGROUND", UI, "TERMINATING_GAME"}
             = ForegroundStates
    BY DEF ForegroundStates, UI
  <2>1. ASSUME NEW token \in Tokens, HandleSetExpectedGame(token) PROVE Typed
    <3>1. UNCHANGED <<trees, ready_reported>> /\ Transition("GAME_STARTING", enabled)
      BY <2>1 DEF HandleSetExpectedGame
    <3>2. {shell_tree', game_tree', overlay_tree'} \subseteq Surfaces \cup {NULL}
      BY <3>1 DEF trees, ToplevelTypeOK
    <3> QED BY <2>0, <2>1, <3>1, <3>2, TransitionType
            DEF HandleSetExpectedGame, IpcTypeOK, ToplevelTypeOK
  <2>2. CASE HandleClearExpected
    <3>1. UNCHANGED <<trees, ready_reported>>
      BY <2>2 DEF HandleClearExpected
    <3>2. {shell_tree', game_tree', overlay_tree'} \subseteq Surfaces \cup {NULL}
      BY <3>1 DEF trees, ToplevelTypeOK
    <3>3. CASE fg_state \in SessionStates
      BY <2>0, <2>2, <3>1, <3>2, <3>3, TransitionType
         DEF HandleClearExpected, IpcTypeOK, ToplevelTypeOK
    <3>4. CASE fg_state \notin SessionStates
      BY <2>2, <3>1, <3>4
         DEF HandleClearExpected, IpcTypeOK, ToplevelTypeOK, ForegroundTypeOK, TrustedTypeOK,
             sendVars
    <3> QED BY <3>3, <3>4
  <2>3. CASE HandleForceTerminate
    <3>1. UNCHANGED <<trees, ready_reported>> /\ Transition("TERMINATING_GAME", enabled)
      BY <2>3 DEF HandleForceTerminate
    <3>2. {shell_tree', game_tree', overlay_tree'} \subseteq Surfaces \cup {NULL}
      BY <3>1 DEF trees, ToplevelTypeOK
    <3> QED BY <2>0, <2>3, <3>1, <3>2, TransitionType
            DEF HandleForceTerminate, IpcTypeOK, ToplevelTypeOK
  <2>4. CASE ShowOverlay
    <3>1. UNCHANGED <<expected_launch_token, game_surface_ready, trees, ready_reported>>
      BY <2>4 DEF ShowOverlay
    <3>2. {shell_tree', game_tree', overlay_tree'} \subseteq Surfaces \cup {NULL}
      BY <3>1 DEF trees, ToplevelTypeOK
    <3>3. enabled' \subseteq Surfaces
      BY <2>4, <3>2 DEF ShowOverlay, EnterState, Refresh, VisibleTrees, RoleTrees, ToplevelTypeOK
    <3> QED BY <2>0, <2>4, <3>1, <3>3
            DEF ShowOverlay, EnterState, ReportState, Send, ToldShow,
                sendVars, IpcTypeOK, ForegroundTypeOK, TrustedTypeOK
  <2>5. CASE HideOverlay
    <3>1. UNCHANGED <<expected_launch_token, game_surface_ready, trees, ready_reported>>
      BY <2>5 DEF HideOverlay
    <3>2. {shell_tree', game_tree', overlay_tree'} \subseteq Surfaces \cup {NULL}
      BY <3>1 DEF trees, ToplevelTypeOK
    <3>3. enabled' \subseteq Surfaces
      BY <2>5, <3>2 DEF HideOverlay, EnterState, Refresh, VisibleTrees, RoleTrees, ToplevelTypeOK
    <3> QED BY <2>0, <2>5, <3>1, <3>3
            DEF HideOverlay, EnterState, ReportState, Send, ToldHide,
                sendVars, IpcTypeOK, ForegroundTypeOK, TrustedTypeOK
  <2>6. CASE GameSurfaceReady
    <3>1. /\ UNCHANGED <<expected_launch_token, trees>>
          /\ Transition("GAME_FOREGROUND", enabled)
          /\ ReportReady(expected_launch_token)
      BY <2>6 DEF GameSurfaceReady
    <3>2. {shell_tree', game_tree', overlay_tree'} \subseteq Surfaces \cup {NULL}
      BY <3>1 DEF trees, ToplevelTypeOK
    <3> QED BY <2>0, <2>6, <3>1, <3>2, TransitionType
            DEF GameSurfaceReady, ReportReady, Send, IpcTypeOK, ForegroundTypeOK, ToplevelTypeOK
  <2> QED BY <2>1, <2>2, <2>3, <2>4, <2>5, <2>6 DEF SessionHandler
<1>2. IpcTypeOK'
  BY <1>1 DEF TypeOK, IpcTypeOK, linkVars
<1>3. TrustedTypeOK'
  BY <1>1 DEF TypeOK, TrustedTypeOK, clientVars, bindingVars
<1>4. ForegroundTypeOK'
  BY <1>1 DEF ForegroundTypeOK
<1>5. ToplevelTypeOK'
  BY <1>1 DEF TypeOK, ToplevelTypeOK, surfaceVars, trees
<1> QED BY <1>2, <1>3, <1>4, <1>5 DEF TypeOK

\* Destroying a window keeps the types; it leaves the list exactly once.
LEMMA DestroyToplevelType ==
    ASSUME TypeOK, NEW s \in Surfaces, DestroyToplevel(s), UNCHANGED linkVars
    PROVE  TypeOK'
<1> USE DEF TypeOK
<1>1. PICK i \in DOMAIN toplevels : toplevels[i] = s /\ toplevels' = RemoveAt(toplevels, i)
  BY DEF DestroyToplevel, Untrack, Tracked, ToSet
<1>2. /\ toplevels' \in Seq(Surfaces)
      /\ \A j, k \in DOMAIN toplevels' : toplevels'[j] = toplevels'[k] => j = k
  <2>1. /\ toplevels \in Seq(Surfaces)
        /\ \A j, k \in DOMAIN toplevels : toplevels[j] = toplevels[k] => j = k
    BY DEF ToplevelTypeOK
  <2>2. RemoveAt(toplevels, i) \in Seq(Surfaces)
    BY <2>1, RemoveAtElements
  <2>3. \A j, k \in DOMAIN RemoveAt(toplevels, i) :
           RemoveAt(toplevels, i)[j] = RemoveAt(toplevels, i)[k] => j = k
    BY <2>1, RemoveAtSet
  <2> QED BY <1>1, <2>2, <2>3
<1>3. {shell_tree', game_tree', overlay_tree'} \subseteq Surfaces \cup {NULL}
  BY DEF DestroyToplevel, ClearTree, ToplevelTypeOK
<1>4. role' \in [Surfaces -> Roles]
  BY DEF DestroyToplevel, ToplevelTypeOK, Roles
<1>5. above' \subseteq Surfaces \X Surfaces
  <2>1. Tracked' \subseteq Surfaces
    BY <1>2 DEF Tracked, ToSet
  <2> QED BY <2>1 DEF DestroyToplevel, Restack
<1>6. /\ fg_state' \in ForegroundStates
      /\ overlay_visible' \in BOOLEAN
      /\ overlay_told' \subseteq Clients
      /\ reported' \in ForegroundStates \cup {NoReport}
      /\ alive' \in BOOLEAN
      /\ enabled' \subseteq Surfaces
      /\ expected_launch_token' \in Tokens \cup {NoToken}
      /\ game_surface_ready' \in BOOLEAN
  <2>1. enabled \ {s} \subseteq Surfaces
    BY DEF ToplevelTypeOK
  <2>2. CASE role[s] = "GAME"
    <3>1. "SHELL_FOREGROUND" \in ForegroundStates
      BY DEF ForegroundStates
    <3>2. GameExited(enabled \ {s})
      BY <2>2 DEF DestroyToplevel
    <3> QED BY <1>3, <2>1, <3>1, <3>2, TransitionType DEF GameExited
  <2>3. CASE role[s] # "GAME"
    <3>1. Refresh(enabled \ {s}) /\ UNCHANGED <<stateVars, overlay_told, sendVars>>
      BY <2>3 DEF DestroyToplevel
    <3> QED BY <1>3, <2>1, <3>1
            DEF Refresh, VisibleTrees, RoleTrees, stateVars, sendVars,
                IpcTypeOK, ForegroundTypeOK, TrustedTypeOK
  <2> QED BY <2>2, <2>3
<1>7. IpcTypeOK'
  BY <1>6 DEF DestroyToplevel, IpcTypeOK, linkVars
<1>8. TrustedTypeOK'
  BY <1>6 DEF DestroyToplevel, TrustedTypeOK, clientVars, bindingVars
<1>9. ForegroundTypeOK'
  BY <1>6 DEF ForegroundTypeOK
<1>10. ToplevelTypeOK'
  BY <1>2, <1>3, <1>4, <1>5, <1>6 DEF ToplevelTypeOK
<1> QED BY <1>7, <1>8, <1>9, <1>10

\* Creating a window keeps the types; it enters the list exactly once.
LEMMA NewToplevelType ==
    ASSUME TypeOK, NEW s \in Surfaces, NewToplevel(s), UNCHANGED linkVars
    PROVE  TypeOK'
<1> USE DEF TypeOK
<1>1. /\ toplevels' \in Seq(Surfaces)
      /\ \A j, k \in DOMAIN toplevels' : toplevels'[j] = toplevels'[k] => j = k
  <2>1. toplevels' = Append(toplevels, s) /\ s \notin Tracked
    BY DEF NewToplevel
  <2>2. /\ toplevels \in Seq(Surfaces) /\ DOMAIN toplevels = 1 .. Len(toplevels)
        /\ Len(toplevels) \in Nat
    BY DEF ToplevelTypeOK
  <2>3. /\ DOMAIN toplevels' = 1 .. Len(toplevels) + 1
        /\ \A i \in 1 .. Len(toplevels) : toplevels'[i] = toplevels[i]
        /\ toplevels'[Len(toplevels) + 1] = s
        /\ toplevels' \in Seq(Surfaces)
    BY <2>1, <2>2, AppendElements
  <2>4. \A i \in 1 .. Len(toplevels) : toplevels[i] # s
    BY <2>1, <2>2 DEF Tracked, ToSet
  <2> QED BY <2>2, <2>3, <2>4 DEF ToplevelTypeOK
<1>2. enabled \cup {s} \subseteq Surfaces
  BY DEF ToplevelTypeOK
<1>3. /\ role' \in [Surfaces -> Roles]
      /\ above' \subseteq Surfaces \X Surfaces
      /\ {shell_tree', game_tree', overlay_tree'} \subseteq Surfaces \cup {NULL}
      /\ enabled' \subseteq Surfaces
  BY <1>1, <1>2, ReclassifyType DEF NewToplevel
<1> QED BY <1>1, <1>3
        DEF NewToplevel, IpcTypeOK, TrustedTypeOK, ForegroundTypeOK, ToplevelTypeOK,
            linkVars, wireVars, sendVars, clientVars, bindingVars, stateVars

\* An accepted claim keeps the types.
LEMMA RegisterType ==
    ASSUME TypeOK, NEW c \in Clients, RegisterShell(c) \/ RegisterOverlay(c), UNCHANGED linkVars
    PROVE  TypeOK'
<1> USE DEF TypeOK
<1>1. /\ role' \in [Surfaces -> Roles]
      /\ above' \subseteq Surfaces \X Surfaces
      /\ {shell_tree', game_tree', overlay_tree'} \subseteq Surfaces \cup {NULL}
      /\ enabled' \subseteq Surfaces
  BY ReclassifyType DEF RegisterShell, RegisterOverlay, ToplevelTypeOK
<1>2. TrustedTypeOK'
  BY DEF RegisterShell, RegisterOverlay, ClaimShell, ClaimOverlay, Resolve,
         TrustedTypeOK, bindingVars
<1> QED BY <1>1, <1>2
        DEF RegisterShell, RegisterOverlay, IpcTypeOK, ForegroundTypeOK, ToplevelTypeOK,
            linkVars, wireVars, sendVars, stateVars

-----------------------------------------------------------------------------
(* The steps of Next, by what they leave alone. *)

SessionStep == SessionHandler /\ Idle /\ UNCHANGED quiet

ClassifyStep ==
    /\ \/ \E s \in Surfaces : NewToplevel(s)
       \/ \E c \in Clients : RegisterShell(c) \/ RegisterOverlay(c)
    /\ UNCHANGED linkVars

DestroyStep == (\E s \in Surfaces : DestroyToplevel(s)) /\ UNCHANGED linkVars

ConnectionStep ==
    /\ \/ \E c \in Clients : Connect(c) \/ BeginClose(c) \/ OverlayBind(c)
       \/ DestroyBinding
       \/ ForgetClient /\ \A s \in Tracked : ClientOf[s] # closing
    /\ UNCHANGED <<ipcVars, stateVars, sceneVars>>

LinkStep ==
    /\ PeerCloses \/ IpcHangup \/ IpcReconnected \/ IpcRetryFailed
    /\ UNCHANGED offLink

\* Every step is of one of these kinds.
LEMMA NextSteps ==
    ASSUME [Next]_vars
    PROVE  \/ SessionStep
           \/ ClassifyStep
           \/ DestroyStep
           \/ ConnectionStep
           \/ LinkStep
           \/ UNCHANGED vars
<1>1. ASSUME NEW c \in Clients,
             ClientConnects(c) \/ ClientCloses(c) \/ ClientBindsOverlay(c) \/ ClientRejected(c)
      PROVE  ConnectionStep
  BY <1>1 DEF ClientConnects, ClientCloses, ClientBindsOverlay, ClientRejected,
              RegisterRejected, ConnectionStep, sceneVars, ipcVars
<1>2. ASSUME NEW c \in Clients, ClientRegistersShell(c) \/ ClientRegistersOverlay(c)
      PROVE  ClassifyStep
  BY <1>2 DEF ClientRegistersShell, ClientRegistersOverlay, ClassifyStep
<1>3. ASSUME NEW s \in Surfaces, ToplevelCreated(s) PROVE ClassifyStep
  BY <1>3 DEF ToplevelCreated, ClassifyStep
<1>4. ASSUME NEW s \in Surfaces, ToplevelCommits(s) PROVE SessionStep
  BY <1>4 DEF ToplevelCommits, CommitBuffer, Connected, SessionStep, SessionHandler, quiet
<1>5. ASSUME NEW s \in Surfaces, ToplevelDestroyed(s) PROVE DestroyStep
  BY <1>5 DEF ToplevelDestroyed, DestroyStep
<1>6. CASE BindingDestroyed \/ ClientGone
  BY <1>6 DEF BindingDestroyed, ClientGone, ConnectionStep
<1>7. CASE OverlayRequestsDismiss
  BY <1>7 DEF OverlayRequestsDismiss, Connected, SessionStep, SessionHandler, quiet
<1>8. CASE InitNext \/ SystemButton
  BY <1>8 DEF InitNext, IpcSetExpectedGame, IpcClearExpectedGame, IpcForceTerminateGame,
              IpcShowOverlay, IpcHideOverlay, Dispatching, SystemButton, SystemButtonPressed,
              SessionStep, SessionHandler
<1>9. CASE LinkNext
  BY <1>9 DEF LinkNext, LinkCloses, LinkHangup, LinkReconnects, LinkRetryFails, LinkStep
<1> QED BY <1>1, <1>2, <1>3, <1>4, <1>5, <1>6, <1>7, <1>8, <1>9 DEF Next, ClientNext

-----------------------------------------------------------------------------

\* Every step keeps the types.
LEMMA NextType == TypeOK /\ [Next]_vars => TypeOK'
<1> SUFFICES ASSUME TypeOK, [Next]_vars PROVE TypeOK'
  OBVIOUS
<1>1. CASE SessionStep
  BY <1>1, SessionHandlerType DEF SessionStep, quiet
<1>2. CASE ClassifyStep
  BY <1>2, NewToplevelType, RegisterType DEF ClassifyStep
<1>3. CASE DestroyStep
  BY <1>3, DestroyToplevelType DEF DestroyStep
<1>4. CASE ConnectionStep
  <2> USE DEF TypeOK, TrustedTypeOK, clientVars, bindingVars
  <2>1. IpcTypeOK' /\ ForegroundTypeOK' /\ ToplevelTypeOK'
    BY <1>4 DEF ConnectionStep, IpcTypeOK, ForegroundTypeOK, ToplevelTypeOK,
                ipcVars, linkVars, wireVars, sendVars, stateVars, sceneVars, surfaceVars, trees
  <2>2. ASSUME NEW c \in Clients, Connect(c) \/ BeginClose(c) PROVE TrustedTypeOK'
    BY <2>2 DEF Connect, BeginClose
  <2>3. ASSUME NEW c \in Clients, OverlayBind(c) PROVE TrustedTypeOK'
    BY <2>3 DEF OverlayBind, Resolve
  <2>4. ASSUME DestroyBinding PROVE TrustedTypeOK'
    BY <2>4 DEF DestroyBinding
  <2>5. ASSUME ForgetClient PROVE TrustedTypeOK'
    BY <2>5 DEF ForgetClient
  <2> QED BY <1>4, <2>1, <2>2, <2>3, <2>4, <2>5 DEF ConnectionStep
<1>5. CASE LinkStep
  <2>1. TrustedTypeOK' /\ ForegroundTypeOK' /\ ToplevelTypeOK'
    BY <1>5 DEF LinkStep, TypeOK, TrustedTypeOK, ForegroundTypeOK, ToplevelTypeOK,
                offLink, clientVars, bindingVars, stateVars, sceneVars, surfaceVars, trees
  <2>2. IpcTypeOK'
    BY <1>5, NextDelayType, DelayAssumption
       DEF LinkStep, TypeOK, PeerCloses, IpcHangup, IpcReconnected, IpcRetryFailed,
           FreshWire, IpcTypeOK, wireVars, sendVars
  <2> QED BY <2>1, <2>2 DEF TypeOK
<1>6. CASE UNCHANGED vars
  BY <1>6 DEF vars, TypeOK, IpcTypeOK, TrustedTypeOK, ForegroundTypeOK, ToplevelTypeOK,
              ipcVars, linkVars, wireVars, sendVars, clientVars, bindingVars, stateVars, surfaceVars, trees
<1> QED BY <1>1, <1>2, <1>3, <1>4, <1>5, <1>6, NextSteps

\* Every variable keeps its type in every reachable state, for any number of
\* clients, windows and launch tokens and any delays: no handler of the
\* compositor assigns a state, a role or a pointer outside its range.
THEOREM TypeCorrect == Spec => []TypeOK
<1>1. Init => TypeOK
  BY InitType
<1>2. TypeOK /\ [Next]_vars => TypeOK'
  BY NextType
<1> QED BY <1>1, <1>2, PTL DEF Spec
====
