---- MODULE CompositorScene ----
(***************************************************************************)
(* The scene of Compositor, proved for every value of its constants: the   *)
(* tree pointers, the roles of the windows, what is drawn and in which     *)
(* order.                                                                  *)
(***************************************************************************)
EXTENDS CompositorSafety

-----------------------------------------------------------------------------
(* The list of windows. *)

\* Destroying a window removes it from the list, and no other.
LEMMA DestroyTracked ==
    ASSUME TypeOK, NEW s \in Surfaces, DestroyToplevel(s)
    PROVE  Tracked' = Tracked \ {s}
<1>1. PICK i \in DOMAIN toplevels : toplevels[i] = s /\ toplevels' = RemoveAt(toplevels, i)
  BY DEF DestroyToplevel, Untrack, Tracked, ToSet
<1>2. /\ toplevels \in Seq(Surfaces)
      /\ \A j, k \in DOMAIN toplevels : toplevels[j] = toplevels[k] => j = k
  BY DEF TypeOK, ToplevelTypeOK
<1>3. ToSet(RemoveAt(toplevels, i)) = ToSet(toplevels) \ {toplevels[i]}
  BY <1>2, RemoveAtSet
<1> QED BY <1>1, <1>3 DEF Tracked

\* Creating a window adds it to the list, and no other.
LEMMA CreateTracked ==
    ASSUME TypeOK, NEW s \in Surfaces, NewToplevel(s)
    PROVE  Tracked' = Tracked \cup {s}
<1>1. toplevels \in Seq(Surfaces)
  BY DEF TypeOK, ToplevelTypeOK
<1> QED BY <1>1, AppendElements DEF NewToplevel, Tracked

\* Everything a classification step does to the scene is a reclassification.
LEMMA ClassifyFrame ==
    ASSUME TypeOK, ClassifyStep
    PROVE  \E nodes, order :
              /\ nodes \subseteq enabled \cup (Tracked' \ Tracked)
              /\ Reclassify(nodes, order)
              /\ Tracked \subseteq Tracked'
              /\ \A s \in Tracked' \ Tracked : Connected(ClientOf[s])
              /\ toplevels' \in Seq(Surfaces)
              /\ UNCHANGED <<clients, closing>>
<1>1. ASSUME NEW s \in Surfaces, NewToplevel(s)
      PROVE  /\ Reclassify(enabled \cup {s}, above \cup ({s} \X Tracked))
             /\ Tracked' \ Tracked = {s}
             /\ Tracked \subseteq Tracked'
             /\ Connected(ClientOf[s])
             /\ UNCHANGED <<clients, closing>>
  BY <1>1, CreateTracked DEF NewToplevel, clientVars
<1>2. ASSUME NEW c \in Clients, RegisterShell(c) \/ RegisterOverlay(c)
      PROVE  Reclassify(enabled, above) /\ Tracked' = Tracked /\ UNCHANGED <<clients, closing>>
  BY <1>2 DEF RegisterShell, RegisterOverlay, ClaimShell, ClaimOverlay, Tracked
<1>3. toplevels' \in Seq(Surfaces)
  <2>1. toplevels \in Seq(Surfaces)
    BY DEF TypeOK, ToplevelTypeOK
  <2>2. ASSUME NEW s \in Surfaces, NewToplevel(s) PROVE toplevels' \in Seq(Surfaces)
    BY <2>1, <2>2, AppendElements DEF NewToplevel
  <2>3. ASSUME NEW c \in Clients, RegisterShell(c) \/ RegisterOverlay(c)
        PROVE  toplevels' \in Seq(Surfaces)
    BY <2>1, <2>3 DEF RegisterShell, RegisterOverlay
  <2> QED BY <2>2, <2>3 DEF ClassifyStep
<1>4. CASE \E s \in Surfaces : NewToplevel(s)
  <2>1. PICK s \in Surfaces : NewToplevel(s)
    BY <1>4
  <2>2. enabled \cup {s} \subseteq enabled \cup (Tracked' \ Tracked)
    BY <1>1, <2>1
  <2> QED BY <1>1, <1>3, <2>1, <2>2
<1>5. CASE \E c \in Clients : RegisterShell(c) \/ RegisterOverlay(c)
  BY <1>2, <1>3, <1>5
<1> QED BY <1>4, <1>5 DEF ClassifyStep

-----------------------------------------------------------------------------
(* Tree pointers. *)

\* A step that touches no window keeps the pointers.
LEMMA TreesInductive ==
    ASSUME TypeOK, TreesMatchRoles, [Next]_vars
    PROVE  TreesMatchRoles'
<1> USE DEF TreesMatchRoles
<1>1. ASSUME UNCHANGED <<trees, surfaceVars>> PROVE TreesMatchRoles'
  BY <1>1 DEF trees, surfaceVars, Tracked
<1>2. CASE SessionStep
  BY <1>2, <1>1 DEF SessionStep, quiet, SessionHandler, HandleSetExpectedGame,
     HandleClearExpected, HandleForceTerminate, ShowOverlay, HideOverlay, GameSurfaceReady
<1>3. CASE ClassifyStep
  BY <1>3, ClassifyFrame, FirstWithTracked DEF Reclassify
<1>4. CASE DestroyStep
  <2>1. PICK s \in Surfaces : DestroyToplevel(s)
    BY <1>4 DEF DestroyStep
  <2>2. Tracked' = Tracked \ {s} /\ role' = [role EXCEPT ![s] = "NONE"]
    BY <2>1, DestroyTracked DEF DestroyToplevel
  <2>3. role \in [Surfaces -> Roles] /\ Tracked \subseteq Surfaces
    BY DEF TypeOK, ToplevelTypeOK, Tracked, ToSet
  <2> QED BY <2>1, <2>2, <2>3 DEF DestroyToplevel, ClearTree
<1>5. CASE ConnectionStep \/ LinkStep \/ UNCHANGED vars
  BY <1>5, <1>1 DEF ConnectionStep, LinkStep, offLink, sceneVars, vars
<1> QED BY <1>2, <1>3, <1>4, <1>5, NextSteps

\* No tree pointer dangles or names a window of another role, for any number of
\* clients and windows (compositor.c 89-113 and 773-778).
THEOREM TreesSafe == Spec => []TreesMatchRoles
<1>1. Init => TreesMatchRoles
  BY DEF Init, StateInit, TreesMatchRoles
<1>2. TypeOK /\ TreesMatchRoles /\ [Next]_vars => TreesMatchRoles'
  BY TreesInductive
<1> QED BY <1>1, <1>2, TypeCorrect, PTL DEF Spec

-----------------------------------------------------------------------------
(* Roles. *)

\* Every step keeps the roles of the windows in step with the claims.
LEMMA RolesInductive ==
    ASSUME TypeOK, ClientInv, RolesMatchClaims, [Next]_vars
    PROVE  RolesMatchClaims'
<1> USE ClientAssumption DEF RolesMatchClaims
<1>0. /\ \A s \in Tracked \cup Tracked' : s \in Surfaces /\ ClientOf[s] \in Clients
      /\ TrustedTypeOK /\ TrustedTypeOK'
  BY NextType, SurfaceAssumption DEF TypeOK, ToplevelTypeOK, Tracked, ToSet
<1>1. ASSUME UNCHANGED <<clientVars, surfaceVars>> PROVE RolesMatchClaims'
  BY <1>1 DEF clientVars, surfaceVars, Tracked
<1>2. CASE SessionStep
  BY <1>2, <1>1 DEF SessionStep, quiet
<1>3. CASE ClassifyStep
  <2>1. \A s \in Tracked' : role'[s] = RoleOf(ClientOf[s])'
    BY <1>0, <1>3, ClassifyFrame DEF Reclassify
  <2>2. \A s \in Tracked' : ClientOf[s] \in clients'
    BY <1>3, ClassifyFrame DEF Connected
  <2> QED BY <1>0, <2>1, <2>2 DEF RoleOf
<1>4. CASE DestroyStep
  <2>1. PICK s \in Surfaces : DestroyToplevel(s)
    BY <1>4 DEF DestroyStep
  <2>2. /\ Tracked' = Tracked \ {s} /\ role' = [role EXCEPT ![s] = "NONE"]
        /\ UNCHANGED clientVars
    BY <2>1, DestroyTracked DEF DestroyToplevel
  <2>3. role \in [Surfaces -> Roles]
    BY DEF TypeOK, ToplevelTypeOK
  <2> QED BY <1>0, <2>2, <2>3 DEF clientVars
<1>5. CASE ConnectionStep
  <2>1. UNCHANGED <<Tracked, role>>
    BY <1>5 DEF ConnectionStep, sceneVars, surfaceVars, Tracked
  <2>2. ASSUME NEW c \in Clients, Connect(c) PROVE RolesMatchClaims'
    BY <2>1, <2>2 DEF Connect
  <2>3. ASSUME NEW c \in Clients, BeginClose(c) PROVE RolesMatchClaims'
    BY <1>0, <2>1, <2>3 DEF BeginClose, Connected, Idle
  <2>4. ASSUME UNCHANGED clientVars PROVE RolesMatchClaims'
    BY <2>1, <2>4 DEF clientVars
  <2>5. CASE ForgetClient /\ \A s \in Tracked : ClientOf[s] # closing
    BY <1>0, <2>1, <2>5 DEF ForgetClient
  <2> QED BY <1>5, <2>2, <2>3, <2>4, <2>5 DEF ConnectionStep, OverlayBind, DestroyBinding
<1>6. CASE LinkStep \/ UNCHANGED vars
  BY <1>6, <1>1 DEF LinkStep, offLink, sceneVars, vars
<1> QED BY <1>2, <1>3, <1>4, <1>5, <1>6, NextSteps

\* A window has the role of its client, whatever order windows, claims and
\* disconnects come in: a window of the shell or the overlay is never taken for
\* the game once its client has claimed (trusted_client.c 89-92).
THEOREM RolesSafe == Spec => []RolesMatchClaims
<1>1. Init => RolesMatchClaims
  BY DEF Init, ToplevelInit, RolesMatchClaims, Tracked, ToSet
<1>2. TypeOK /\ ClientInv /\ RolesMatchClaims /\ [Next]_vars => RolesMatchClaims'
  BY RolesInductive
<1> QED BY <1>1, <1>2, TypeCorrect, ClientsInvariant, PTL DEF Spec

-----------------------------------------------------------------------------
(* What is drawn. *)

\* Windows that are drawn are on the list, and the role windows are stacked.
Stacked ==
    /\ enabled \subseteq Tracked
    /\ \A s, t \in Tracked : Rank(s) > Rank(t) => <<s, t>> \in above

\* The drawn set is only known to be fresh together with the pointers.
SceneInv == TreesMatchRoles /\ Stacked /\ SceneRefreshed

\* A refresh shows what the state asks for and keeps to the windows there are.
LEMMA RefreshScene ==
    ASSUME NEW nodes, nodes \subseteq Tracked', Refresh(nodes), TreesMatchRoles'
    PROVE  SceneRefreshed' /\ enabled' \subseteq Tracked'
<1>1. VisibleTrees' \subseteq RoleTrees' /\ RoleTrees' \subseteq Tracked'
  BY DEF VisibleTrees, RoleTrees, TreesMatchRoles
<1> QED BY <1>1 DEF Refresh, SceneRefreshed

\* So does a transition, when its early return leaves a scene that is right.
LEMMA TransitionScene ==
    ASSUME NEW state, NEW nodes, nodes \subseteq Tracked', TreesMatchRoles',
           Transition(state, nodes),
           UNCHANGED <<fg_state, overlay_visible>> /\ enabled' = nodes => SceneRefreshed'
    PROVE  SceneRefreshed' /\ enabled' \subseteq Tracked'
<1>1. CASE fg_state = state
  BY <1>1 DEF Transition
<1>2. CASE fg_state # state
  BY <1>2, RefreshScene DEF Transition, EnterState
<1> QED BY <1>1, <1>2

\* The scene depends on no other variable.
LEMMA SceneUnchanged ==
    ASSUME SceneRefreshed, UNCHANGED <<fg_state, overlay_visible, trees, enabled>>
    PROVE  SceneRefreshed'
  BY DEF SceneRefreshed, VisibleTrees, RoleTrees, ShellVisible, GameVisible, OverlayVisible, trees

\* The session handlers leave a right scene.
LEMMA SessionScene ==
    ASSUME SceneInv, SessionStep, TreesMatchRoles'
    PROVE  SceneRefreshed' /\ enabled' \subseteq Tracked'
<1>1. UNCHANGED trees
  BY DEF SessionStep, SessionHandler, HandleSetExpectedGame, HandleClearExpected,
         HandleForceTerminate, ShowOverlay, HideOverlay, GameSurfaceReady
<1>2. Tracked' = Tracked
  BY DEF SessionStep, quiet, surfaceVars, Tracked
<1>3. enabled \subseteq Tracked' /\ SceneRefreshed
  BY <1>2 DEF SceneInv, Stacked
<1>4. ASSUME NEW state, Transition(state, enabled)
      PROVE  SceneRefreshed' /\ enabled' \subseteq Tracked'
  BY <1>1, <1>3, <1>4, TransitionScene, SceneUnchanged
<1>5. CASE ShowOverlay \/ HideOverlay
  BY <1>3, <1>5, RefreshScene DEF ShowOverlay, HideOverlay, EnterState
<1>6. CASE HandleClearExpected
  BY <1>1, <1>3, <1>4, <1>6, SceneUnchanged DEF HandleClearExpected
<1> QED BY <1>4, <1>5, <1>6
        DEF SessionStep, SessionHandler, HandleSetExpectedGame, HandleForceTerminate,
            GameSurfaceReady

\* So does the destruction of a window, whose node has gone from the scene.
LEMMA DestroyScene ==
    ASSUME TypeOK, SceneInv, NEW s \in Surfaces, DestroyToplevel(s), TreesMatchRoles'
    PROVE  SceneRefreshed' /\ enabled' \subseteq Tracked'
<1>1. enabled \ {s} \subseteq Tracked'
  BY DestroyTracked DEF SceneInv, Stacked
<1>2. CASE role[s] = "GAME"
  <2>1. Transition("SHELL_FOREGROUND", enabled \ {s})
    BY <1>2 DEF DestroyToplevel, GameExited
  <2>2. ASSUME UNCHANGED <<fg_state, overlay_visible>>, enabled' = enabled \ {s},
               fg_state = "SHELL_FOREGROUND"
        PROVE  SceneRefreshed'
    <3>1. shell_tree' = shell_tree /\ overlay_tree' = overlay_tree
      BY <1>2 DEF DestroyToplevel, ClearTree
    <3>2. game_tree' = game_tree \/ (game_tree' = NULL /\ game_tree = s)
      BY DEF DestroyToplevel, ClearTree
    <3>3. s \notin {shell_tree, overlay_tree}
      BY <1>2, SurfaceAssumption DEF SceneInv, TreesMatchRoles
    <3>4. ASSUME NEW t PROVE (t \in enabled' \cap RoleTrees') <=> t \in VisibleTrees'
      <4>1. VisibleTrees = {shell_tree} \ {NULL} /\ VisibleTrees' = {shell_tree} \ {NULL}
        BY <2>2, <3>1 DEF VisibleTrees, RoleTrees, ShellVisible, GameVisible, OverlayVisible, UI
      <4>2. enabled \cap RoleTrees = {shell_tree} \ {NULL}
        BY <4>1 DEF SceneInv, SceneRefreshed
      <4>3. game_tree # NULL => role[game_tree] # role[shell_tree] \/ shell_tree = NULL
        BY DEF SceneInv, TreesMatchRoles
      <4> QED BY <2>2, <3>1, <3>2, <3>3, <4>1, <4>2 DEF RoleTrees
    <3> QED BY <3>4 DEF SceneRefreshed
  <2>3. CASE fg_state = "SHELL_FOREGROUND"
    BY <1>1, <2>1, <2>2, <2>3 DEF Transition
  <2>4. CASE fg_state # "SHELL_FOREGROUND"
    BY <1>1, <2>1, <2>4, RefreshScene DEF Transition, EnterState
  <2> QED BY <2>3, <2>4
<1>3. CASE role[s] # "GAME"
  BY <1>1, <1>3, RefreshScene DEF DestroyToplevel
<1> QED BY <1>2, <1>3

\* A restack puts the role windows in order.
LEMMA RestackOrder ==
    ASSUME NEW order, Restack(order)
    PROVE  \A s, t \in Tracked' : Rank(s)' > Rank(t)' => <<s, t>> \in above'
  BY DEF Restack

\* Every step leaves pointers, order and scene right.
LEMMA SceneInductive ==
    ASSUME TypeOK, SceneInv, [Next]_vars
    PROVE  SceneInv'
<1>0. TreesMatchRoles'
  BY TreesInductive DEF SceneInv
<1>1. ASSUME UNCHANGED <<trees, surfaceVars>>
      PROVE  \A s, t \in Tracked' : Rank(s)' > Rank(t)' => <<s, t>> \in above'
  BY <1>1 DEF SceneInv, Stacked, Rank, Tracked, trees, surfaceVars
<1>2. CASE SessionStep
  <2>1. UNCHANGED <<trees, surfaceVars>>
    BY <1>2 DEF SessionStep, quiet, SessionHandler, HandleSetExpectedGame,
       HandleClearExpected, HandleForceTerminate, ShowOverlay, HideOverlay, GameSurfaceReady
  <2> QED BY <1>0, <1>1, <1>2, <2>1, SessionScene DEF SceneInv, Stacked
<1>3. CASE ClassifyStep
  <2>1. PICK nodes, order : /\ nodes \subseteq enabled \cup (Tracked' \ Tracked)
                            /\ Reclassify(nodes, order)
                            /\ Tracked \subseteq Tracked'
    BY <1>3, ClassifyFrame
  <2>2. nodes \subseteq Tracked'
    BY <2>1 DEF SceneInv, Stacked
  <2> QED BY <1>0, <2>1, <2>2, RefreshScene, RestackOrder DEF Reclassify, SceneInv, Stacked
<1>4. CASE DestroyStep
  <2>1. PICK s \in Surfaces : DestroyToplevel(s)
    BY <1>4 DEF DestroyStep
  <2>2. Restack(above)
    BY <2>1 DEF DestroyToplevel
  <2> QED BY <1>0, <2>1, <2>2, DestroyScene, RestackOrder DEF SceneInv, Stacked
<1>5. CASE ConnectionStep \/ LinkStep \/ UNCHANGED vars
  <2>1. UNCHANGED <<trees, surfaceVars, enabled, fg_state, overlay_visible>>
    BY <1>5 DEF ConnectionStep, LinkStep, offLink, sceneVars, stateVars, vars
  <2>2. enabled' \subseteq Tracked'
    BY <2>1 DEF SceneInv, Stacked, Tracked, surfaceVars
  <2> QED BY <1>0, <1>1, <2>1, <2>2, SceneUnchanged DEF SceneInv, Stacked
<1> QED BY <1>2, <1>3, <1>4, <1>5, NextSteps

\* Pointers, order and scene are right in every reachable state.
LEMMA SceneInvariant == Spec => []SceneInv
<1>1. Init => SceneInv
  BY DEF Init, StateInit, ToplevelInit, SceneInv, TreesMatchRoles, Stacked, SceneRefreshed,
         VisibleTrees, RoleTrees, Tracked, ToSet
<1>2. TypeOK /\ SceneInv /\ [Next]_vars => SceneInv'
  BY SceneInductive
<1> QED BY <1>1, <1>2, TypeCorrect, PTL DEF Spec

\* Between two dispatches the role windows that are drawn are the ones the
\* foreground state asks for (state_machine.c 41-60).
THEOREM SceneSafe == Spec => []SceneRefreshed
<1>1. SceneInv => SceneRefreshed
  BY DEF SceneInv
<1> QED BY <1>1, SceneInvariant, PTL

\* The window of the foreground state is drawn, over every other window that is
\* drawn, for any number of windows (compositor.c 51-62).
THEOREM ForegroundSafe == Spec => []ForegroundOnTop
<1>1. ASSUME TypeOK, SceneInv PROVE ForegroundOnTop
  <2> DEFINE f == ForegroundTree
  <2> USE DEF SceneInv
  <2> SUFFICES ASSUME f # NULL
               PROVE  f \in enabled /\ \A s \in enabled \ {f} : <<f, s>> \in above
    BY DEF ForegroundOnTop
  <2>1. enabled \cap RoleTrees = VisibleTrees /\ enabled \subseteq Tracked
    BY <1>1 DEF SceneRefreshed, Stacked
  <2>2. f \in VisibleTrees
    BY <1>1 DEF ForegroundTree, VisibleTrees, RoleTrees, ShellVisible, GameVisible, OverlayVisible,
           UI, TypeOK, ForegroundTypeOK, ForegroundStates
  <2>3. ASSUME NEW s \in enabled, s # f PROVE Rank(f) > Rank(s)
    <3>1. /\ shell_tree # game_tree \/ shell_tree = NULL
          /\ shell_tree # overlay_tree \/ shell_tree = NULL
          /\ game_tree # overlay_tree \/ game_tree = NULL
      BY <1>1 DEF TreesMatchRoles
    <3>2. s # NULL
      BY <1>1, <2>1, SurfaceAssumption DEF Tracked, ToSet, TypeOK, ToplevelTypeOK
    <3>3. CASE s \notin RoleTrees
      BY <2>2, <3>2, <3>3 DEF Rank, VisibleTrees, RoleTrees
    <3>4. CASE s \in RoleTrees
      <4>1. s \in VisibleTrees
        BY <2>1, <3>4
      <4> QED BY <2>2, <2>3, <3>1, <3>2, <4>1
              DEF Rank, ForegroundTree, VisibleTrees, RoleTrees, ShellVisible, GameVisible,
                  OverlayVisible, UI
    <3> QED BY <3>3, <3>4
  <2>4. f \in Tracked
    BY <2>1, <2>2
  <2> QED BY <1>1, <2>1, <2>2, <2>3, <2>4 DEF Stacked
<1> QED BY <1>1, SceneInvariant, TypeCorrect, PTL
====
