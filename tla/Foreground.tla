---- MODULE Foreground ----
(***************************************************************************)
(* The foreground state machine (state_machine.c), the overlay requests    *)
(* that drive it (overlay_manager.c) and the System button                 *)
(* (system_button.c).                                                      *)
(*                                                                         *)
(* The scene is the set "enabled" of scene nodes the renderer would draw.  *)
(* The three tree pointers are maintained by Toplevels; the operators here *)
(* that refresh the scene read their new values, so that a handler that    *)
(* moves a pointer and then refreshes says so.                             *)
(***************************************************************************)
EXTENDS CompositorIpc, TrustedClients

VARIABLES
    fg_state,
    expected_launch_token,
    game_surface_ready,
    overlay_visible,
    shell_tree, game_tree, overlay_tree,  \* a toplevel, or NULL
    enabled                               \* enabled scene nodes

stateVars == <<fg_state, expected_launch_token, game_surface_ready, overlay_visible>>
trees     == <<shell_tree, game_tree, overlay_tree>>

\* States in which a game is expected or alive.
SessionStates == ForegroundStates \ {"SHELL_FOREGROUND", "TERMINATING_GAME"}
UI == "PLAYOS_UI_FOREGROUND_WITH_GAME_BACKGROUND"

ForegroundTypeOK ==
    /\ fg_state \in ForegroundStates
    /\ expected_launch_token \in Tokens \cup {NoToken}
    /\ game_surface_ready \in BOOLEAN
    /\ overlay_visible \in BOOLEAN

(* playos_state_init. *)
StateInit ==
    /\ fg_state = "SHELL_FOREGROUND"
    /\ expected_launch_token = NoToken
    /\ game_surface_ready = FALSE
    /\ overlay_visible = FALSE
    /\ shell_tree = NULL
    /\ game_tree = NULL
    /\ overlay_tree = NULL
    /\ enabled = {}

(* playos_state_refresh.  Only the three role trees are switched; the other *)
(* nodes of the scene keep the flag they had.                               *)
ShellVisible   == fg_state \in {"SHELL_FOREGROUND", "GAME_STARTING", "TERMINATING_GAME"}
GameVisible    == fg_state \in {"GAME_FOREGROUND", UI}
OverlayVisible == overlay_visible /\ fg_state = UI

RoleTrees == {shell_tree, game_tree, overlay_tree} \ {NULL}

VisibleTrees ==
    {tree \in RoleTrees : \/ tree = shell_tree   /\ ShellVisible
                          \/ tree = game_tree    /\ GameVisible
                          \/ tree = overlay_tree /\ OverlayVisible}

Refresh(nodes) == enabled' = (nodes \ RoleTrees') \cup VisibleTrees'

(* The tail of playos_state_transition: assign, refresh, report. *)
\* Mutants: the scene is refreshed for the old state; the old name is reported.
MutRefreshesFirst(state, nodes) ==
    /\ fg_state' = state
    /\ enabled' = (nodes \ RoleTrees') \cup VisibleTrees
    /\ ReportState(state)

MutReportsOldState(state, nodes) ==
    /\ fg_state' = state
    /\ Refresh(nodes)
    /\ ReportState(fg_state)

EnterState(state, nodes) ==
    /\ fg_state' = state
    /\ Refresh(nodes)
    /\ ReportState(state)

(* playos_state_transition.  Leaving for the shell or for a termination hides *)
(* the overlay and tells its client.                                          *)
OverlayEnds(state) == state \in {"SHELL_FOREGROUND", "TERMINATING_GAME"}

\* Mutant: the overlay flag is reset without telling the client.
MutTransition(state, nodes) ==
    IF fg_state = state
    THEN /\ enabled' = nodes
         /\ UNCHANGED <<fg_state, overlay_visible, overlay_told, sendVars>>
    ELSE /\ overlay_visible' = (overlay_visible /\ ~OverlayEnds(state))
         /\ UNCHANGED overlay_told
         /\ EnterState(state, nodes)

Transition(state, nodes) ==
    IF fg_state = state
    THEN /\ enabled' = nodes
         /\ UNCHANGED <<fg_state, overlay_visible, overlay_told, sendVars>>
    ELSE /\ overlay_visible' = (overlay_visible /\ ~OverlayEnds(state))
         /\ overlay_told' = IF overlay_visible /\ OverlayEnds(state) THEN ToldHide ELSE overlay_told
         /\ EnterState(state, nodes)

-----------------------------------------------------------------------------
(* The IPC handlers of state_machine.c. *)

\* Mutants: the ready flag of the last launch stays up; a running game is not
\* replaced.
MutKeepsReadyFlag(token) ==
    /\ UNCHANGED <<trees, ready_reported>>
    /\ expected_launch_token' = token
    /\ UNCHANGED game_surface_ready
    /\ Transition("GAME_STARTING", enabled)

MutKeepsRunningGame(token) ==
    /\ UNCHANGED <<trees, ready_reported>>
    /\ expected_launch_token' = token
    /\ IF fg_state \in {"GAME_FOREGROUND", UI}
       THEN UNCHANGED <<fg_state, game_surface_ready, overlay_visible, overlay_told, sendVars, enabled>>
       ELSE game_surface_ready' = FALSE /\ Transition("GAME_STARTING", enabled)

HandleSetExpectedGame(token) ==
    /\ UNCHANGED <<trees, ready_reported>>
    /\ expected_launch_token' = token
    /\ game_surface_ready' = FALSE
    /\ Transition("GAME_STARTING", enabled)

HandleClearExpected ==
    /\ UNCHANGED <<trees, ready_reported>>
    /\ expected_launch_token' = NoToken
    /\ game_surface_ready' = FALSE
    /\ IF fg_state \in SessionStates
       THEN Transition("SHELL_FOREGROUND", enabled)
       ELSE UNCHANGED <<fg_state, overlay_visible, overlay_told, sendVars, enabled>>

HandleForceTerminate ==
    /\ UNCHANGED <<trees, ready_reported>>
    /\ Transition("TERMINATING_GAME", enabled)
    /\ expected_launch_token' = NoToken
    /\ game_surface_ready' = FALSE

(* playos_state_game_surface_ready.  Both early returns are the guard. *)
\* Mutant: any committed buffer of a game activates it.
MutGameSurfaceReady ==
    /\ UNCHANGED <<expected_launch_token, trees>>
    /\ ~game_surface_ready
    /\ game_surface_ready' = TRUE
    /\ ReportReady(expected_launch_token)
    /\ Transition("GAME_FOREGROUND", enabled)

GameSurfaceReady ==
    /\ UNCHANGED <<expected_launch_token, trees>>
    /\ ~game_surface_ready
    /\ fg_state = "GAME_STARTING"
    /\ game_surface_ready' = TRUE
    /\ ReportReady(expected_launch_token)
    /\ Transition("GAME_FOREGROUND", enabled)

(* playos_state_game_exited, called with the node of the destroyed toplevel *)
(* already out of the scene.                                                *)
\* Mutant: a terminated game is not seen to exit.
MutGameExited(nodes) ==
    /\ IF fg_state = "TERMINATING_GAME"
       THEN enabled' = nodes /\ UNCHANGED <<fg_state, overlay_visible, overlay_told, sendVars>>
       ELSE Transition("SHELL_FOREGROUND", nodes)
    /\ expected_launch_token' = NoToken
    /\ game_surface_ready' = FALSE

GameExited(nodes) ==
    /\ Transition("SHELL_FOREGROUND", nodes)
    /\ expected_launch_token' = NoToken
    /\ game_surface_ready' = FALSE

-----------------------------------------------------------------------------
(* overlay_manager.c *)

ShowOverlay ==
    /\ UNCHANGED <<expected_launch_token, game_surface_ready, trees, ready_reported>>
    /\ ~overlay_visible
    /\ overlay_visible' = TRUE
    /\ overlay_told' = ToldShow
    /\ IF fg_state = "GAME_FOREGROUND"
       THEN EnterState(UI, enabled)
       ELSE UNCHANGED <<fg_state, sendVars>> /\ Refresh(enabled)

HideOverlay ==
    /\ UNCHANGED <<expected_launch_token, game_surface_ready, trees, ready_reported>>
    /\ overlay_visible
    /\ overlay_visible' = FALSE
    /\ overlay_told' = ToldHide
    /\ IF fg_state = UI
       THEN EnterState(IF game_tree # NULL THEN "GAME_FOREGROUND" ELSE "SHELL_FOREGROUND", enabled)
       ELSE UNCHANGED <<fg_state, sendVars>> /\ Refresh(enabled)

(* handle_keyboard_key, a SYSTEM key pressed. *)
SystemButtonPressed ==
    \/ fg_state = "GAME_FOREGROUND" /\ ShowOverlay
    \/ fg_state = UI /\ HideOverlay
====
