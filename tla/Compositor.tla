---- MODULE Compositor ----
(***************************************************************************)
(* The running compositor: one libwayland event loop that dispatches, one  *)
(* at a time, requests of the Wayland clients, messages of playos-init,    *)
(* the System button, and the callbacks of the link.                       *)
(***************************************************************************)
EXTENDS Toplevels

vars == <<ipcVars, clientVars, bindingVars, overlay_told, stateVars, trees, enabled, surfaceVars>>

TypeOK ==
    /\ IpcTypeOK
    /\ TrustedTypeOK
    /\ ForegroundTypeOK
    /\ ToplevelTypeOK

Init ==
    /\ IpcInit
    /\ TrustedInit
    /\ StateInit
    /\ ToplevelInit

-----------------------------------------------------------------------------
(* Wayland clients. *)

sceneVars == <<trees, enabled, surfaceVars>>

ClientConnects(c) ==
    Connect(c) /\ UNCHANGED <<ipcVars, stateVars, sceneVars>>

ClientCloses(c) ==
    BeginClose(c) /\ UNCHANGED <<ipcVars, stateVars, sceneVars>>

ClientBindsOverlay(c) ==
    OverlayBind(c) /\ UNCHANGED <<ipcVars, stateVars, sceneVars>>

BindingDestroyed ==
    DestroyBinding /\ UNCHANGED <<ipcVars, stateVars, sceneVars>>

ClientGone ==
    /\ \A s \in Tracked : ClientOf[s] # closing
    /\ ForgetClient
    /\ UNCHANGED <<ipcVars, stateVars, sceneVars>>

ClientRegistersShell(c)   == RegisterShell(c) /\ UNCHANGED linkVars
ClientRegistersOverlay(c) == RegisterOverlay(c) /\ UNCHANGED linkVars
ClientRejected(c)         == RegisterRejected(c) /\ UNCHANGED linkVars
ToplevelCreated(s)        == NewToplevel(s) /\ UNCHANGED linkVars
ToplevelCommits(s)        == CommitBuffer(s) /\ UNCHANGED linkVars
ToplevelDestroyed(s)      == DestroyToplevel(s) /\ UNCHANGED linkVars

(* playos_overlay_request_dismiss *)
OverlayRequestsDismiss ==
    /\ Connected(overlay_client)
    /\ overlay_client \in overlay_resources
    /\ HideOverlay
    /\ UNCHANGED <<linkVars, clientVars, bindingVars, surfaceVars>>

-----------------------------------------------------------------------------
(* playos-init.  ipc_dispatch runs only with a descriptor; a message read   *)
(* from a peer that has just closed its end is still dispatched.            *)

Dispatching == Idle /\ link # "down"

quiet == <<linkVars, clientVars, bindingVars, surfaceVars>>

IpcSetExpectedGame(token) ==
    Dispatching /\ HandleSetExpectedGame(token) /\ UNCHANGED quiet
IpcClearExpectedGame   == Dispatching /\ HandleClearExpected /\ UNCHANGED quiet
IpcForceTerminateGame  == Dispatching /\ HandleForceTerminate /\ UNCHANGED quiet
IpcShowOverlay         == Dispatching /\ ShowOverlay /\ UNCHANGED quiet
IpcHideOverlay         == Dispatching /\ HideOverlay /\ UNCHANGED quiet

SystemButton == Idle /\ SystemButtonPressed /\ UNCHANGED quiet

offLink == <<clientVars, bindingVars, overlay_told, stateVars, sceneVars>>

LinkCloses      == Idle /\ PeerCloses /\ UNCHANGED offLink
LinkHangup      == Idle /\ IpcHangup /\ UNCHANGED offLink
LinkReconnects  == Idle /\ IpcReconnected /\ UNCHANGED offLink
LinkRetryFails  == Idle /\ IpcRetryFailed /\ UNCHANGED offLink

-----------------------------------------------------------------------------

ClientNext ==
    \/ \E c \in Clients : \/ ClientConnects(c)
                          \/ ClientCloses(c)
                          \/ ClientBindsOverlay(c)
                          \/ ClientRegistersShell(c)
                          \/ ClientRegistersOverlay(c)
                          \/ ClientRejected(c)
    \/ \E s \in Surfaces : \/ ToplevelCreated(s)
                           \/ ToplevelCommits(s)
                           \/ ToplevelDestroyed(s)
    \/ BindingDestroyed
    \/ ClientGone
    \/ OverlayRequestsDismiss

InitNext ==
    \/ \E token \in Tokens : IpcSetExpectedGame(token)
    \/ IpcClearExpectedGame
    \/ IpcForceTerminateGame
    \/ IpcShowOverlay
    \/ IpcHideOverlay

LinkNext == LinkCloses \/ LinkHangup \/ LinkReconnects \/ LinkRetryFails

\* A compositor that was killed does nothing any more.
Next == alive /\ (ClientNext \/ InitNext \/ SystemButton \/ LinkNext)

Spec == Init /\ [][Next]_vars
-----------------------------------------------------------------------------
(* Safety. *)

\* The tree pointers never dangle and never name a window of another role,
\* whichever order windows, claims and disconnects come in: state_machine.c
\* switches the node a pointer names without looking at it again
\* (compositor.c reclassify 89-113 and handle_toplevel_destroy 773-778).
TreesMatchRoles ==
    /\ shell_tree # NULL   => shell_tree \in Tracked /\ role[shell_tree] = "SHELL"
    /\ game_tree # NULL    => game_tree \in Tracked /\ role[game_tree] = "GAME"
    /\ overlay_tree # NULL => overlay_tree \in Tracked /\ role[overlay_tree] = "OVERLAY"

\* A window has the role of the client it belongs to, although windows are
\* created before, after and without a claim, and a client that disconnects
\* gives up the role while its windows still have it.  Without this the exit
\* of the shell or the overlay would end the game's session
\* (trusted_client.c 89-92, compositor.c 786).
RolesMatchClaims ==
    \A s \in Tracked :
        LET c == ClientOf[s]
        IN  /\ c \in clients
            /\ c = shell_client => role[s] = "SHELL"
            /\ c = overlay_client /\ c # shell_client => role[s] = "OVERLAY"
            /\ role[s] = "SHELL" => c \in {shell_client, closing}
            /\ role[s] = "OVERLAY" => c \in {overlay_client, closing}

\* Between two dispatches the scene shows exactly the role windows the
\* foreground state asks for: no handler that moves a tree pointer, the state
\* or the overlay flag forgets to refresh (state_machine.c 41-60).
SceneRefreshed == enabled \cap RoleTrees = VisibleTrees

\* The window of the foreground state, when there is one.
ForegroundTree ==
    IF OverlayVisible /\ overlay_tree # NULL THEN overlay_tree
    ELSE IF GameVisible THEN game_tree
    ELSE shell_tree

\* What the user sees on top is the window of the foreground state: it is
\* drawn, and over every other window that is drawn, secondary windows and
\* unclassified ones included (compositor.c 51-62 with state_machine.c 41-60).
ForegroundOnTop ==
    ForegroundTree # NULL =>
        /\ ForegroundTree \in enabled
        /\ \A s \in enabled \ {ForegroundTree} : <<ForegroundTree, s>> \in above

\* One launch at a time, and the pieces of it agree: a game is expected
\* exactly while a session is on, the ready flag is down until the first frame
\* (or the next launch could not activate), and the UI state is only entered
\* and kept with the overlay asked for (state_machine.c, overlay_manager.c).
SessionCoherent ==
    /\ fg_state \in SessionStates => expected_launch_token # NoToken
    /\ fg_state = "TERMINATING_GAME" => expected_launch_token = NoToken
    /\ fg_state = "GAME_STARTING" => ~game_surface_ready
    /\ fg_state \in {"GAME_FOREGROUND", UI} => game_surface_ready
    /\ game_surface_ready => expected_launch_token # NoToken
    /\ fg_state = UI => overlay_visible

\* No stale "visible" client: only the overlay client was told it is about to
\* be shown, only while the compositor itself takes it as visible, and it can
\* still be told otherwise (state_machine.c 87-89).
NoStaleVisibleClient ==
    /\ overlay_told \subseteq {overlay_client} \cap {overlay_resource}
    /\ overlay_told # {} => overlay_visible

\* A peer that heard of a state on this connection heard of the current one:
\* every change made while it is connected is sent (state_machine.c 106-108).
PeerNotMisled == link = "up" /\ reported # NoReport => reported = fg_state

\* While a game is up, the launch playos-init was told is ready on this
\* connection is the launch that is expected (state_machine.c 163-167).
ReadyNamesLaunch ==
    /\ link = "up"
    /\ fg_state \in {"GAME_FOREGROUND", UI}
    /\ ready_reported # NoToken
    => ready_reported = expected_launch_token

-----------------------------------------------------------------------------

(* The session playos-init sees implements Lifecycle. *)
Session == INSTANCE Lifecycle WITH state <- fg_state, launch <- expected_launch_token

\* Every handler, with the calls it makes, is one step of the lifecycle or
\* none (state_machine.c, overlay_manager.c).
ImplementsLifecycle == Session!LifecycleSpec

-----------------------------------------------------------------------------
(* Liveness. *)

\* The windows of unclaimed clients of the game role.
GameSurfaces == {s \in Tracked : role[s] = "GAME" /\ ClientOf[s] \notin Registrants}

\* External: a terminated game dies and its connection hangs up.  The hangup
\* stays pending while another client is being destroyed, which is one dispatch
\* in the code and several steps here: hence strong fairness.
TerminatedGameDies ==
    /\ alive
    /\ fg_state = "TERMINATING_GAME"
    /\ \E s \in GameSurfaces : ClientCloses(ClientOf[s])

\* libwayland finishes the destruction of a client it has begun.
CloseProceeds ==
    /\ alive
    /\ closing # NULL
    /\ \/ \E s \in Surfaces : ToplevelDestroyed(s)
       \/ BindingDestroyed
       \/ ClientGone

Fairness == SF_vars(TerminatedGameDies) /\ WF_vars(CloseProceeds)

FairSpec == Spec /\ Fairness

\* A forced termination of a game that has a window does end: the shell comes
\* back or another game is launched (README.md 18, state_machine.c 172-189).
TerminationEnds ==
    fg_state = "TERMINATING_GAME" /\ GameSurfaces # {}
        ~> fg_state # "TERMINATING_GAME" \/ ~alive
====
