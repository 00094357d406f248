---- MODULE Launches ----
(***************************************************************************)
(* The compositor and the games playos-init launches.                      *)
(*                                                                         *)
(* The compositor knows a game by exclusion: any client without a role     *)
(* whose window is classified outside SHELL_FOREGROUND (compositor.c       *)
(* 64-87).  Nothing ties the launch token to a connection.  Here every     *)
(* SetExpectedGame is for a game, and clients do what they like: a game    *)
(* may be there before the message, the game of an earlier launch may      *)
(* still be connected, a trusted client may create windows and commit to   *)
(* them before it registers (trusted_client.c 89-91), and any client has   *)
(* as many windows as it wants.                                            *)
(***************************************************************************)
EXTENDS Compositor

Games == Clients \ Registrants

VARIABLES
    game,      \* external: client of the game the last SetExpectedGame was for,
               \* until it is gone
    activator  \* history: the window whose frame began the session that is on, until
               \* its client claims a role; or NULL

launchVars == <<vars, game, activator>>

LaunchTypeOK ==
    /\ game \in Games \cup {NULL}
    /\ activator \in Surfaces \cup {NULL}

LaunchInit ==
    /\ Init
    /\ link = "up"
    /\ game = NULL
    /\ activator = NULL

\* The session goes on or it ends.
SessionKept == activator' = IF GameVisible' THEN activator ELSE NULL

(* The SetExpectedGame that playos-init sends for the game is dispatched. *)
LaunchHandled(g, token) ==
    /\ IpcSetExpectedGame(token)
    /\ game' = g
    /\ SessionKept

(* External: the game dies before it has connected. *)
GameFails ==
    /\ game # NULL
    /\ game \notin clients
    /\ game' = NULL
    /\ UNCHANGED <<vars, activator>>

(* A client connects, creates windows and commits to them. *)
MapsWindows(c) ==
    /\ \/ ClientConnects(c) /\ UNCHANGED activator
       \/ \E s \in Surfaces :
             /\ ClientOf[s] = c
             /\ \/ ToplevelCreated(s) /\ UNCHANGED activator
                \/ ToplevelCommits(s) /\ activator' = s
    /\ UNCHANGED game

(* A trusted client claims a role, whatever its windows were taken for. *)
Claims(c) ==
    /\ ClientRegistersShell(c) \/ ClientRegistersOverlay(c)
    /\ activator' = IF \E s \in Surfaces : s = activator /\ ClientOf[s] = c
                    THEN NULL ELSE activator
    /\ UNCHANGED game

(* Clients lose windows, bindings and connections. *)
ClientLoses ==
    /\ \/ \E c \in Clients : ClientCloses(c)
       \/ \E c \in Registrants : ClientRejected(c)
       \/ \E s \in Surfaces : ToplevelDestroyed(s)
       \/ BindingDestroyed
    /\ SessionKept
    /\ UNCHANGED game

LastOfClient ==
    /\ ClientGone
    /\ game' = IF game = closing THEN NULL ELSE game
    /\ UNCHANGED activator

(* The overlay, the other messages of playos-init, about this launch or an *)
(* earlier one, and the System button.                                     *)
OtherInput ==
    /\ \/ \E c \in Clients : ClientBindsOverlay(c)
       \/ OverlayRequestsDismiss
       \/ IpcClearExpectedGame
       \/ IpcForceTerminateGame
       \/ IpcShowOverlay
       \/ IpcHideOverlay
       \/ SystemButton
    /\ SessionKept
    /\ UNCHANGED game

LaunchNext ==
    /\ alive
    /\ \/ \E g \in Games, token \in Tokens : LaunchHandled(g, token)
       \/ GameFails
       \/ \E c \in Clients : MapsWindows(c)
       \/ \E c \in Registrants : Claims(c)
       \/ ClientLoses
       \/ LastOfClient
       \/ OtherInput

LaunchSpec == LaunchInit /\ [][LaunchNext]_launchVars

\* A game that is not killed goes on to its first frame.  Its requests stay in
\* its socket while other dispatches happen, whence strong fairness; and
\* libwayland finishes the destruction of a client it has begun.
GameSteps    == game # NULL /\ MapsWindows(game)
ClosingSteps == closing # NULL /\ (ClientLoses \/ LastOfClient)

LaunchFairness == SF_launchVars(GameSteps) /\ WF_launchVars(ClosingSteps)

LaunchFairSpec == LaunchSpec /\ LaunchFairness

-----------------------------------------------------------------------------

\* A session does not outlive the window that began it.  While a game is in the
\* foreground or behind the UI, the window whose frame brought it there is still
\* there and still the game's, whatever other windows its client or others have,
\* and whoever claims a role or goes away; but for a trusted client that claims its
\* role only then, whose window is the shell's or the overlay's from there on
\* (state_machine.c 172-189, compositor.c 89-113 and 763-792; README.md 18).
SessionHasItsGame ==
    activator # NULL => activator \in Tracked /\ role[activator] = "GAME"

\* The launch of g is dispatched, and g has no window that was created before and
\* is not classified.
GameAwaited(g) ==
    /\ game = g
    /\ fg_state \in SessionStates
    /\ \A s \in Tracked : ClientOf[s] = g => role[s] = "GAME"

GameUp(g) ==
    /\ GameVisible
    /\ \E s \in Tracked : ClientOf[s] = g /\ role[s] = "GAME"

LaunchOver(g) == game # g \/ fg_state \notin SessionStates

\* A launch comes to its game: the session begins and the game has a window in
\* the game role, also when the window of another client began it, unless the
\* game dies, another one is launched or the launch is ended.  (A window that is
\* created before the message is not classified when it comes, state_machine.c
\* 111-126.)
LaunchActivates == \A g \in Games : GameAwaited(g) ~> GameUp(g) \/ LaunchOver(g)
====
