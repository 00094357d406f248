---- MODULE Lifecycle ----
(***************************************************************************)
(* What the compositor promises playos-init about one console session: the *)
(* foreground state and the launch it is about, whatever the clients, the  *)
(* scene and the link are doing.                                           *)
(***************************************************************************)
CONSTANTS Tokens, NoToken

VARIABLES
    state,   \* foreground state
    launch   \* the expected launch token

Shell == "SHELL_FOREGROUND"
Starting == "GAME_STARTING"
Game == "GAME_FOREGROUND"
Summoned == "PLAYOS_UI_FOREGROUND_WITH_GAME_BACKGROUND"
Terminating == "TERMINATING_GAME"

LifecycleInit == state = Shell /\ launch = NoToken

\* A launch is announced, from any state; it replaces the one before it.
Launch(token) ==
    /\ state' = Starting
    /\ launch' = token

\* The first frame of the expected game.
Activate ==
    /\ state = Starting
    /\ state' = Game
    /\ UNCHANGED launch

\* The overlay comes over the game and goes away again.
Summon ==
    /\ state = Game
    /\ state' = Summoned
    /\ UNCHANGED launch

Dismiss ==
    /\ state = Summoned
    /\ state' = Game
    /\ UNCHANGED launch

\* The overlay goes away and there is no game under it any more: the shell
\* returns, and the launch is still the expected one.
DismissToShell ==
    /\ state = Summoned
    /\ state' = Shell
    /\ UNCHANGED launch

\* The game exits, or is not expected any more.
Return ==
    /\ state # Shell
    /\ state' = Shell
    /\ launch' = NoToken

Terminate ==
    /\ state' = Terminating
    /\ launch' = NoToken

\* A launch is called off when no game is starting or running.
CallOff ==
    /\ state \in {Shell, Terminating}
    /\ launch' = NoToken
    /\ UNCHANGED state

LifecycleNext ==
    \/ \E token \in Tokens : Launch(token)
    \/ Activate \/ Summon \/ Dismiss \/ DismissToShell
    \/ Return \/ Terminate \/ CallOff

LifecycleSpec == LifecycleInit /\ [][LifecycleNext]_<<state, launch>>
====
