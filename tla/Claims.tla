---- MODULE Claims ----
(***************************************************************************)
(* What comments and documents of the repository say of the running        *)
(* compositor and the code does not do.  Each of these is checked to be    *)
(* violated; README.md tells the shortest way there.                       *)
(***************************************************************************)
EXTENDS Compositor

\* "the overlay must be treated as hidden so the next game can show it again"
\* (state_machine.c 82-85): with the flag still up in GAME_FOREGROUND, the
\* System button and ShowOverlay do nothing.
HiddenBehindGame == fg_state = "GAME_FOREGROUND" => ~overlay_visible

\* "Permanent DRM/KMS owner" (README.md 3), which is why compositor_ipc.c retries
\* when "compositor.sock" is "unavailable": no end of playos-init's connection
\* ends the compositor.
SurvivesPeer == alive

\* "Tracks which surface is in the foreground: shell, game, or the PlayOS overlay
\* UI" (compositor.h 43-44): while the game is in the foreground there is one.  A
\* trusted client's window that commits during GAME_STARTING, before its client
\* registers (trusted_client.c 89-91), activates the launch, and the claim takes
\* it out of the game tree.
GameOnScreen == fg_state = "GAME_FOREGROUND" => game_tree # NULL
====
