---- MODULE MCLaunches ----
(***************************************************************************)
(* Launches with a trusted client, which may hold either role or both, a   *)
(* game with two windows and one with a single window.                     *)
(***************************************************************************)
EXTENDS Launches

CONSTANTS c1, g1, g2, s1, s2, s3, s4

WindowsOf == (s1 :> c1) @@ (s2 :> g1) @@ (s3 :> g1) @@ (s4 :> g2)

\* Bound: games do not bind the overlay global.  Nothing is ever sent on a binding
\* of theirs, which EventsReachOverlay says in Roles.cfg; and no fair action binds.
BoundOverlays == overlay_resources' \subseteq Registrants

MCLaunchSpec ==
    /\ LaunchInit
    /\ [][LaunchNext /\ BoundOverlays]_launchVars
    /\ LaunchFairness
====
