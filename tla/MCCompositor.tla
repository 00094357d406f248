---- MODULE MCCompositor ----
(***************************************************************************)
(* Compositor on small instances.  c1 and c2 may claim either role, or     *)
(* both; c3 is an unclaimed client, a game.                                *)
(***************************************************************************)
EXTENDS Claims

CONSTANTS c1, c2, c3, s1, s2, s3, s4

\* Two windows of one trusted client, one of the other, one of the game.
ThreeClients == (s1 :> c1) @@ (s2 :> c1) @@ (s3 :> c3) @@ (s4 :> c2)

\* One trusted client and one game.
OnePair == (s1 :> c1) @@ (s3 :> c3)

\* Bound: windows at a time.  Three are two of a client and one in front of or
\* behind them.
MaxWindows == 3

\* The link stays up: roles, windows and scene do not look at it, and Session.cfg
\* has it lost and regained.
SteadySpec ==
    /\ Init /\ link = "up"
    /\ [][Next /\ link' = "up" /\ Len(toplevels') <= MaxWindows]_vars
====
