---- MODULE Toplevels ----
(***************************************************************************)
(* The xdg toplevels of the session and their place in the scene           *)
(* (compositor.c): tracking, classification by trusted role, the tree      *)
(* pointers of the state machine, and the Z order.                         *)
(***************************************************************************)
EXTENDS Foreground, SequencesExt

CONSTANTS
    Surfaces,  \* toplevels
    ClientOf   \* the connection each belongs to

ASSUME SurfaceAssumption ==
    /\ NULL \notin Surfaces
    /\ ClientOf \in [Surfaces -> Clients]

VARIABLES
    toplevels,  \* c->toplevels, oldest first
    role,       \* track->role; "NONE" for a surface that is not tracked
    above       \* Z order: the pairs <<s, t>> with s drawn over t

surfaceVars == <<toplevels, role, above>>

Roles == {"NONE", "SHELL", "OVERLAY", "GAME"}

Tracked == ToSet(toplevels)

ToplevelTypeOK ==
    /\ toplevels \in Seq(Surfaces)
    /\ \A i, j \in DOMAIN toplevels : toplevels[i] = toplevels[j] => i = j
    /\ role \in [Surfaces -> Roles]
    /\ above \subseteq Surfaces \X Surfaces
    /\ {shell_tree, game_tree, overlay_tree} \subseteq Surfaces \cup {NULL}
    /\ enabled \subseteq Surfaces

ToplevelInit ==
    /\ toplevels = <<>>
    /\ role = [s \in Surfaces |-> "NONE"]
    /\ above = {}

(* compositor_role_for_client: an unclaimed client is the game only while one *)
(* is expected.                                                               *)
\* Mutant: a game that starts is not yet taken for the game.
MutNotWhileStarting(c) ==
    IF c = shell_client THEN "SHELL"
    ELSE IF c = overlay_client THEN "OVERLAY"
    ELSE IF fg_state \notin {"SHELL_FOREGROUND", "GAME_STARTING"} THEN "GAME"
    ELSE "NONE"

RoleOf(c) ==
    IF c = shell_client THEN "SHELL"
    ELSE IF c = overlay_client THEN "OVERLAY"
    ELSE IF fg_state # "SHELL_FOREGROUND" THEN "GAME"
    ELSE "NONE"

(* The oldest toplevel of a role, or NULL: the first match of the loop. *)
FirstWith(r) ==
    LET IsFirst(i) == /\ role[toplevels[i]] = r
                      /\ \A j \in DOMAIN toplevels : role[toplevels[j]] = r => i <= j
    IN  IF \E i \in DOMAIN toplevels : IsFirst(i)
        THEN toplevels[CHOOSE i \in DOMAIN toplevels : IsFirst(i)]
        ELSE NULL

(* compositor_restack: the three trees go to the top, shell then game then *)
(* overlay; the others keep their order below.                             *)
Rank(tree) ==
    IF tree = overlay_tree THEN 3
    ELSE IF tree = game_tree THEN 2
    ELSE IF tree = shell_tree THEN 1
    ELSE 0

\* Mutant: a new window stays where it was created, on top.
MutRestack(order) == above' = order \cap (Tracked' \X Tracked')

Restack(order) ==
    above' = {p \in Tracked' \X Tracked' :
                 \/ Rank(p[1])' > Rank(p[2])'
                 \/ Rank(p[1])' = Rank(p[2])' /\ p \in order}

(* playos_compositor_reclassify_toplevels. *)
Reclassify(nodes, order) ==
    /\ role' = [s \in Surfaces |->
                   IF s \in Tracked' THEN RoleOf(ClientOf[s])' ELSE "NONE"]
    /\ shell_tree' = FirstWith("SHELL")'
    /\ game_tree' = FirstWith("GAME")'
    /\ overlay_tree' = FirstWith("OVERLAY")'
    /\ Restack(order)
    /\ Refresh(nodes)

(* handle_new_xdg_toplevel: the new node is enabled and on top. *)
NewToplevel(s) ==
    /\ Connected(ClientOf[s])
    /\ s \notin Tracked
    /\ toplevels' = Append(toplevels, s)
    /\ UNCHANGED <<stateVars, wireVars, clientVars, bindingVars, overlay_told>>
    /\ Reclassify(enabled \cup {s}, above \cup ({s} \X Tracked))

(* handle_toplevel_commit of a buffer: the first-frame rule. *)
CommitBuffer(s) ==
    /\ Connected(ClientOf[s])
    /\ s \in Tracked
    /\ role[s] = "GAME"
    /\ GameSurfaceReady
    /\ UNCHANGED <<surfaceVars, clientVars, bindingVars>>

(* handle_toplevel_destroy, by request of the client or because the client is *)
(* going away.                                                                *)
\* Mutant: the pointer is left to the freed node.
MutClearTree(r, tree, s) == tree

ClearTree(r, tree, s) == IF role[s] = r /\ tree = s THEN NULL ELSE tree

Untrack(s) == RemoveAt(toplevels, CHOOSE i \in DOMAIN toplevels : toplevels[i] = s)

\* Mutant: whether the game is gone is asked of the pointer that was just cleared.
MutDestroyToplevel(s) ==
    /\ s \in Tracked
    /\ closing \in {NULL, ClientOf[s]}
    /\ toplevels' = Untrack(s)
    /\ role' = [role EXCEPT ![s] = "NONE"]
    /\ shell_tree' = ClearTree("SHELL", shell_tree, s)
    /\ game_tree' = ClearTree("GAME", game_tree, s)
    /\ overlay_tree' = ClearTree("OVERLAY", overlay_tree, s)
    /\ IF game_tree' = s
       THEN GameExited(enabled \ {s})
       ELSE UNCHANGED <<stateVars, overlay_told, sendVars>> /\ Refresh(enabled \ {s})
    /\ Restack(above)
    /\ UNCHANGED <<clientVars, bindingVars, ready_reported>>

DestroyToplevel(s) ==
    /\ s \in Tracked
    /\ closing \in {NULL, ClientOf[s]}
    /\ toplevels' = Untrack(s)
    /\ role' = [role EXCEPT ![s] = "NONE"]
    /\ shell_tree' = ClearTree("SHELL", shell_tree, s)
    /\ game_tree' = ClearTree("GAME", game_tree, s)
    /\ overlay_tree' = ClearTree("OVERLAY", overlay_tree, s)
    /\ IF role[s] = "GAME"
       THEN GameExited(enabled \ {s})
       ELSE UNCHANGED <<stateVars, overlay_told, sendVars>> /\ Refresh(enabled \ {s})
    /\ Restack(above)
    /\ UNCHANGED <<clientVars, bindingVars, ready_reported>>

(* register_shell and register_overlay, accepted: the claimant's surfaces may *)
(* have been classified before, so all of them are classified again.          *)
\* Mutant: the windows the shell created before its claim keep their role.
MutRegisterShell(c) ==
    /\ Connected(c)
    /\ c \in Registrants
    /\ ClaimShell(c)
    /\ UNCHANGED <<stateVars, wireVars, trees, enabled, surfaceVars>>

RegisterShell(c) ==
    /\ Connected(c)
    /\ c \in Registrants
    /\ ClaimShell(c)
    /\ UNCHANGED <<stateVars, wireVars, toplevels>>
    /\ Reclassify(enabled, above)

RegisterOverlay(c) ==
    /\ Connected(c)
    /\ c \in Registrants
    /\ ClaimOverlay(c)
    /\ UNCHANGED <<stateVars, wireVars, toplevels>>
    /\ Reclassify(enabled, above)

(* Rejected: role already taken.  The protocol error ends the connection. *)
RegisterRejected(c) ==
    /\ c \in Registrants
    /\ shell_client # NULL \/ overlay_client # NULL
    /\ BeginClose(c)
    /\ UNCHANGED <<stateVars, wireVars, surfaceVars, trees, enabled>>
====
