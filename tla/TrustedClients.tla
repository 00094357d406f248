---- MODULE TrustedClients ----
(***************************************************************************)
(* Who is trusted: the shell and overlay roles (trusted_client.c) and the  *)
(* bindings of playos_overlay_v1 (playos_manager.c).                       *)
(*                                                                         *)
(* A client goes away in several callbacks: libwayland first runs the      *)
(* client's destroy listeners, which release its roles, then destroys its  *)
(* resources one by one, which runs the destructor of each overlay binding *)
(* and of each toplevel.  "closing" is the client this is happening to;    *)
(* nothing else is dispatched until it is gone.                            *)
(***************************************************************************)
CONSTANTS
    Clients,      \* Wayland connections
    Registrants,  \* those that may use playos_manager_v1
    NULL

ASSUME ClientAssumption == NULL \notin Clients /\ Registrants \subseteq Clients

VARIABLES
    clients,            \* external: connected clients
    closing,            \* external: the client libwayland is destroying, or NULL
    shell_client,
    overlay_client,
    overlay_resources,  \* clients with a playos_overlay_v1 binding on the list
    overlay_resource,   \* the client whose binding receives the events, or NULL
    overlay_told        \* clients whose last visibility event was about_to_show

clientVars == <<clients, closing, shell_client, overlay_client>>
bindingVars == <<overlay_resources, overlay_resource>>

TrustedTypeOK ==
    /\ clients \subseteq Clients
    /\ closing \in Clients \cup {NULL}
    /\ shell_client \in Clients \cup {NULL}
    /\ overlay_client \in Clients \cup {NULL}
    /\ overlay_resources \subseteq Clients
    /\ overlay_resource \in Clients \cup {NULL}
    /\ overlay_told \subseteq Clients

TrustedInit ==
    /\ clients = {}
    /\ closing = NULL
    /\ shell_client = NULL
    /\ overlay_client = NULL
    /\ overlay_resources = {}
    /\ overlay_resource = NULL
    /\ overlay_told = {}

\* The event loop is between two dispatches.
Idle == closing = NULL

Connected(c) == Idle /\ c \in clients

(* External: a client connects. *)
Connect(c) ==
    /\ Idle
    /\ c \notin clients
    /\ clients' = clients \cup {c}
    /\ UNCHANGED <<closing, shell_client, overlay_client, bindingVars, overlay_told>>

(* playos_overlay_send_about_to_show / _hide: dropped without a binding. *)
ToldShow == overlay_told \cup ({overlay_resource} \ {NULL})
ToldHide == overlay_told \ {overlay_resource}

(* playos_overlay_resolve_resource: the claimant's binding, if it has one.   *)
(* The list is newest first, so a second binding replaces an earlier one.    *)
Resolve(c, bound) == IF c \in bound THEN c ELSE overlay_resource

(* playos_trusted_client_claim, the role being free. *)
ClaimShell(c) ==
    /\ shell_client = NULL
    /\ shell_client' = c
    /\ UNCHANGED <<clients, closing, overlay_client, bindingVars, overlay_told>>

\* Mutant: a binding made before the claim is not promoted.
MutClaimOverlay(c) ==
    /\ overlay_client = NULL
    /\ overlay_client' = c
    /\ UNCHANGED <<clients, closing, shell_client, bindingVars, overlay_told>>

ClaimOverlay(c) ==
    /\ overlay_client = NULL
    /\ overlay_client' = c
    /\ overlay_resource' = Resolve(c, overlay_resources)
    /\ UNCHANGED <<clients, closing, shell_client, overlay_resources, overlay_told>>

(* playos_overlay_bind: any client may bind the global, before or after a *)
(* claim.                                                                 *)
OverlayBind(c) ==
    /\ Connected(c)
    /\ overlay_resources' = overlay_resources \cup {c}
    /\ overlay_resource' =
           IF overlay_client = c THEN Resolve(c, overlay_resources') ELSE overlay_resource
    /\ UNCHANGED <<clientVars, overlay_told>>

(* wl_client_destroy begins: playos_trusted_shell_client_gone and            *)
(* playos_trusted_overlay_client_gone.  The client no longer hears anything. *)
\* Mutant: the overlay role outlives the connection.
MutBeginClose(c) ==
    /\ Connected(c)
    /\ closing' = c
    /\ shell_client' = IF shell_client = c THEN NULL ELSE shell_client
    /\ overlay_told' = overlay_told \ {c}
    /\ UNCHANGED <<clients, overlay_client, bindingVars>>

BeginClose(c) ==
    /\ Connected(c)
    /\ closing' = c
    /\ shell_client' = IF shell_client = c THEN NULL ELSE shell_client
    /\ overlay_client' = IF overlay_client = c THEN NULL ELSE overlay_client
    /\ overlay_told' = overlay_told \ {c}
    /\ UNCHANGED <<clients, bindingVars>>

(* playos_overlay_resource_destroy, for the bindings of the closing client. *)
DestroyBinding ==
    /\ closing \in overlay_resources
    /\ overlay_resources' = overlay_resources \ {closing}
    /\ overlay_resource' = IF overlay_resource = closing THEN NULL ELSE overlay_resource
    /\ UNCHANGED <<clientVars, overlay_told>>

(* External: every resource of the closing client is gone. *)
ForgetClient ==
    /\ closing # NULL
    /\ closing \notin overlay_resources
    /\ clients' = clients \ {closing}
    /\ closing' = NULL
    /\ UNCHANGED <<shell_client, overlay_client, bindingVars, overlay_told>>

-----------------------------------------------------------------------------

\* A role, and a binding on the list, belongs to a live connection: the role is
\* released with the connection, before anything else of the client goes, or
\* the process that replaces it would be rejected (trusted_client.c 24-27).
HoldersConnected ==
    /\ {shell_client, overlay_client} \subseteq (clients \cup {NULL}) \ ({closing} \ {NULL})
    /\ closing \in clients \cup {NULL}
    /\ overlay_resources \subseteq clients
    /\ overlay_resource \in overlay_resources \cup {NULL}

\* The visibility events go to the overlay client and nobody else: the binding
\* they are sent on belongs to the client that holds the overlay role, and the
\* role holder's binding is found whichever of bind and register_overlay came
\* first (playos_manager.c 142-147, 155-170, 234-238).
EventsReachOverlay ==
    /\ overlay_resource \in {overlay_client, closing, NULL}
    /\ overlay_client \in overlay_resources => overlay_resource = overlay_client
====
