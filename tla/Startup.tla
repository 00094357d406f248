---- MODULE Startup ----
(***************************************************************************)
(* From playos_compositor_init to playos_compositor_destroy (compositor.c, *)
(* drm_backend.c, main.c): the choice of a backend with its fallbacks, the *)
(* outputs that come and go, and the teardown.  Every call that can fail   *)
(* may fail.                                                               *)
(*                                                                         *)
(* A listener is one list node: "link" is what the node says it is on,     *)
(* "heads" the lists that lead to it.  Adding a node that is on a list     *)
(* already leaves the old list leading to it.  wlroots asserts that the    *)
(* lists of an object are empty when it is freed (compositor.c 535-536).   *)
(***************************************************************************)
EXTENDS Naturals

CONSTANTS
    Outputs,     \* connectors
    MaxAttempts  \* polls for a GPU, 10 in the code

ASSUME StartupAssumption ==
    /\ MaxAttempts \in Nat \ {0}
    /\ {"unset", "self", "backend", "xdg_shell"} \cap Outputs = {}

VARIABLES
    pc,                \* where start is, or how it went on
    backend_type,      \* what PLAYOS_BACKEND asked for
    backend,           \* what runs
    attempts,          \* gpu_attempts
    renderer, allocator,
    display_renderers, \* calls of wlr_renderer_init_wl_display
    outputs,           \* external: connected outputs that were announced
    link,              \* of each listener: "unset", "self", or the object it is on
    heads              \* pairs of an object and a listener on its list

renderVars == <<backend, renderer, allocator, display_renderers>>
listVars   == <<link, heads>>
vars       == <<pc, backend_type, attempts, renderVars, outputs, listVars>>

Listeners == {"new_output", "new_xdg_surface", "new_input", "frame", "present"}
Objects   == {"backend", "xdg_shell"} \cup Outputs
\* "failed": start returned -1; "attached": an object was freed with our listener
\* on its list; "aborted": another assertion; "crashed": a list operation on
\* garbage.
Ended     == {"failed", "attached", "aborted", "crashed", "exited"}
Stages    == {"begin", "discover", "probe", "gpu", "card", "gpu_fallback", "headless_fallback",
              "plain", "objects", "manager", "overlay", "socket", "announce", "running"} \cup Ended

StartTypeOK ==
    /\ pc \in Stages
    /\ backend_type \in {"headless", "wayland", "drm"}
    /\ backend \in {"none", "headless", "wayland", "drm"}
    /\ attempts \in 0 .. MaxAttempts
    /\ renderer \in BOOLEAN /\ allocator \in BOOLEAN
    /\ display_renderers \in 0 .. 2
    /\ outputs \subseteq Outputs
    /\ link \in [Listeners -> {"unset", "self"} \cup Objects]
    /\ heads \subseteq Objects \X Listeners

(* main: PLAYOS_BACKEND, of which only two values are known. *)
AskedFor(backend_env) ==
    IF backend_env \in {"wayland", "drm"} THEN backend_env ELSE "headless"

(* playos_compositor_init: the memset, then the links that are initialised. *)
Init ==
    /\ pc = "begin"
    /\ \E backend_env \in {"unset", "wayland", "drm"} : backend_type = AskedFor(backend_env)
    /\ backend = "none"
    /\ attempts = 0
    /\ renderer = FALSE /\ allocator = FALSE
    /\ display_renderers = 0
    /\ outputs = {}
    /\ link = [l \in Listeners |-> IF l = "present" THEN "unset" ELSE "self"]
    /\ heads = {}

(* A start that fails destroys the display, and with it the backend and the *)
(* xdg shell.                                                               *)
Fail == pc' = IF heads = {} THEN "failed" ELSE "attached"

CreateDisplay ==
    /\ pc = "begin"
    /\ pc' \in {"failed", IF backend_type = "drm" THEN "discover" ELSE "plain"}
    /\ UNCHANGED <<backend_type, attempts, renderVars, outputs, listVars>>

(* One round of the poll for a GPU. *)
\* Mutant: a device that is there but not usable starts the count again.
MutDiscover ==
    /\ pc = "discover"
    /\ \/ pc' = "gpu" /\ UNCHANGED attempts
       \/ /\ attempts' \in {0, attempts + 1}
          /\ pc' = IF attempts' < MaxAttempts THEN "discover" ELSE "probe"
    /\ UNCHANGED <<backend_type, renderVars, outputs, listVars>>

\* Mutant: one round more.
MutRounds ==
    /\ pc = "discover"
    /\ \/ pc' = "gpu" /\ UNCHANGED attempts
       \/ /\ attempts' = attempts + 1
          /\ pc' = IF attempts' <= MaxAttempts THEN "discover" ELSE "probe"
    /\ UNCHANGED <<backend_type, renderVars, outputs, listVars>>

Discover ==
    /\ pc = "discover"
    /\ \/ pc' = "gpu" /\ UNCHANGED attempts
       \/ /\ attempts' = attempts + 1
          /\ pc' = IF attempts' < MaxAttempts THEN "discover" ELSE "probe"
    /\ UNCHANGED <<backend_type, renderVars, outputs, listVars>>

(* compositor_probe_drm_card *)
ProbeCard ==
    /\ pc = "probe"
    /\ pc' \in {"card", "headless_fallback"}
    /\ UNCHANGED <<backend_type, attempts, renderVars, outputs, listVars>>

(* Backend, renderer, allocator, in this order; ok when all three are there.  *)
(* A renderer is exposed to the display as soon as there is one.  Globals     *)
(* registered twice abort (compositor.c 166-168).                             *)
Expose == display_renderers' = IF renderer' THEN display_renderers + 1 ELSE display_renderers

Bring(kind, ok) ==
    \/ /\ ~ok
       /\ UNCHANGED renderVars
    \/ /\ backend' = kind
       /\ renderer' \in BOOLEAN
       /\ allocator' \in BOOLEAN /\ (allocator' => renderer')
       /\ Expose
       /\ ok <=> allocator'

(* playos_drm_backend_start, on the discovered GPU or on another card. *)
DrmBackendStart ==
    /\ pc \in {"gpu", "card"}
    /\ \E ok \in BOOLEAN :
          /\ Bring("drm", ok)
          /\ pc' = IF ok THEN "objects" ELSE IF pc = "gpu" THEN "gpu_fallback" ELSE "failed"
    /\ UNCHANGED <<backend_type, attempts, outputs, listVars>>

(* After a failed DRM start on the GPU only the backend is checked. *)
GpuFallback ==
    /\ pc = "gpu_fallback"
    /\ \/ /\ pc' = "failed"
          /\ backend' = "none"
          /\ UNCHANGED <<renderer, allocator, display_renderers>>
       \/ /\ backend' = "headless"
          /\ renderer' \in BOOLEAN
          /\ allocator' \in BOOLEAN /\ (allocator' => renderer')
          /\ Expose
          /\ pc' = IF display_renderers' > 1 THEN "aborted" ELSE "objects"
    /\ UNCHANGED <<backend_type, attempts, outputs, listVars>>

(* No DRM device with an output. *)
\* Mutant: renderer and allocator are not checked.
MutHeadlessFallback ==
    /\ pc = "headless_fallback"
    /\ \E ok \in BOOLEAN : Bring("headless", ok)
    /\ pc' = IF backend' = "none" THEN "failed" ELSE "objects"
    /\ UNCHANGED <<backend_type, attempts, outputs, listVars>>

HeadlessFallback ==
    /\ pc = "headless_fallback"
    /\ \E ok \in BOOLEAN :
          /\ Bring("headless", ok)
          /\ pc' = IF ok THEN "objects" ELSE "failed"
    /\ UNCHANGED <<backend_type, attempts, outputs, listVars>>

PlainBackend ==
    /\ pc = "plain"
    /\ \E ok \in BOOLEAN :
          /\ Bring(backend_type, ok)
          /\ pc' = IF ok THEN "objects" ELSE "failed"
    /\ UNCHANGED <<backend_type, attempts, outputs, listVars>>

(* wl_signal_add *)
Attach(at) ==
    /\ link' = [l \in Listeners |-> IF l \in DOMAIN at THEN at[l] ELSE link[l]]
    /\ heads' = heads \cup {<<at[l], l>> : l \in DOMAIN at}

\* Mutant: the backend is not listened to for keyboards before it starts.
MutStartListeners == [new_output |-> "backend", new_xdg_surface |-> "xdg_shell"]

StartListeners ==
    [new_output |-> "backend", new_xdg_surface |-> "xdg_shell", new_input |-> "backend"]

(* Scene, layout, xdg shell and seat. *)
CreateObjects ==
    /\ pc = "objects"
    /\ Fail \/ pc' = "manager"
    /\ UNCHANGED <<backend_type, attempts, renderVars, outputs, listVars>>

(* playos_manager_create: there may be no memory for its data or the global. *)
CreateManager ==
    /\ pc = "manager"
    /\ Fail \/ pc' = "overlay"
    /\ UNCHANGED <<backend_type, attempts, renderVars, outputs, listVars>>

(* playos_overlay_create, which fails like the manager, then the listeners.   *)
CreateOverlay ==
    /\ pc = "overlay"
    /\ \/ Fail /\ UNCHANGED listVars
       \/ /\ Attach(StartListeners)
          /\ pc' = "socket"
    /\ UNCHANGED <<backend_type, attempts, renderVars, outputs>>

(* wl_display_add_socket and chmod. *)
OpenSocket ==
    /\ pc = "socket"
    /\ Fail \/ pc' = "announce"
    /\ UNCHANGED <<backend_type, attempts, renderVars, outputs, listVars>>

(* wlr_backend_start returns; outputs are announced while it runs. *)
BackendStarts ==
    /\ pc = "announce"
    /\ Fail \/ pc' = "running"
    /\ UNCHANGED <<backend_type, attempts, renderVars, outputs, listVars>>

(* handle_new_output: wlr_output_init_render asserts its two arguments; each  *)
(* of the steps after it may return early.                                    *)
HandleNewOutput(o) ==
    /\ pc \in {"announce", "running"}
    /\ o \notin outputs
    /\ outputs' = outputs \cup {o}
    /\ \/ /\ ~(renderer /\ allocator)
          /\ pc' = "aborted"
          /\ UNCHANGED listVars
       \/ /\ renderer /\ allocator
          /\ UNCHANGED pc
          /\ \/ UNCHANGED listVars
             \/ Attach([frame |-> o, present |-> o])
    /\ UNCHANGED <<backend_type, attempts, renderVars>>

(* External: an output is unplugged and wlroots frees it.  The compositor has *)
(* no listener for it.                                                        *)
OutputGone(o) ==
    /\ pc = "running"
    /\ o \in outputs
    /\ outputs' = outputs \ {o}
    /\ pc' = IF \E l \in Listeners : <<o, l>> \in heads THEN "attached" ELSE pc
    /\ UNCHANGED <<backend_type, attempts, renderVars, listVars>>

(* External: an output draws or presents and its listeners are called; the    *)
(* walk along its list goes on from our node, and only ends if the node is    *)
(* still on that list.                                                        *)
Frame(o) ==
    /\ pc = "running"
    /\ o \in outputs
    /\ \E l \in {"frame", "present"} : <<o, l>> \in heads /\ link[l] # o
    /\ pc' = "crashed"
    /\ UNCHANGED <<backend_type, attempts, renderVars, outputs, listVars>>

(* playos_compositor_destroy, after SIGTERM ended the event loop: a node that *)
(* was never initialised has no neighbours to be taken from.                  *)
\* Mutant: the frame listener is not detached.
MutDestroy ==
    /\ pc = "running"
    /\ IF \E l \in Listeners : link[l] = "unset"
       THEN pc' = "crashed" /\ UNCHANGED listVars
       ELSE /\ heads' = heads \ {<<link[l], l>> : l \in Listeners \ {"frame"}}
            /\ link' = [l \in Listeners |-> IF l = "frame" THEN link[l] ELSE "unset"]
            /\ pc' = IF heads' = {} THEN "exited" ELSE "attached"
    /\ UNCHANGED <<backend_type, attempts, renderVars, outputs>>

Destroy ==
    /\ pc = "running"
    /\ IF \E l \in Listeners : link[l] = "unset"
       THEN pc' = "crashed" /\ UNCHANGED listVars
       ELSE /\ heads' = heads \ {<<link[l], l>> : l \in Listeners}
            /\ link' = [l \in Listeners |-> "unset"]
            /\ pc' = IF heads' = {} THEN "exited" ELSE "attached"
    /\ UNCHANGED <<backend_type, attempts, renderVars, outputs>>

-----------------------------------------------------------------------------

StartNext ==
    \/ CreateDisplay \/ Discover \/ ProbeCard \/ DrmBackendStart \/ GpuFallback
    \/ HeadlessFallback \/ PlainBackend \/ CreateObjects \/ CreateManager \/ CreateOverlay
    \/ OpenSocket \/ BackendStarts

Next ==
    \/ StartNext
    \/ \E o \in Outputs : HandleNewOutput(o) \/ OutputGone(o) \/ Frame(o)
    \/ Destroy

\* main calls playos_compositor_start, which waits for nothing but its own polls.
Spec == Init /\ [][Next]_vars /\ WF_vars(StartNext)

-----------------------------------------------------------------------------

\* Whichever branch was taken, the event loop starts with a renderer, an
\* allocator and a display that was given one renderer; the fallback after a
\* failed DRM start on a discovered GPU is the only one that does not look
\* (compositor.c 237-372).
RenderersChecked ==
    pc \in {"objects", "manager", "overlay", "socket", "announce", "running"} =>
        \/ renderer /\ allocator /\ display_renderers = 1
        \/ backend_type = "drm" /\ backend = "headless" /\ attempts < MaxAttempts

\* The outputs whose lists lead to our listeners.
SetUp == {o \in Outputs : <<o, "frame">> \in heads}

\* A compositor that set up one output, still there, detaches everything before
\* the display is destroyed and exits (compositor.c 527-550).
OneOutputShutsDown ==
    [][pc = "running" /\ pc' \in Ended /\ outputs' = outputs /\ (\E o \in outputs : SetUp = {o})
       => pc' = "exited"]_vars

\* The start ends, however many devices, renderers and sockets fail.
StartEnds == <>(pc \in Ended \cup {"running"})

-----------------------------------------------------------------------------
(* What comments say and the code does not do. *)

\* "Probing first means the backend is created exactly once; retrying after
\* wlr_renderer_init_wl_display() would register wl_shm and dmabuf globals twice
\* and abort" (compositor.c 166-168).
RendererOnce == display_renderers <= 1

\* "Detach listeners before wl_display_destroy" (compositor.c 535-536): no object
\* is freed with one of our listeners on its list.
ListenersDetached == pc # "attached"
====
