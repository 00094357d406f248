---- MODULE StartupProofs ----
(***************************************************************************)
(* The start and the teardown, for any outputs and any number of polls.    *)
(* RenderersChecked is inductive once it is known what has happened at     *)
(* each stage (StageInv); the teardown needs to know where every listener  *)
(* is (ListenerInv).                                                       *)
(***************************************************************************)
EXTENDS Keyboards, TLAPS

Polling == {"discover", "gpu", "gpu_fallback"}
Early   == {"begin", "discover", "probe", "gpu", "card", "headless_fallback", "plain"}
Built   == {"objects", "manager", "overlay"}

\* What has been done at each stage of the start.
StageInv ==
    /\ pc = "begin" => attempts = 0
    /\ pc \in Early => display_renderers = 0
    /\ pc \in Polling => backend_type = "drm" /\ attempts < MaxAttempts
    /\ pc = "gpu_fallback" => display_renderers <= 1
    /\ pc \in Built \cup {"socket", "announce", "running"} => display_renderers <= 1

\* Where the listeners are.
ListenerInv ==
    /\ pc \in Early \cup Built \cup {"gpu_fallback"} => heads = {}
    /\ pc \in {"socket", "announce", "running"} =>
          /\ link["new_output"] = "backend"
          /\ link["new_xdg_surface"] = "xdg_shell"
          /\ link["new_input"] = "backend"
          /\ <<"backend", "new_input">> \in heads
          /\ heads \subseteq {<<"backend", "new_output">>, <<"xdg_shell", "new_xdg_surface">>,
                              <<"backend", "new_input">>} \cup (Outputs \X {"frame", "present"})
          /\ \A o \in Outputs : <<o, "frame">> \in heads <=> <<o, "present">> \in heads
          /\ SetUp # {} => link["frame"] \in SetUp /\ link["present"] = link["frame"]

StartInv == StartTypeOK /\ StageInv /\ RenderersChecked

-----------------------------------------------------------------------------

LEMMA StartInvInit == Init => StartInv
<1> SUFFICES ASSUME Init PROVE StartInv
  OBVIOUS
<1>1. link \in [Listeners -> {"unset", "self"} \cup Objects]
  BY DEF Init
<1>2. attempts \in 0 .. MaxAttempts /\ attempts = 0
  BY StartupAssumption DEF Init
<1>3. renderer \in BOOLEAN /\ allocator \in BOOLEAN
  BY Zenon DEF Init
<1>4. /\ pc \in Stages
      /\ backend_type \in {"headless", "wayland", "drm"}
      /\ backend \in {"none", "headless", "wayland", "drm"}
  BY DEF Init, AskedFor, Stages
<1>5. heads \subseteq Objects \X Listeners /\ outputs \subseteq Outputs /\ display_renderers \in 0 .. 2
  BY DEF Init
<1>6. StartTypeOK
  BY <1>1, <1>2, <1>3, <1>4, <1>5 DEF StartTypeOK
<1>7. StageInv /\ RenderersChecked
  BY DEF Init, AskedFor, StageInv, RenderersChecked, Early, Built, Polling
<1> QED
  BY <1>6, <1>7 DEF StartInv

\* What an attempt to bring a backend up leaves behind.
LEMMA BringResult ==
    ASSUME NEW kind \in {"headless", "wayland", "drm"}, NEW ok \in BOOLEAN,
           StartTypeOK, display_renderers = 0, Bring(kind, ok)
    PROVE  /\ backend' \in {"none", "headless", "wayland", "drm"}
           /\ renderer' \in BOOLEAN /\ allocator' \in BOOLEAN
           /\ display_renderers' \in {0, 1}
           /\ ok => renderer' /\ allocator' /\ display_renderers' = 1
<1>1. CASE ~ok /\ UNCHANGED renderVars
  BY <1>1 DEF StartTypeOK, renderVars
<1>2. CASE /\ backend' = kind
           /\ renderer' \in BOOLEAN
           /\ allocator' \in BOOLEAN /\ (allocator' => renderer')
           /\ Expose
           /\ ok <=> allocator'
  <2>1. backend' \in {"none", "headless", "wayland", "drm"}
    BY <1>2
  <2>2. renderer' \in BOOLEAN /\ allocator' \in BOOLEAN /\ (ok => renderer' /\ allocator')
    BY <1>2, Zenon
  <2>3. IF renderer' THEN display_renderers' = 1 ELSE display_renderers' = 0
    BY <1>2 DEF Expose
  <2> QED
    BY <2>1, <2>2, <2>3
<1> QED
  BY <1>1, <1>2, Zenon DEF Bring

LEMMA StartInvStep == StartInv /\ [Next]_vars => StartInv'
<1> SUFFICES ASSUME StartInv, [Next]_vars PROVE StartInv'
  OBVIOUS
<1> USE StartupAssumption
    DEF StartInv, StartTypeOK, StageInv, RenderersChecked, renderVars, listVars, Early, Built,
        Polling, Stages, Ended
<1>1. CASE CreateDisplay
  BY <1>1 DEF CreateDisplay
<1>2. CASE Discover
  BY <1>2 DEF Discover
<1>3. CASE ProbeCard
  BY <1>3 DEF ProbeCard
<1>4. CASE DrmBackendStart
  <2>1. PICK ok \in BOOLEAN :
          /\ Bring("drm", ok)
          /\ pc' = IF ok THEN "objects" ELSE IF pc = "gpu" THEN "gpu_fallback" ELSE "failed"
    BY <1>4 DEF DrmBackendStart
  <2>2. pc \in {"gpu", "card"} /\ UNCHANGED <<backend_type, attempts, outputs, listVars>>
    BY <1>4 DEF DrmBackendStart
  <2> QED
    BY <2>1, <2>2, BringResult
<1>5. CASE GpuFallback
  BY <1>5 DEF GpuFallback, Expose
<1>6. CASE HeadlessFallback
  <2>1. PICK ok \in BOOLEAN :
          Bring("headless", ok) /\ pc' = IF ok THEN "objects" ELSE "failed"
    BY <1>6 DEF HeadlessFallback
  <2>2. pc = "headless_fallback" /\ UNCHANGED <<backend_type, attempts, outputs, listVars>>
    BY <1>6 DEF HeadlessFallback
  <2> QED
    BY <2>1, <2>2, BringResult
<1>7. CASE PlainBackend
  <2>1. PICK ok \in BOOLEAN :
          Bring(backend_type, ok) /\ pc' = IF ok THEN "objects" ELSE "failed"
    BY <1>7 DEF PlainBackend
  <2>2. pc = "plain" /\ UNCHANGED <<backend_type, attempts, outputs, listVars>>
    BY <1>7 DEF PlainBackend
  <2> QED
    BY <2>1, <2>2, BringResult
<1>8. CASE CreateObjects \/ CreateManager
  BY <1>8 DEF CreateObjects, CreateManager, Fail
<1>8a. CASE CreateOverlay
  BY <1>8a DEF CreateOverlay, Fail, Attach, StartListeners, Listeners, Objects
<1>9. CASE OpenSocket
  BY <1>9 DEF OpenSocket, Fail
<1>10. CASE BackendStarts
  BY <1>10 DEF BackendStarts, Fail
<1>11. ASSUME NEW o \in Outputs, HandleNewOutput(o) PROVE StartInv'
  BY <1>11 DEF HandleNewOutput, Attach, Listeners, Objects
<1>12. ASSUME NEW o \in Outputs, OutputGone(o) PROVE StartInv'
  BY <1>12 DEF OutputGone
<1>13. ASSUME NEW o \in Outputs, Frame(o) PROVE StartInv'
  BY <1>13 DEF Frame
<1>14. CASE Destroy
  BY <1>14 DEF Destroy, Listeners, Objects
<1>15. CASE UNCHANGED vars
  BY <1>15 DEF vars
<1> QED
  BY <1>1, <1>2, <1>3, <1>4, <1>5, <1>6, <1>7, <1>8, <1>9, <1>10, <1>11, <1>12, <1>13,
     <1>14, <1>15, <1>8a DEF Next, StartNext

\* Every variable keeps the values the code gives it; the polls end in time, and
\* no display is given a third renderer.
THEOREM StartTypeCorrect == Spec => []StartTypeOK
<1>1. StartInv => StartTypeOK
  BY DEF StartInv
<1> QED
  BY <1>1, StartInvInit, StartInvStep, PTL DEF Spec

\* The event loop runs with a renderer, an allocator and a display that was given
\* one renderer, whichever branch of playos_compositor_start led there; except
\* after a failed DRM start on a discovered GPU.
THEOREM StartChecksRenderers == Spec => []RenderersChecked
<1>1. StartInv => RenderersChecked
  BY DEF StartInv
<1> QED
  BY <1>1, StartInvInit, StartInvStep, PTL DEF Spec

-----------------------------------------------------------------------------

LEMMA ListenerInvInit == Init => ListenerInv
BY DEF Init, ListenerInv, Early, Built

LEMMA ListenerInvStep == StartTypeOK /\ ListenerInv /\ [Next]_vars => ListenerInv'
<1> SUFFICES ASSUME StartTypeOK, ListenerInv, [Next]_vars PROVE ListenerInv'
  OBVIOUS
<1> USE StartupAssumption DEF ListenerInv, SetUp, listVars, Early, Built, Ended
<1>1. ASSUME pc \in Early \cup {"gpu_fallback", "objects", "manager"}, UNCHANGED listVars,
             pc' \in Early \cup Built \cup {"gpu_fallback", "failed", "aborted"}
      PROVE  ListenerInv'
  BY <1>1
<1>2. CASE CreateDisplay \/ Discover \/ ProbeCard
  BY <1>1, <1>2 DEF CreateDisplay, Discover, ProbeCard
<1>3. CASE DrmBackendStart \/ HeadlessFallback \/ PlainBackend
  BY <1>1, <1>3 DEF DrmBackendStart, HeadlessFallback, PlainBackend
<1>4. CASE GpuFallback
  BY <1>1, <1>4 DEF GpuFallback
<1>4a. CASE CreateObjects \/ CreateManager
  BY <1>1, <1>4a DEF CreateObjects, CreateManager, Fail
<1>5. CASE CreateOverlay
  <2>1. CASE Fail /\ UNCHANGED listVars
    BY <2>1, <1>5 DEF Fail, CreateOverlay
  <2>2. CASE Attach(StartListeners) /\ pc' = "socket"
    <3>1. heads' = {<<"backend", "new_output">>, <<"xdg_shell", "new_xdg_surface">>,
                    <<"backend", "new_input">>}
      BY <2>2, <1>5 DEF Attach, StartListeners, CreateOverlay
    <3>2. /\ link'["new_output"] = "backend" /\ link'["new_xdg_surface"] = "xdg_shell"
          /\ link'["new_input"] = "backend"
      BY <2>2 DEF Attach, StartListeners, Listeners
    <3> QED
      BY <2>2, <3>1, <3>2
  <2> QED
    BY <2>1, <2>2, <1>5 DEF CreateOverlay
<1>6. CASE OpenSocket \/ BackendStarts
  BY <1>6 DEF OpenSocket, BackendStarts, Fail
<1>7. ASSUME NEW o \in Outputs, HandleNewOutput(o) PROVE ListenerInv'
  <2>1. CASE UNCHANGED listVars
    BY <2>1, <1>7 DEF HandleNewOutput
  <2>2. CASE Attach([frame |-> o, present |-> o])
    <3>1. heads' = heads \cup {<<o, "frame">>, <<o, "present">>}
      BY <2>2 DEF Attach
    <3>2. /\ link'["frame"] = o /\ link'["present"] = o
          /\ \A l \in Listeners \ {"frame", "present"} : link'[l] = link[l]
      BY <2>2 DEF Attach, Listeners
    <3>3. pc \in {"announce", "running"} /\ pc' \in {pc, "aborted"}
      BY <1>7 DEF HandleNewOutput
    <3>4. /\ link'["new_output"] = "backend" /\ link'["new_xdg_surface"] = "xdg_shell"
          /\ link'["new_input"] = "backend"
      BY <3>2, <3>3 DEF Listeners
    <3>5. \A p \in Outputs : <<p, "frame">> \in heads' <=> <<p, "present">> \in heads'
      BY <3>1, <3>3
    <3>6. o \in SetUp'
      BY <3>1
    <3>7. heads' \subseteq {<<"backend", "new_output">>, <<"xdg_shell", "new_xdg_surface">>,
                            <<"backend", "new_input">>} \cup (Outputs \X {"frame", "present"})
      BY <3>1, <3>3
    <3>8. <<"backend", "new_input">> \in heads'
      BY <3>1, <3>3
    <3> QED
      BY <3>2, <3>3, <3>4, <3>5, <3>6, <3>7, <3>8
  <2> QED
    BY <2>1, <2>2, <1>7 DEF HandleNewOutput
<1>8. ASSUME NEW o \in Outputs, OutputGone(o) \/ Frame(o) PROVE ListenerInv'
  BY <1>8 DEF OutputGone, Frame
<1>9. CASE Destroy
  BY <1>9 DEF Destroy
<1>10. CASE UNCHANGED vars
  BY <1>10 DEF vars
<1> QED
  BY <1>2, <1>3, <1>4, <1>5, <1>6, <1>7, <1>8, <1>9, <1>10, <1>4a
     DEF Next, StartNext

LEMMA ShutsDownStep ==
    StartTypeOK /\ ListenerInv /\ [Next]_vars =>
        (pc = "running" /\ pc' \in Ended /\ outputs' = outputs
            /\ (\E o \in outputs : SetUp = {o}) => pc' = "exited")
<1> SUFFICES ASSUME StartTypeOK, ListenerInv, [Next]_vars, pc = "running", pc' \in Ended,
                    outputs' = outputs, NEW o \in outputs, SetUp = {o}
             PROVE  pc' = "exited"
  OBVIOUS
<1> USE StartupAssumption
<1>1. link["frame"] = o /\ link["present"] = o /\ o \in Outputs
  BY DEF ListenerInv, SetUp, StartTypeOK
<1>2. \A p \in Outputs : <<p, "frame">> \in heads \/ <<p, "present">> \in heads => p = o
  BY DEF ListenerInv, SetUp
<1>3. /\ link["new_output"] = "backend" /\ link["new_xdg_surface"] = "xdg_shell"
      /\ link["new_input"] = "backend"
  BY DEF ListenerInv
<1>4. \A l \in Listeners : link[l] # "unset"
  BY <1>1, <1>3 DEF Listeners
<1>5. heads \subseteq {<<link[l], l>> : l \in Listeners}
  <2> SUFFICES ASSUME NEW h \in heads PROVE h \in {<<link[l], l>> : l \in Listeners}
    OBVIOUS
  <2>1. CASE h \in {<<"backend", "new_output">>, <<"xdg_shell", "new_xdg_surface">>,
                    <<"backend", "new_input">>}
    BY <2>1, <1>3 DEF Listeners
  <2>2. CASE h \in Outputs \X {"frame", "present"}
    <3>1. PICK p \in Outputs, l \in {"frame", "present"} : h = <<p, l>>
      BY <2>2
    <3>2. p = o
      BY <3>1, <1>2
    <3> QED
      BY <3>1, <3>2, <1>1 DEF Listeners
  <2> QED
    BY <2>1, <2>2 DEF ListenerInv
<1>6. CASE Destroy
  <2>1. /\ heads' = heads \ {<<link[l], l>> : l \in Listeners}
        /\ pc' = IF heads' = {} THEN "exited" ELSE "attached"
    BY <1>4, <1>6 DEF Destroy
  <2> QED
    BY <2>1, <1>5
<1>7. ~ \E p \in Outputs : Frame(p)
  BY <1>1, <1>2 DEF Frame
<1>8. ~ \E p \in Outputs : HandleNewOutput(p) \/ OutputGone(p)
  BY DEF HandleNewOutput, OutputGone
<1>9. ~ StartNext
  BY DEF StartNext, CreateDisplay, Discover, ProbeCard, DrmBackendStart, GpuFallback,
         HeadlessFallback, PlainBackend, CreateObjects, CreateManager, CreateOverlay,
         OpenSocket, BackendStarts
<1>10. ~ UNCHANGED vars
  BY DEF vars, Ended
<1> QED
  BY <1>6, <1>7, <1>8, <1>9, <1>10 DEF Next

\* With one output that was set up and is still there, the teardown leaves no
\* listener on a list and the compositor exits.
THEOREM OneOutputExits == Spec => OneOutputShutsDown
<1>1. StartTypeOK /\ ListenerInv /\ [Next]_vars =>
        [pc = "running" /\ pc' \in Ended /\ outputs' = outputs
            /\ (\E o \in outputs : SetUp = {o}) => pc' = "exited"]_vars
  BY ShutsDownStep
<1> QED
  BY <1>1, StartTypeCorrect, ListenerInvInit, ListenerInvStep, PTL DEF Spec, OneOutputShutsDown

-----------------------------------------------------------------------------
(* Keyboards. *)

KeyInv == StartInv /\ ListenerInv /\ KeyTypeOK /\ KeyboardsHeard

LEMMA KeyInvInit == KeyInit => KeyInv
<1> SUFFICES ASSUME KeyInit PROVE KeyInv
  OBVIOUS
<1>1. StartInv /\ ListenerInv
  BY StartInvInit, ListenerInvInit DEF KeyInit
<1>2. keyboards = {} /\ tracked = {} /\ dropped = {}
  BY DEF KeyInit
<1> QED
  BY <1>1, <1>2 DEF KeyInv, KeyTypeOK, KeyboardsHeard, StartInv

LEMMA ListeningOnceStarted == ListenerInv /\ pc \in {"announce", "running"} => Listening
BY DEF ListenerInv, Listening

LEMMA KeyInvStep == KeyInv /\ [KeyNext]_allVars => KeyInv'
<1> SUFFICES ASSUME KeyInv, [KeyNext]_allVars PROVE KeyInv'
  OBVIOUS
<1>1. [Next]_vars
  BY DEF KeyNext, Lives, NewInput, InputGone, allVars
<1>2. StartInv' /\ ListenerInv'
  BY <1>1, StartInvStep, ListenerInvStep DEF KeyInv, StartInv
<1>3. StartTypeOK'
  BY <1>2 DEF StartInv
<1>4. KeyTypeOK' /\ KeyboardsHeard'
  <2> USE <1>3 DEF KeyInv, KeyTypeOK, KeyboardsHeard, HandleKeyboardDestroy
  <2>1. CASE Lives(Next)
    BY <2>1 DEF Lives, keyVars
  <2>2. ASSUME NEW k \in Devices, NewInput(k) PROVE KeyTypeOK' /\ KeyboardsHeard'
    <3>1. Listening
      BY <2>2, ListeningOnceStarted DEF NewInput, KeyInv, StartInv
    <3> QED
      BY <2>2, <3>1 DEF NewInput
  <2>3. ASSUME NEW k \in Devices, InputGone(k) PROVE KeyTypeOK' /\ KeyboardsHeard'
    BY <2>3 DEF InputGone
  <2>4. CASE UNCHANGED allVars
    BY <2>4 DEF allVars, keyVars
  <2> QED
    BY <2>1, <2>2, <2>3, <2>4 DEF KeyNext
<1> QED
  BY <1>2, <1>4 DEF KeyInv

LEMMA KeyInvariant == KeySpec => []KeyInv
BY KeyInvInit, KeyInvStep, PTL DEF KeySpec

\* The start, the outputs and the keyboards keep their types.
THEOREM KeyTypeCorrect == KeySpec => []KeyTypeOK
<1>1. KeyInv => KeyTypeOK
  BY DEF KeyInv
<1> QED
  BY <1>1, KeyInvariant, PTL

\* Whenever a keyboard is announced, also while the backend starts, its keys are
\* heard unless there was no memory, and only as long as it is there.
THEOREM KeyboardsNotMissed == KeySpec => []KeyboardsHeard
<1>1. KeyInv => KeyboardsHeard
  BY DEF KeyInv
<1> QED
  BY <1>1, KeyInvariant, PTL
====
