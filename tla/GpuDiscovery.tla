---- MODULE GpuDiscovery ----
(***************************************************************************)
(* Which DRM device the compositor drives (gpu_discovery.c, gpu_score.c):  *)
(* every device is probed through a descriptor of its own, the candidates  *)
(* are scored, and the best one is opened.  Displays are plugged and       *)
(* unplugged, and nodes and connectors may not be readable, at any time.   *)
(***************************************************************************)
EXTENDS Integers, Sequences

CONSTANTS
    Connectors, TypeOf,   \* the connectors, and the type of each
    Displays, NoDisplay,  \* what may be plugged into a connector
    Machines              \* the lists of devices drmGetDevices2 may return

ConnectorTypes == {"eDP", "LVDS", "DSI", "external"}
Vendors        == {"AMD", "INTEL", "OTHER"}
Device         == [primary : BOOLEAN, render : BOOLEAN, vendor : Vendors,
                   connectors : Seq(Connectors)]

ASSUME MachineAssumption == Machines # {} /\ \A m \in Machines : m \in Seq(Device)
ASSUME ConnectorAssumption ==
    /\ TypeOf \in [Connectors -> ConnectorTypes]
    /\ NoDisplay \notin Displays

VARIABLES
    pc,
    devices,           \* external: the devices of this machine
    shows,             \* external: the display plugged into each connector
    undisturbed,       \* history: nothing was plugged or unplugged, and every
                       \* read and commit succeeded, since this discovery began
    i, k,              \* the device and the connector that is looked at
    cands,             \* cands and inputs of playos_gpu_discover
    best, best_score,  \* of playos_gpu_select_index; 0 for no candidate
    open_fds,          \* open descriptors: "probe", "card", "render"
    gpu                \* index of the device that was selected, 0 if !gpu->valid

candVars     == <<cands, best, best_score>>
scanVars     == <<i, k, candVars>>
discoverVars == <<pc, devices, undisturbed, scanVars, open_fds, gpu>>

Candidate == [index : Nat, vendor : Vendors, has_connected_output : BOOLEAN, is_edp : BOOLEAN]
DiscoverStages == {"discover", "device", "connector", "score", "open", "found", "failed"}

DiscoverTypeOK ==
    /\ devices \in Seq(Device)
    /\ shows \in [Connectors -> Displays \cup {NoDisplay}]
    /\ undisturbed \in BOOLEAN
    /\ i \in Nat \ {0} /\ k \in Nat \ {0}
    /\ cands \in Seq(Candidate)
    /\ best \in Nat /\ best_score \in Int
    /\ open_fds \subseteq {"probe", "card", "render"}
    /\ gpu \in 0 .. Len(devices)

DiscoverInit ==
    /\ pc = "discover"
    /\ devices \in Machines
    /\ shows \in [Connectors -> Displays \cup {NoDisplay}]
    /\ undisturbed = TRUE
    /\ i = 1 /\ k = 1
    /\ cands = <<>>
    /\ best = 0 /\ best_score = -1
    /\ open_fds = {}
    /\ gpu = 0

-----------------------------------------------------------------------------

(* playos_gpu_discover: reset, then drmGetDevices2.  The driver may have   *)
(* brought a device since the last poll; an empty list fails like an error. *)
Enumerate ==
    /\ pc = "discover"
    /\ devices' \in Machines
    /\ pc' \in {"device", "failed"}
    /\ undisturbed' = (pc' = "device")
    /\ i' = 1 /\ cands' = <<>>
    /\ gpu' = 0
    /\ UNCHANGED <<shows, k, best, best_score, open_fds>>

\* Without a primary node there is nothing to drive.
SkipDevice ==
    /\ pc = "device"
    /\ i <= Len(devices)
    /\ ~devices[i].primary
    /\ i' = i + 1
    /\ UNCHANGED <<pc, devices, shows, undisturbed, k, candVars, open_fds, gpu>>

\* What was found out about device i.
Evaluated(connected, edp) ==
    /\ cands' = Append(cands, [index |-> i, vendor |-> devices[i].vendor,
                               has_connected_output |-> connected, is_edp |-> edp])
    /\ i' = i + 1
    /\ pc' = "device"
    /\ UNCHANGED <<best, best_score, gpu>>

OpenDevice ==
    /\ pc = "device"
    /\ i <= Len(devices)
    /\ devices[i].primary
    /\ \/ /\ pc' = "connector"
          /\ k' = 1
          /\ open_fds' = open_fds \cup {"probe"}
          /\ UNCHANGED <<undisturbed, i, candVars, gpu>>
       \/ /\ Evaluated(FALSE, FALSE)
          /\ undisturbed' = FALSE
          /\ UNCHANGED <<k, open_fds>>
    /\ UNCHANGED <<devices, shows>>

\* Mutant: the descriptor of a device stays open.
MutCloseProbe == UNCHANGED open_fds

CloseProbe == open_fds' = open_fds \ {"probe"}

(* device_has_connector: the first connector with a display decides. *)
Wired(c) == shows[c] # NoDisplay
BuiltIn(c) == TypeOf[c] \in {"eDP", "LVDS"}

ReadConnector ==
    /\ pc = "connector"
    /\ k <= Len(devices[i].connectors)
    /\ LET c == devices[i].connectors[k]
       IN  \/ /\ Wired(c)
              /\ Evaluated(TRUE, BuiltIn(c))
              /\ CloseProbe
              /\ UNCHANGED <<k, undisturbed>>
           \/ /\ undisturbed' = (undisturbed /\ ~Wired(c))
              /\ k' = k + 1
              /\ UNCHANGED <<pc, i, candVars, open_fds, gpu>>
    /\ UNCHANGED <<devices, shows>>

\* No connector has a display.
NoConnector ==
    /\ pc = "connector"
    /\ k > Len(devices[i].connectors)
    /\ Evaluated(FALSE, FALSE)
    /\ CloseProbe
    /\ UNCHANGED <<devices, shows, undisturbed, k>>

DevicesDone ==
    /\ pc = "device"
    /\ i > Len(devices)
    /\ pc' = "score"
    /\ i' = 1
    /\ best' = 0 /\ best_score' = -1
    /\ UNCHANGED <<devices, shows, undisturbed, k, cands, open_fds, gpu>>

(* playos_gpu_score *)
VendorScore(vendor) ==
    CASE vendor = "AMD" -> 300 [] vendor = "INTEL" -> 100 [] OTHER -> 1

\* Mutant: whether there is a display is asked first.
MutGpuScore(c) ==
    VendorScore(c.vendor)
    + (IF c.has_connected_output THEN 500 ELSE IF c.is_edp THEN 1000 ELSE 0)

GpuScore(c) ==
    VendorScore(c.vendor)
    + (IF c.is_edp THEN 1000 ELSE IF c.has_connected_output THEN 500 ELSE 0)

(* playos_gpu_select_index *)
\* Mutant: a later candidate with the same score wins.
MutBetter(c) == GpuScore(c) >= best_score

Better(c) == GpuScore(c) > best_score

ScoreCandidate ==
    /\ pc = "score"
    /\ i <= Len(cands)
    /\ IF Better(cands[i])
       THEN best' = i /\ best_score' = GpuScore(cands[i])
       ELSE UNCHANGED <<best, best_score>>
    /\ i' = i + 1
    /\ UNCHANGED <<pc, devices, shows, undisturbed, k, cands, open_fds, gpu>>

Selected ==
    /\ pc = "score"
    /\ i > Len(cands)
    /\ pc' = IF best = 0 THEN "failed" ELSE "open"
    /\ UNCHANGED <<devices, shows, undisturbed, scanVars, open_fds, gpu>>

\* The card must open for writing; the render node may not open at all.  There
\* is no second choice.
OpenSelected ==
    /\ pc = "open"
    /\ \/ /\ pc' = "failed"
          /\ UNCHANGED <<open_fds, gpu>>
       \/ /\ pc' = "found"
          /\ gpu' = cands[best].index
          /\ \/ open_fds' = open_fds \cup {"card"}
             \/ /\ devices[cands[best].index].render
                /\ open_fds' = open_fds \cup {"card", "render"}
    /\ UNCHANGED <<devices, shows, undisturbed, scanVars>>

DiscoverStep ==
    \/ Enumerate \/ SkipDevice \/ OpenDevice \/ ReadConnector \/ NoConnector
    \/ DevicesDone \/ ScoreCandidate \/ Selected \/ OpenSelected

-----------------------------------------------------------------------------

\* The card that is opened is the first of the best candidates: the loop over
\* the scores keeps the earlier of two equals, and nothing between the choice
\* and the open moves it (gpu_score.c 25-42, gpu_discovery.c 161-171).
SelectedIsBest ==
    pc = "found" =>
        \E b \in DOMAIN cands :
            /\ gpu = cands[b].index
            /\ \A n \in DOMAIN cands :
                  /\ GpuScore(cands[n]) <= GpuScore(cands[b])
                  /\ n < b => GpuScore(cands[n]) < GpuScore(cands[b])

\* No vendor outweighs what is connected: a device without a display is never
\* taken while another candidate had one, nor one without a panel while another
\* was seen to have one (gpu_discovery.c 15-19; test_gpu_select.c 42).
OutputBeatsVendor ==
    pc = "found" =>
        \E b \in DOMAIN cands :
            /\ gpu = cands[b].index
            /\ (\E n \in DOMAIN cands : cands[n].is_edp) => cands[b].is_edp
            /\ (\E n \in DOMAIN cands : cands[n].has_connected_output)
                   => cands[b].has_connected_output

\* What a probe finds at a device: the first connector with a display decides
\* whether it counts as one with a panel.
Primaries == {d \in DOMAIN devices : devices[d].primary}

HasOutput(d) == \E n \in DOMAIN devices[d].connectors : Wired(devices[d].connectors[n])

PanelFirst(d) ==
    \E n \in DOMAIN devices[d].connectors :
        /\ Wired(devices[d].connectors[n]) /\ BuiltIn(devices[d].connectors[n])
        /\ \A m \in 1 .. n - 1 : ~Wired(devices[d].connectors[m])

\* With every read done and nothing moved, the card that is opened has a display
\* if any card of the machine has one, and a panel that is its first display if
\* any card has that: no card is lost between the enumeration, the probes and
\* the scores (gpu_discovery.c 109-171, gpu_score.c 25-42; test_gpu_select.c 42).
DrivesDisplay ==
    pc = "found" /\ undisturbed =>
        /\ (\E d \in Primaries : HasOutput(d)) => HasOutput(gpu)
        /\ (\E d \in Primaries : PanelFirst(d)) => PanelFirst(gpu)
====
