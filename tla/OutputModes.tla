---- MODULE OutputModes ----
(***************************************************************************)
(* From the discovered GPU to the mode of each output and the size of the  *)
(* windows: output_modes.c, and what compositor.c makes of it - the polls  *)
(* and the probe of other cards in playos_compositor_start, the mode in    *)
(* handle_new_output, the configure in handle_toplevel_commit.  The        *)
(* backend comes up; Startup has the ways it does not.                     *)
(***************************************************************************)
EXTENDS GpuDiscovery, FiniteSets

CONSTANTS
    ModesOf,     \* external: the modes a display offers, in its order
    NoMode,      \* the compositor sets none
    MaxAttempts  \* polls for a GPU, 10 in the code

Mode == [width : Nat \ {0}, height : Nat \ {0}, refresh : Nat, preferred : BOOLEAN]

ASSUME ModeAssumption ==
    /\ ModesOf \in [Displays -> Seq(Mode)]
    /\ NoMode \notin Mode
    /\ MaxAttempts \in Nat \ {0}

VARIABLES
    caller,      \* who asked: "start" polls, "probe" is compositor_probe_drm_card
                 \* with a discovery of its own, "cards" its loop over /dev/dri
    attempts,    \* gpu_attempts
    untried,     \* cards readdir has not returned yet
    card,        \* the card whose connectors are looked at
    best_conn,   \* of playos_output_select_from_fd; 0 for none
    best_mode,
    conn_score,
    size,        \* output_width, output_height, output_refresh_mhz; 0 when unset
    mode_set     \* of each announced output, the mode the compositor set

selectVars == <<card, best_conn, best_mode, conn_score>>
resultVars == <<size, mode_set>>
modeVars   == <<caller, attempts, untried, selectVars, resultVars>>
vars       == <<discoverVars, shows, modeVars>>

Stages == DiscoverStages \cup {"scan", "reread", "cards", "announce", "headless"}

OutputTypeOK ==
    /\ DiscoverTypeOK
    /\ pc \in Stages
    /\ caller \in {"start", "probe", "cards"}
    /\ attempts \in 0 .. MaxAttempts
    /\ untried \subseteq DOMAIN devices
    /\ card \in 0 .. Len(devices)
    /\ best_conn \in Nat /\ best_mode \in Nat /\ conn_score \in Int
    /\ size \in [width : Nat, height : Nat, refresh : Nat]
    /\ DOMAIN mode_set \subseteq Connectors
    /\ \A c \in DOMAIN mode_set : mode_set[c] \in Mode \cup {NoMode}

Init ==
    /\ DiscoverInit
    /\ caller = "start"
    /\ attempts = 0
    /\ untried = {}
    /\ card = 0
    /\ best_conn = 0 /\ best_mode = 1 /\ conn_score = -1
    /\ size = [width |-> 0, height |-> 0, refresh |-> 0]
    /\ mode_set = <<>>

-----------------------------------------------------------------------------

Discovering == DiscoverStep /\ UNCHANGED modeVars

\* Mutant: one poll more.
MutAnotherPoll(n) == n <= MaxAttempts

AnotherPoll(n) == n < MaxAttempts

(* The polls of playos_compositor_start, then compositor_probe_drm_card. *)
Retry ==
    /\ pc = "failed"
    /\ \/ /\ caller = "start"
          /\ attempts' = attempts + 1
          /\ caller' = IF AnotherPoll(attempts') THEN "start" ELSE "probe"
          /\ pc' = "discover"
          /\ UNCHANGED untried
       \/ /\ caller = "probe"
          /\ caller' = "cards"
          /\ pc' = "cards"
          /\ untried' = {d \in DOMAIN devices : devices[d].primary}
          /\ UNCHANGED attempts
    /\ UNCHANGED <<devices, shows, undisturbed, scanVars, open_fds, gpu, selectVars, resultVars>>

-----------------------------------------------------------------------------
(* playos_output_select_from_fd *)

BeginScan(d) ==
    /\ pc' = "scan"
    /\ card' = d
    /\ k' = 1
    /\ best_conn' = 0 /\ best_mode' = 1 /\ conn_score' = -1

SelectOutput ==
    /\ pc = "found"
    /\ BeginScan(gpu)
    /\ UNCHANGED <<devices, shows, undisturbed, i, candVars, open_fds, gpu,
                   caller, attempts, untried, resultVars>>

Modes(c) == IF Wired(c) THEN ModesOf[shows[c]] ELSE <<>>

Pixels(mode) == mode.width * mode.height

(* The first of the largest modes. *)
Largest(modes) ==
    CHOOSE n \in DOMAIN modes :
        \A j \in DOMAIN modes :
            /\ Pixels(modes[j]) <= Pixels(modes[n])
            /\ j < n => Pixels(modes[j]) < Pixels(modes[n])

\* Mutant: LVDS and DSI change places.
MutTypeScore(type) ==
    CASE type = "eDP" -> 1000 [] type = "LVDS" -> 850 [] type = "DSI" -> 900 [] OTHER -> 100

TypeScore(type) ==
    CASE type = "eDP" -> 1000 [] type = "LVDS" -> 900 [] type = "DSI" -> 850 [] OTHER -> 100

ConnectorScore(c) ==
    TypeScore(TypeOf[c]) + Pixels(Modes(c)[Largest(Modes(c))]) \div 100000

CardConnectors == devices[card].connectors

\* Mutant: the resolution is left out of the comparison.
MutBetterOutput(c) == TypeScore(TypeOf[c]) > conn_score

BetterOutput(c) == ConnectorScore(c) > conn_score

\* A connector that cannot be read, has no display or no modes is skipped.
ScanConnector ==
    /\ pc = "scan"
    /\ k <= Len(CardConnectors)
    /\ LET c == CardConnectors[k]
       IN  \/ /\ Modes(c) # <<>>
              /\ IF BetterOutput(c)
                 THEN /\ best_conn' = k
                      /\ best_mode' = Largest(Modes(c))
                      /\ conn_score' = ConnectorScore(c)
                 ELSE UNCHANGED <<best_conn, best_mode, conn_score>>
              /\ UNCHANGED undisturbed
           \/ /\ undisturbed' = (undisturbed /\ ~Wired(c))
              /\ UNCHANGED <<best_conn, best_mode, conn_score>>
    /\ k' = k + 1
    /\ UNCHANGED <<pc, devices, shows, i, candVars, open_fds, gpu,
                   caller, attempts, untried, card, resultVars>>

(* playos_gpu_close *)
GpuClosed == open_fds \ {"card", "render"}

(* What the caller makes of it.  playos_compositor_start and the discovery   *)
(* of the probe close both descriptors whatever the result; a probe hands    *)
(* on the size and not the refresh rate.                                     *)
Return(found, mode) ==
    /\ size' = IF found THEN [width |-> mode.width, height |-> mode.height,
                              refresh |-> IF caller = "start" THEN mode.refresh ELSE 0]
               ELSE size
    /\ open_fds' = IF caller = "cards" THEN open_fds \ {"probe"} ELSE GpuClosed
    /\ gpu' = 0
    /\ pc' = IF caller = "cards" /\ ~found THEN "cards" ELSE "announce"

NoOutput ==
    /\ pc = "scan"
    /\ k > Len(CardConnectors)
    /\ IF best_conn = 0
       THEN Return(FALSE, NoMode)
       ELSE pc' = "reread" /\ UNCHANGED <<size, open_fds, gpu>>
    /\ UNCHANGED <<devices, shows, undisturbed, scanVars, caller, attempts, untried,
                   selectVars, mode_set>>

(* drmModeModeInfo.vrefresh is whole Hertz, rounded. *)
WholeHertz(refresh) == (refresh + 500) \div 1000

(* The best connector is read again, and may show another display by now. *)
Reread ==
    /\ pc = "reread"
    /\ LET modes == Modes(CardConnectors[best_conn])
       IN  \/ /\ best_mode <= Len(modes)
              /\ Return(TRUE, [width |-> modes[best_mode].width,
                               height |-> modes[best_mode].height,
                               refresh |-> 1000 * WholeHertz(modes[best_mode].refresh)])
              /\ UNCHANGED undisturbed
           \/ /\ Return(FALSE, NoMode)
              /\ undisturbed' = FALSE
    /\ UNCHANGED <<devices, shows, scanVars, caller, attempts, untried, selectVars, mode_set>>

(* compositor_probe_drm_card: the next card, in the order of the directory. *)
\* Mutant: the directory is read from its beginning again.
MutRest(d) == untried

Rest(d) == untried \ {d}

TryCard(d) ==
    /\ pc = "cards"
    /\ d \in untried
    /\ untried' = Rest(d)
    /\ \/ /\ BeginScan(d)
          /\ open_fds' = open_fds \cup {"probe"}
       \/ UNCHANGED <<pc, k, selectVars, open_fds>>
    /\ UNCHANGED <<devices, shows, undisturbed, i, candVars, gpu,
                   caller, attempts, resultVars>>

NoCard ==
    /\ pc = "cards"
    /\ untried = {}
    /\ pc' = "headless"
    /\ UNCHANGED <<devices, shows, undisturbed, scanVars, open_fds, gpu, modeVars>>

-----------------------------------------------------------------------------
(* The backend announces the outputs of the card. *)

Matches(mode) ==
    /\ size.width > 0 /\ size.height > 0 /\ size.refresh > 0
    /\ mode.width = size.width /\ mode.height = size.height
    /\ mode.refresh \div 1000 = size.refresh \div 1000

FirstOf(modes, ns) ==
    IF ns = {} THEN NoMode ELSE modes[CHOOSE n \in ns : \A j \in ns : n <= j]

FirstMatch(modes)     == FirstOf(modes, {n \in DOMAIN modes : Matches(modes[n])})
FirstPreferred(modes) == FirstOf(modes, {n \in DOMAIN modes : modes[n].preferred})

(* The mode to set: the discovered one, else the preferred one, else none. *)
\* Mutant: the preferred mode comes first.
MutModeFor(modes) ==
    IF FirstPreferred(modes) # NoMode THEN FirstPreferred(modes) ELSE FirstMatch(modes)

ModeFor(modes) ==
    IF FirstMatch(modes) # NoMode THEN FirstMatch(modes) ELSE FirstPreferred(modes)

Outputs == {CardConnectors[n] : n \in DOMAIN CardConnectors}

SetMode(c, mode) ==
    mode_set' = [o \in DOMAIN mode_set \cup {c} |-> IF o = c THEN mode ELSE mode_set[o]]

\* wlr_output_commit_state may refuse the mode; its result is not looked at.
HandleNewOutput(c) ==
    /\ pc = "announce"
    /\ c \in Outputs \ DOMAIN mode_set
    /\ Modes(c) # <<>>
    /\ \/ SetMode(c, ModeFor(Modes(c))) /\ UNCHANGED undisturbed
       \/ SetMode(c, NoMode) /\ undisturbed' = FALSE
    /\ UNCHANGED <<pc, devices, shows, scanVars, open_fds, gpu,
                   caller, attempts, untried, selectVars, size>>

(* External: displays are plugged and unplugged; an output that was announced *)
(* goes away with its display.                                                *)
HotPlug(c, d) ==
    /\ shows[c] # d
    /\ shows' = [shows EXCEPT ![c] = d]
    /\ undisturbed' = FALSE
    /\ mode_set' = [o \in DOMAIN mode_set \ {c} |-> mode_set[o]]
    /\ UNCHANGED <<pc, devices, scanVars, open_fds, gpu, caller, attempts, untried, selectVars, size>>

Selecting ==
    \/ Discovering \/ Retry \/ SelectOutput \/ ScanConnector \/ NoOutput \/ Reread
    \/ \E d \in untried : TryCard(d)
    \/ NoCard

Next ==
    \/ Selecting
    \/ \E c \in Connectors : HandleNewOutput(c)
    \/ \E c \in Connectors, d \in Displays \cup {NoDisplay} : HotPlug(c, d)

\* Nothing is waited for but the polls: the start looks at one device, card or
\* connector after the other.
Spec == Init /\ [][Next]_vars /\ WF_vars(Selecting)

-----------------------------------------------------------------------------

\* Whatever fails on the way, no descriptor outlives the poll, the probe or the
\* card it was opened for, and none is open when the backend opens the device
\* itself (compositor.c 315-317, gpu_discovery.c 209-223).
NothingLeftOpen ==
    /\ pc \in {"discover", "device", "score", "open", "failed", "cards", "announce", "headless"}
           => open_fds = {}
    /\ pc = "connector" => open_fds = {"probe"}
    /\ pc \in {"found", "scan", "reread"} =>
           open_fds \in IF gpu = 0 THEN {{"probe"}} ELSE {{"card"}, {"card", "render"}}

\* The connector that is read again is the first of the best ones, and the mode is
\* of that connector and not of another: the first largest, which is the one that
\* was counted for it (output_modes.c 55-103).  This is what the loops compute; the
\* comments say "and its preferred mode" (output_modes.h 10-12, output_modes.c
\* 14-16), and no line looks at which mode a display prefers.
BestOutput ==
    pc = "reread" /\ undisturbed =>
        LET chosen == CardConnectors[best_conn]
        IN  /\ Modes(chosen) # <<>>
            /\ best_mode = Largest(Modes(chosen))
            /\ \A n \in DOMAIN CardConnectors :
                  Modes(CardConnectors[n]) # <<>> =>
                      /\ ConnectorScore(CardConnectors[n]) <= ConnectorScore(chosen)
                      /\ n < best_conn =>
                             ConnectorScore(CardConnectors[n]) < ConnectorScore(chosen)

PanelRank == [eDP |-> 1, LVDS |-> 2, DSI |-> 3, external |-> 4]

\* "eDP > LVDS > DSI > other connected" (output_modes.c 15), up to the bonus for
\* the resolution: a connector of a better type is passed over only for a mode
\* of five megapixels or more.
PanelOrder ==
    pc = "reread" /\ undisturbed =>
        LET chosen == CardConnectors[best_conn]
        IN  \A n \in DOMAIN CardConnectors :
                LET c == CardConnectors[n]
                IN  Modes(c) # <<>> /\ PanelRank[TypeOf[c]] < PanelRank[TypeOf[chosen]]
                    => Pixels(Modes(chosen)[best_mode]) >= 5000000

(* handle_toplevel_commit: the size a window is asked for when it maps. *)
Configured == <<size.width, size.height>>

\* The one output of the machine, its mode, and the size of the windows.
OneOutput(c) == DOMAIN mode_set = {c} /\ \A o \in Outputs \ {c} : ~Wired(o)
Dimensions(mode) == <<mode.width, mode.height>>

\* With one output, found by discovery, whose modes have whole refresh rates,
\* the output runs the mode that was selected and the windows have its size
\* (compositor.c 580-622, 731-738).
SizedAtWholeHertz ==
    \A c \in DOMAIN mode_set :
        /\ pc = "announce" /\ caller = "start" /\ undisturbed
        /\ OneOutput(c)
        /\ \A n \in DOMAIN Modes(c) : Modes(c)[n].refresh > 0 /\ Modes(c)[n].refresh % 1000 = 0
        => mode_set[c] # NoMode /\ Configured = Dimensions(mode_set[c])

\* Startup tells a poll and a probe in one step each: where its program counter is
\* while the devices, cards and connectors are looked at.
StartStage ==
    CASE pc = "headless" -> "headless_fallback"
      [] pc = "announce" -> IF caller = "start" THEN "gpu" ELSE "card"
      [] pc \in {"found", "scan", "reread"} /\ caller = "start" -> "gpu"
      [] pc \in DiscoverStages \ {"found"} /\ caller = "start" -> "discover"
      [] OTHER -> "probe"

Start == INSTANCE Startup
    WITH Outputs <- {}, pc <- StartStage, backend_type <- "drm", backend <- "none",
         renderer <- FALSE, allocator <- FALSE, display_renderers <- 0,
         outputs <- {}, link <- <<>>, heads <- {}

\* The start of Startup is what discovery, probe and the loop over the cards make
\* of it: ten polls and not eleven, one probe after them, a GPU that is never
\* given up once it is found, and the fallback only when no card is left
\* (compositor.c 242-288).
ImplementsStart == [][Start!Discover \/ Start!ProbeCard]_<<StartStage, attempts>>

\* How far the selection is from its end, most significant first: the polls and
\* probes, the cards of the loop, the stages, and the items of a stage.
CallsLeft ==
    CASE caller = "start" -> MaxAttempts - attempts + 2
      [] caller = "probe" -> 1
      [] caller = "cards" -> 0

StagesLeft ==
    CASE pc = "discover" -> 8
      [] pc \in {"device", "connector"} -> 7
      [] pc = "score" -> 6
      [] pc = "open" -> 5
      [] pc \in {"found", "failed"} -> 4
      [] pc = "scan" -> 3
      [] pc = "reread" -> 2
      [] pc = "cards" -> 1
      [] OTHER -> 0

DevicesLeft ==
    CASE pc = "device" -> 2 * (Len(devices) - i) + 3
      [] pc = "connector" -> 2 * (Len(devices) - i) + 2
      [] pc = "score" -> Len(cands) - i + 1
      [] OTHER -> 0

ConnectorsLeft ==
    CASE pc = "connector" -> Len(devices[i].connectors) - k + 1
      [] pc = "scan" -> Len(CardConnectors) - k + 1
      [] OTHER -> 0

Remaining == <<CallsLeft, Cardinality(untried), StagesLeft, DevicesLeft, ConnectorsLeft>>

Below(a, b) == \E n \in DOMAIN b : a[n] < b[n] /\ \A m \in 1 .. n - 1 : a[m] = b[m]

\* Every step of the start comes nearer to the end of the selection, in an order
\* of tuples of natural numbers, and no display that is plugged or unplugged
\* sets it back: between two polls there is no bound on the loops but this
\* (compositor.c 183-214 and 242-252, gpu_discovery.c 109-156, output_modes.c 60-103).
SelectionShrinks ==
    [][IF Selecting
       THEN Remaining \in [1 .. 5 -> Nat] /\ Below(Remaining', Remaining)
       ELSE Remaining' = Remaining]_vars

\* Every poll, probe and scan comes to an end, also while displays come and go
\* (compositor.c 242-288).
SelectionEnds == <>(pc \in {"announce", "headless"})

-----------------------------------------------------------------------------
(* What a comment says and the code does not do. *)

\* "PlayOS surfaces are fullscreen: size them to the output" (compositor.c 732-733):
\* with one output that stays as it was found.
SizedToOutput ==
    \A c \in DOMAIN mode_set :
        undisturbed /\ OneOutput(c) /\ mode_set[c] # NoMode /\ size.width > 0
        => Configured = Dimensions(mode_set[c])
====
