---- MODULE OutputProofs ----
(***************************************************************************)
(* The display, for any machines, displays and modes: the loops keep an    *)
(* index and a score that belong together, the entries of the candidates   *)
(* are what is plugged in, descriptors are closed on each way out, the     *)
(* size the windows get is that of the output, and all of it comes to an   *)
(* end and is the start of Startup.                                        *)
(***************************************************************************)
EXTENDS OutputModes, SeqLemmas, FiniteSetTheorems

-----------------------------------------------------------------------------
(* Modes and scores. *)

\* A list of numbers that is not empty has a first largest one; with the least
\* prefix that had none the next shorter one would.
LEMMA FirstLargest ==
    ASSUME NEW len \in Nat \ {0}, NEW p \in [1 .. len -> Int]
    PROVE  \E n \in 1 .. len : \A j \in 1 .. len : p[j] <= p[n] /\ (j < n => p[j] < p[n])
<1> DEFINE IsLargest(n, m) == \A j \in 1 .. m : p[j] <= p[n] /\ (j < n => p[j] < p[n])
           Without == {m \in 1 .. len : ~ \E n \in 1 .. m : IsLargest(n, m)}
<1>1. Without = {}
  <2> SUFFICES ASSUME Without # {} PROVE FALSE
    OBVIOUS
  <2>1. PICK m \in Without : \A l \in Without : m <= l
    <3>1. Without \in SUBSET Nat
      OBVIOUS
    <3> QED BY <3>1, LeastNatural
  <2>2. m \in 1 .. len /\ ~ \E n \in 1 .. m : IsLargest(n, m)
    BY <2>1
  <2>3. m # 1
    <3>1. IsLargest(1, 1)
      OBVIOUS
    <3> QED BY <3>1, <2>2
  <2> HIDE DEF IsLargest
  <2>4. m - 1 \in 1 .. len
    BY <2>2, <2>3
  <2>5. PICK n \in 1 .. m - 1 : IsLargest(n, m - 1)
    <3>1. m - 1 \notin Without
      BY <2>1, <2>4
    <3> QED BY <3>1, <2>4
  <2>6. /\ n \in 1 .. len /\ m \in 1 .. len
        /\ p[n] \in Int /\ p[m] \in Int
        /\ \A j \in 1 .. m : p[j] \in Int
        /\ \A j \in 1 .. m : j = m \/ j \in 1 .. m - 1
        /\ \A j \in 1 .. m - 1 : p[j] <= p[n] /\ (j < n => p[j] < p[n])
    BY <2>2, <2>5 DEF IsLargest
  <2>7. CASE p[m] > p[n]
    <3>1. ASSUME NEW j \in 1 .. m PROVE p[j] <= p[m] /\ (j < m => p[j] < p[m])
      <4>1. CASE j = m
        BY <2>6, <4>1
      <4>2. CASE j \in 1 .. m - 1
        BY <2>6, <2>7, <4>2
      <4> QED BY <2>6, <4>1, <4>2
    <3>2. IsLargest(m, m) /\ m \in 1 .. m
      BY <3>1, <2>6 DEF IsLargest
    <3> QED BY <3>2, <2>2
  <2>8. CASE p[m] <= p[n]
    <3>1. ASSUME NEW j \in 1 .. m PROVE p[j] <= p[n] /\ (j < n => p[j] < p[n])
      <4>1. CASE j = m
        BY <2>5, <2>6, <2>8, <4>1
      <4>2. CASE j \in 1 .. m - 1
        BY <2>6, <4>2
      <4> QED BY <2>6, <4>1, <4>2
    <3>2. IsLargest(n, m) /\ n \in 1 .. m
      BY <3>1, <2>4, <2>5, <2>6 DEF IsLargest
    <3> QED BY <3>2, <2>2
  <2>9. p[m] > p[n] \/ p[m] <= p[n]
    BY <2>6
  <2> QED BY <2>7, <2>8, <2>9
<1>2. len \in 1 .. len
  OBVIOUS
<1> HIDE DEF Without, IsLargest
<1>3. len \notin Without
  BY <1>1
<1>4. \E n \in 1 .. len : IsLargest(n, len)
  BY <1>2, <1>3 DEF Without
<1> QED BY <1>4 DEF IsLargest

\* A list of modes that is not empty has a first largest one.
LEMMA LargestExists ==
    ASSUME NEW modes \in Seq(Mode), modes # <<>>
    PROVE  /\ Largest(modes) \in DOMAIN modes
           /\ \A j \in DOMAIN modes : Pixels(modes[j]) <= Pixels(modes[Largest(modes)])
<1> DEFINE p == [n \in 1 .. Len(modes) |-> Pixels(modes[n])]
           IsLargest(n) == \A j \in DOMAIN modes :
                               /\ Pixels(modes[j]) <= Pixels(modes[n])
                               /\ j < n => Pixels(modes[j]) < Pixels(modes[n])
<1>1. Len(modes) \in Nat \ {0} /\ DOMAIN modes = 1 .. Len(modes)
  OBVIOUS
<1>2. ASSUME NEW n \in 1 .. Len(modes) PROVE Pixels(modes[n]) \in Int
  <2>1. modes[n] \in Mode
    BY <1>1
  <2> QED BY <2>1 DEF Mode, Pixels
<1>3. p \in [1 .. Len(modes) -> Int]
  BY <1>2
<1>4. \E n \in DOMAIN modes : IsLargest(n)
  <2> HIDE DEF p
  <2>1. PICK n \in 1 .. Len(modes) :
            \A j \in 1 .. Len(modes) : p[j] <= p[n] /\ (j < n => p[j] < p[n])
    BY <1>1, <1>3, FirstLargest
  <2> QED BY <1>1, <2>1 DEF p
<1>5. Largest(modes) = CHOOSE n \in DOMAIN modes : IsLargest(n)
  BY DEF Largest
<1> HIDE DEF IsLargest
<1>6. Largest(modes) \in DOMAIN modes /\ IsLargest(Largest(modes))
  BY <1>4, <1>5
<1> QED BY <1>6 DEF IsLargest

\* The first mode of those asked for.
LEMMA FirstExists ==
    ASSUME NEW modes \in Seq(Mode), NEW ns \in SUBSET (DOMAIN modes)
    PROVE  /\ ns = {} => FirstOf(modes, ns) = NoMode
           /\ ns # {} => \E n \in ns : FirstOf(modes, ns) = modes[n]
<1>1. CASE ns = {}
  BY <1>1 DEF FirstOf
<1>2. CASE ns # {}
  <2>1. ns \subseteq Nat
    OBVIOUS
  <2>2. \E n \in ns : \A j \in ns : n <= j
    BY <1>2, <2>1, LeastNatural
  <2> QED BY <1>2, <2>2 DEF FirstOf
<1> QED BY <1>1, <1>2

\* What a connector offers.
LEMMA ModesType ==
    ASSUME shows \in [Connectors -> Displays \cup {NoDisplay}], NEW c \in Connectors
    PROVE  Modes(c) \in Seq(Mode)
BY ModeAssumption DEF Modes, Wired

\* The mode handle_new_output picks is one that is offered, or none.
LEMMA ModeForType ==
    ASSUME NEW modes \in Seq(Mode)
    PROVE  ModeFor(modes) \in Mode \cup {NoMode}
<1>1. FirstMatch(modes) \in Mode \cup {NoMode}
  <2> DEFINE ns == {n \in DOMAIN modes : Matches(modes[n])}
  <2> HIDE DEF ns
  <2>1. ns \in SUBSET (DOMAIN modes)
    BY DEF ns
  <2>2. FirstOf(modes, ns) \in Mode \cup {NoMode}
    BY <2>1, FirstExists
  <2> QED BY <2>2 DEF FirstMatch, ns
<1>2. FirstPreferred(modes) \in Mode \cup {NoMode}
  <2> DEFINE ns == {n \in DOMAIN modes : modes[n].preferred}
  <2> HIDE DEF ns
  <2>1. ns \in SUBSET (DOMAIN modes)
    BY DEF ns
  <2>2. FirstOf(modes, ns) \in Mode \cup {NoMode}
    BY <2>1, FirstExists
  <2> QED BY <2>2 DEF FirstPreferred, ns
<1> QED BY <1>1, <1>2 DEF ModeFor

\* Scores are numbers above the -1 the loops begin with.
LEMMA GpuScoreType == \A c \in Candidate : GpuScore(c) \in Nat
BY DEF Candidate, GpuScore, VendorScore, Vendors

\* A connector with modes has a largest one, and so a score.
LEMMA ConnectorScoreType ==
    ASSUME shows \in [Connectors -> Displays \cup {NoDisplay}],
           NEW c \in Connectors, Modes(c) # <<>>
    PROVE  /\ Largest(Modes(c)) \in DOMAIN Modes(c)
           /\ Pixels(Modes(c)[Largest(Modes(c))]) \in Nat
           /\ ConnectorScore(c) \in Nat
<1> DEFINE largest == Modes(c)[Largest(Modes(c))]
<1>1. Largest(Modes(c)) \in DOMAIN Modes(c) /\ largest \in Mode
  BY ModesType, LargestExists
<1>2. Pixels(largest) \in Nat
  BY <1>1 DEF Pixels, Mode
<1>3. Pixels(largest) \div 100000 \in Nat
  BY <1>2
<1>4. TypeScore(TypeOf[c]) \in Nat
  BY ConnectorAssumption DEF TypeScore
<1> QED BY <1>1, <1>2, <1>3, <1>4 DEF ConnectorScore

-----------------------------------------------------------------------------
(* Types, and where things are. *)

Selects == pc \in {"scan", "reread"}

\* A card is looked at once a device was found or the cards are tried in turn;
\* the candidates are devices of this machine.
PlaceInv ==
    /\ \A n \in DOMAIN cands : cands[n].index \in DOMAIN devices
    /\ pc = "connector" => i \in DOMAIN devices
    /\ pc \in {"score", "open"} => best \in 0 .. Len(cands)
    /\ pc = "open" => best # 0
    /\ pc \in DiscoverStages => caller # "cards" /\ untried = {} /\ card = 0
    /\ pc \in DiscoverStages /\ caller = "start" => attempts < MaxAttempts
    /\ pc = "found" <=> gpu # 0 /\ ~Selects
    /\ pc = "cards" => caller = "cards"
    /\ Selects => card \in DOMAIN devices /\ (gpu = 0 <=> caller = "cards")
    /\ pc = "announce" => card \in DOMAIN devices
    /\ best_mode # 0
    /\ pc = "reread" => best_conn \in DOMAIN CardConnectors
    /\ pc = "scan" => best_conn \in 0 .. Len(CardConnectors)
    /\ pc # "announce" => DOMAIN mode_set = {}

TypeInv == OutputTypeOK /\ PlaceInv

\* Nothing is looked at yet.
LEMMA TypeInvInit == Init => TypeInv
<1> SUFFICES ASSUME Init PROVE TypeInv
  OBVIOUS
<1>1. DiscoverTypeOK
  BY MachineAssumption DEF Init, DiscoverInit, DiscoverTypeOK
<1>2. mode_set = <<>> /\ DOMAIN mode_set = {}
  BY DEF Init
<1>3. OutputTypeOK
  BY <1>1, <1>2, ModeAssumption
     DEF Init, DiscoverInit, OutputTypeOK, Stages, DiscoverStages
<1>4. PlaceInv
  BY <1>2, ModeAssumption DEF Init, DiscoverInit, PlaceInv, Selects, DiscoverStages
<1> QED BY <1>3, <1>4 DEF TypeInv

\* A device is added to the candidates.
LEMMA EvaluatedTypes ==
    ASSUME TypeInv, i \in DOMAIN devices, UNCHANGED devices,
           NEW connected \in BOOLEAN, NEW edp \in BOOLEAN, Evaluated(connected, edp)
    PROVE  /\ cands' \in Seq(Candidate)
           /\ \A n \in DOMAIN cands' : cands'[n].index \in DOMAIN devices'
           /\ i' \in Nat \ {0}
           /\ pc' = "device" /\ UNCHANGED <<best, best_score, gpu>>
<1> DEFINE c == [index |-> i, vendor |-> devices[i].vendor,
                 has_connected_output |-> connected, is_edp |-> edp]
<1>1. devices \in Seq(Device) /\ cands \in Seq(Candidate) /\ i \in Nat \ {0}
  BY DEF TypeInv, OutputTypeOK, DiscoverTypeOK
<1>2. c \in Candidate
  <2>1. devices[i] \in Device
    BY <1>1
  <2> QED BY <1>1, <2>1 DEF Device, Candidate
<1>3. c.index = i
  OBVIOUS
<1>4. cands' = Append(cands, c) /\ i' = i + 1
  BY DEF Evaluated
<1> HIDE DEF c
<1>5. /\ cands' \in Seq(Candidate)
      /\ \A n \in DOMAIN cands' : cands'[n] = c \/ (n \in DOMAIN cands /\ cands'[n] = cands[n])
  <2>1. /\ cands' \in Seq(Candidate)
        /\ DOMAIN cands' = 1 .. Len(cands) + 1 /\ DOMAIN cands = 1 .. Len(cands)
        /\ cands'[Len(cands) + 1] = c
        /\ \A n \in 1 .. Len(cands) : cands'[n] = cands[n]
    BY <1>1, <1>2, <1>4
  <2>2. Len(cands) \in Nat
    BY <1>1
  <2>3. \A n \in 1 .. Len(cands) + 1 : n = Len(cands) + 1 \/ n \in 1 .. Len(cands)
    BY <2>2
  <2>4. ASSUME NEW n \in DOMAIN cands'
        PROVE  cands'[n] = c \/ (n \in DOMAIN cands /\ cands'[n] = cands[n])
    <3>1. n = Len(cands) + 1 \/ n \in 1 .. Len(cands)
      BY <2>1, <2>3
    <3>2. DOMAIN cands = 1 .. Len(cands)
      BY <2>1
    <3> QED BY <2>1, <3>1, <3>2
  <2> QED BY <2>1, <2>4
<1>6. \A n \in DOMAIN cands : cands[n].index \in DOMAIN devices
  BY DEF TypeInv, PlaceInv
<1>7. pc' = "device" /\ UNCHANGED <<best, best_score, gpu>>
  BY DEF Evaluated
<1> QED BY <1>1, <1>3, <1>4, <1>5, <1>6, <1>7

\* One step of playos_gpu_discover.
LEMMA DiscoverTypes ==
    ASSUME TypeInv, Discovering
    PROVE  TypeInv'
<1> USE DEF TypeInv, OutputTypeOK, DiscoverTypeOK, PlaceInv, Discovering, Stages, DiscoverStages,
            Selects, modeVars, selectVars, resultVars, scanVars, candVars, CardConnectors
<1>1. CASE Enumerate
  BY <1>1, MachineAssumption DEF Enumerate
<1>2. CASE SkipDevice
  BY <1>2 DEF SkipDevice
<1>3. CASE OpenDevice
  <2>1. i \in DOMAIN devices /\ UNCHANGED <<devices, shows>>
    BY <1>3 DEF OpenDevice
  <2>2. CASE Evaluated(FALSE, FALSE) /\ undisturbed' = FALSE /\ UNCHANGED <<k, open_fds>>
    BY <2>1, <2>2, <1>3, EvaluatedTypes DEF OpenDevice
  <2>3. CASE /\ pc' = "connector" /\ k' = 1
             /\ open_fds' = open_fds \cup {"probe"}
             /\ UNCHANGED <<undisturbed, i, candVars, gpu>>
    BY <2>1, <2>3, <1>3 DEF OpenDevice
  <2> QED BY <2>2, <2>3, <1>3 DEF OpenDevice
<1>4. CASE ReadConnector
  <2>1. i \in DOMAIN devices /\ pc = "connector" /\ UNCHANGED <<devices, shows>>
    BY <1>4 DEF ReadConnector
  <2> DEFINE c == devices[i].connectors[k]
  <2>2. CASE Evaluated(TRUE, BuiltIn(c)) /\ CloseProbe /\ UNCHANGED <<k, undisturbed>>
    <3>1. BuiltIn(c) \in BOOLEAN
      BY DEF BuiltIn
    <3> HIDE DEF c
    <3>2. TypeInv /\ TRUE \in BOOLEAN
      OBVIOUS
    <3> QED BY <2>1, <2>2, <3>1, <3>2, EvaluatedTypes DEF CloseProbe
  <2>3. CASE undisturbed' = (undisturbed /\ ~Wired(c)) /\ k' = k + 1
             /\ UNCHANGED <<pc, i, candVars, open_fds, gpu>>
    <3>1. undisturbed' \in BOOLEAN
      BY <2>3, Zenon
    <3> QED BY <2>1, <2>3, <3>1
  <2> QED BY <2>2, <2>3, <1>4 DEF ReadConnector
<1>5. CASE NoConnector
  <2>1. i \in DOMAIN devices /\ UNCHANGED <<devices, shows, undisturbed, k>>
    BY <1>5 DEF NoConnector
  <2> QED BY <2>1, <1>5, EvaluatedTypes DEF NoConnector, CloseProbe
<1>6. CASE DevicesDone
  BY <1>6 DEF DevicesDone
<1>7. CASE ScoreCandidate
  BY <1>7, GpuScoreType DEF ScoreCandidate
<1>8. CASE Selected
  BY <1>8 DEF Selected
<1>9. CASE OpenSelected
  <2>1. best \in DOMAIN cands /\ cands[best].index \in DOMAIN devices
    BY <1>9 DEF OpenSelected
  <2>2. CASE pc' = "failed" /\ UNCHANGED <<open_fds, gpu>>
    BY <1>9, <2>2 DEF OpenSelected
  <2>3. CASE pc' = "found" /\ gpu' = cands[best].index
    <3>1. open_fds' \subseteq {"probe", "card", "render"} /\ gpu' \in DOMAIN devices
      BY <1>9, <2>1, <2>3 DEF OpenSelected
    <3>2. gpu' # 0 /\ gpu' \in 0 .. Len(devices)
      BY <3>1
    <3> QED BY <1>9, <2>3, <3>1, <3>2 DEF OpenSelected
  <2> QED BY <1>9, <2>2, <2>3 DEF OpenSelected
<1> QED BY <1>1, <1>2, <1>3, <1>4, <1>5, <1>6, <1>7, <1>8, <1>9 DEF DiscoverStep

\* What a scan hands back.
LEMMA ReturnTypes ==
    ASSUME TypeInv, Selects, NEW found \in BOOLEAN, NEW mode,
           found => mode \in [width : Nat, height : Nat, refresh : Nat],
           Return(found, mode),
           UNCHANGED <<devices, shows, scanVars, caller, attempts, untried, selectVars, mode_set>>,
           undisturbed' \in BOOLEAN
    PROVE  TypeInv'
<1> USE DEF TypeInv, OutputTypeOK, DiscoverTypeOK, PlaceInv, Stages, DiscoverStages,
            Selects, modeVars, selectVars, resultVars, scanVars, candVars, CardConnectors
<1>1. size' \in [width : Nat, height : Nat, refresh : Nat]
  BY DEF Return, GpuClosed
<1>2. open_fds' \subseteq {"probe", "card", "render"} /\ gpu' = 0
  BY DEF Return, GpuClosed
<1>3. pc' = IF caller = "cards" /\ ~found THEN "cards" ELSE "announce"
  BY DEF Return, GpuClosed
<1> QED BY <1>1, <1>2, <1>3

\* The connectors of the card that is looked at.
LEMMA CardType ==
    ASSUME TypeInv, Selects \/ pc = "announce"
    PROVE  card \in DOMAIN devices /\ CardConnectors \in Seq(Connectors)
<1>1. card \in DOMAIN devices /\ devices \in Seq(Device)
  BY DEF TypeInv, OutputTypeOK, DiscoverTypeOK, PlaceInv
<1>2. devices[card] \in Device
  BY <1>1
<1> QED BY <1>1, <1>2 DEF Device, CardConnectors

\* The connector that is read again is one of the card's.
LEMMA RereadConnector ==
    ASSUME TypeInv, pc = "reread"
    PROVE  CardConnectors[best_conn] \in Connectors
BY CardType DEF TypeInv, PlaceInv, Selects

\* What is read again has the type of a size.
LEMMA RereadType ==
    ASSUME NEW mode \in Mode
    PROVE  [width |-> mode.width, height |-> mode.height,
            refresh |-> 1000 * WholeHertz(mode.refresh)]
               \in [width : Nat, height : Nat, refresh : Nat]
<1>1. mode.width \in Nat /\ mode.height \in Nat /\ mode.refresh \in Nat
  BY DEF Mode
<1>2. ASSUME NEW r \in Nat PROVE 1000 * ((r + 500) \div 1000) \in Nat
  <2>1. (r + 500) \div 1000 \in Nat
    OBVIOUS
  <2> QED BY <2>1
<1>3. 1000 * WholeHertz(mode.refresh) \in Nat
  BY <1>1, <1>2 DEF WholeHertz
<1> QED BY <1>1, <1>3

\* Reading the connector again returns the mode or nothing.
LEMMA RereadReturns ==
    ASSUME TypeInv, Reread
    PROVE  \E found \in BOOLEAN : \E mode :
              /\ Return(found, mode)
              /\ found => mode \in [width : Nat, height : Nat, refresh : Nat]
<1> DEFINE modes == Modes(CardConnectors[best_conn])
           mode  == modes[best_mode]
           size_read == [width |-> mode.width, height |-> mode.height,
                         refresh |-> 1000 * WholeHertz(mode.refresh)]
<1>1. pc = "reread"
  BY DEF Reread
<1>2. modes \in Seq(Mode)
  <2>1. shows \in [Connectors -> Displays \cup {NoDisplay}]
    BY DEF TypeInv, OutputTypeOK, DiscoverTypeOK
  <2>2. CardConnectors[best_conn] \in Connectors
    BY <1>1, RereadConnector
  <2> QED BY <2>1, <2>2, ModesType
<1>3. best_mode \in Nat \ {0}
  BY DEF TypeInv, OutputTypeOK, PlaceInv
<1>4. CASE best_mode <= Len(modes) /\ Return(TRUE, size_read)
  <2> HIDE DEF modes
  <2>1. mode \in Mode
    BY <1>2, <1>3, <1>4
  <2>2. size_read \in [width : Nat, height : Nat, refresh : Nat]
    <3> HIDE DEF mode
    <3> QED BY <2>1, RereadType
  <2> HIDE DEF size_read
  <2> QED BY <1>4, <2>2
<1>5. CASE Return(FALSE, NoMode)
  BY <1>5
<1> QED BY <1>4, <1>5 DEF Reread

\* The size is set, or the next card is tried.
LEMMA RereadStep ==
    ASSUME TypeInv, Reread
    PROVE  TypeInv'
<1>1. PICK found \in BOOLEAN :
         \E mode : /\ Return(found, mode)
                   /\ found => mode \in [width : Nat, height : Nat, refresh : Nat]
  BY RereadReturns
<1>2. PICK mode : /\ Return(found, mode)
                  /\ found => mode \in [width : Nat, height : Nat, refresh : Nat]
  BY <1>1
<1>3. /\ pc = "reread"
      /\ UNCHANGED <<devices, shows, scanVars, caller, attempts, untried, selectVars, mode_set>>
  BY DEF Reread
<1>4. undisturbed' = undisturbed \/ undisturbed' = FALSE
  BY DEF Reread
<1>5. undisturbed' \in BOOLEAN
  BY <1>4 DEF TypeInv, OutputTypeOK, DiscoverTypeOK
<1> QED BY <1>2, <1>3, <1>5, ReturnTypes DEF Selects

\* Every step of the start, every output and every plug.
LEMMA TypeInvStep == TypeInv /\ [Next]_vars => TypeInv'
<1> SUFFICES ASSUME TypeInv, [Next]_vars PROVE TypeInv'
  OBVIOUS
<1> USE DEF TypeInv, OutputTypeOK, DiscoverTypeOK, PlaceInv, Stages, DiscoverStages,
            Selects, modeVars, selectVars, resultVars, scanVars, candVars, CardConnectors
<1>1. CASE Discovering
  BY <1>1, DiscoverTypes
<1>2. CASE Retry
  BY <1>2, ModeAssumption DEF Retry, AnotherPoll
<1>3. CASE SelectOutput
  BY <1>3 DEF SelectOutput, BeginScan
<1>4. CASE ScanConnector
  <2> DEFINE c == CardConnectors[k]
  <2>1. /\ c \in Connectors /\ k \in DOMAIN CardConnectors
        /\ card \in DOMAIN devices
        /\ pc = "scan" /\ k' = k + 1
        /\ UNCHANGED <<pc, devices, shows, i, candVars, open_fds, gpu,
                       caller, attempts, untried, card, resultVars>>
    <3>1. card \in DOMAIN devices /\ devices[card] \in Device
      BY <1>4 DEF ScanConnector
    <3>2. devices[card].connectors \in Seq(Connectors)
      BY <3>1 DEF Device
    <3>3. /\ k \in Nat \ {0} /\ k <= Len(devices[card].connectors)
          /\ pc = "scan" /\ k' = k + 1
          /\ UNCHANGED <<pc, devices, shows, i, candVars, open_fds, gpu,
                         caller, attempts, untried, card, resultVars>>
      BY <1>4 DEF ScanConnector
    <3>4. k \in DOMAIN CardConnectors /\ c \in Connectors
      BY <3>2, <3>3
    <3> QED BY <3>1, <3>3, <3>4
  <2> HIDE DEF c
  <2>2. CASE Modes(c) # <<>> /\ BetterOutput(c)
             /\ best_conn' = k /\ best_mode' = Largest(Modes(c))
             /\ conn_score' = ConnectorScore(c) /\ UNCHANGED undisturbed
    <3>1. Largest(Modes(c)) \in Nat \ {0} /\ ConnectorScore(c) \in Int
      <4>1. Modes(c) \in Seq(Mode)
        BY <2>1, ModesType
      <4>2. Largest(Modes(c)) \in DOMAIN Modes(c) /\ ConnectorScore(c) \in Nat
        BY <2>1, <2>2, ConnectorScoreType
      <4> QED BY <4>1, <4>2
    <3>2. best_conn' \in Nat /\ best_mode' \in Nat \ {0} /\ conn_score' \in Int
      BY <2>1, <2>2, <3>1
    <3>3. k' \in Nat \ {0} /\ undisturbed' \in BOOLEAN
      BY <2>1, <2>2
    <3>4. best_conn' \in 0 .. Len(CardConnectors')
      BY <2>1, <2>2
    <3> HIDE <2>2
    <3> QED BY <2>1, <3>2, <3>3, <3>4
  <2>3. CASE /\ UNCHANGED <<best_conn, best_mode, conn_score>>
             /\ undisturbed' \in {undisturbed, undisturbed /\ ~Wired(c)}
    <3>1. undisturbed' \in BOOLEAN
      BY <2>3, Zenon
    <3> QED BY <2>1, <2>3, <3>1
  <2> QED BY <1>4, <2>2, <2>3 DEF ScanConnector, c
<1>5. CASE NoOutput
  <2>1. CASE best_conn = 0
    BY <1>5, <2>1, ReturnTypes DEF NoOutput
  <2>2. CASE best_conn # 0
    <3>1. CardConnectors \in Seq(Connectors) /\ card \in DOMAIN devices /\ pc = "scan"
      BY <1>5, CardType DEF NoOutput
    <3>2. best_conn \in 1 .. Len(CardConnectors)
      BY <2>2, <3>1
    <3>3. /\ pc' = "reread"
          /\ UNCHANGED <<devices, shows, undisturbed, scanVars, caller, attempts, untried,
                         selectVars, resultVars, open_fds, gpu>>
      BY <1>5, <2>2 DEF NoOutput
    <3>4. DOMAIN CardConnectors = 1 .. Len(CardConnectors)
      BY <3>1
    <3> QED BY <3>1, <3>2, <3>3, <3>4
  <2> QED BY <2>1, <2>2
<1>6. CASE Reread
  BY <1>6, RereadStep
<1>7. ASSUME NEW d \in untried, TryCard(d) PROVE TypeInv'
  <2>1. /\ pc = "cards" /\ gpu = 0 /\ caller = "cards"
        /\ d \in DOMAIN devices /\ untried' \subseteq untried
    BY <1>7 DEF TryCard, Rest
  <2>2. UNCHANGED <<devices, shows, undisturbed, i, candVars, gpu, caller, attempts, resultVars>>
    BY <1>7 DEF TryCard
  <2>3. CASE BeginScan(d) /\ open_fds' = open_fds \cup {"probe"}
    BY <2>1, <2>2, <2>3 DEF BeginScan
  <2>4. CASE UNCHANGED <<pc, k, selectVars, open_fds>>
    BY <2>1, <2>2, <2>4
  <2> QED BY <1>7, <2>3, <2>4 DEF TryCard
<1>8. CASE NoCard
  BY <1>8 DEF NoCard
<1>9. ASSUME NEW c \in Connectors, HandleNewOutput(c) PROVE TypeInv'
  <2>1. ModeFor(Modes(c)) \in Mode \cup {NoMode}
    BY ModesType, ModeForType
  <2>2. DOMAIN mode_set' = DOMAIN mode_set \cup {c}
    BY <1>9 DEF HandleNewOutput, SetMode
  <2>3. \A o \in DOMAIN mode_set' : mode_set'[o] \in Mode \cup {NoMode}
    BY <1>9, <2>1, <2>2 DEF HandleNewOutput, SetMode
  <2>4. /\ pc = "announce" /\ undisturbed' \in BOOLEAN
        /\ UNCHANGED <<pc, devices, shows, scanVars, open_fds, gpu,
                       caller, attempts, untried, selectVars, size>>
    BY <1>9 DEF HandleNewOutput
  <2> QED BY <2>2, <2>3, <2>4
<1>10. ASSUME NEW c \in Connectors, NEW d \in Displays \cup {NoDisplay}, HotPlug(c, d)
       PROVE  TypeInv'
  BY <1>10 DEF HotPlug
<1>11. CASE UNCHANGED vars
  BY <1>11 DEF vars, discoverVars
<1> QED BY <1>1, <1>2, <1>3, <1>4, <1>5, <1>6, <1>7, <1>8, <1>9, <1>10, <1>11 DEF Next, Selecting

\* The types and the places hold throughout.
LEMMA TypeInvariant == Spec => []TypeInv
BY TypeInvInit, TypeInvStep, PTL DEF Spec

\* Every variable keeps the values the code gives it; the polls are bounded, and
\* what is indexed is there.
THEOREM OutputTypeCorrect == Spec => []OutputTypeOK
<1>1. TypeInv => OutputTypeOK
  BY DEF TypeInv
<1> QED BY <1>1, TypeInvariant, PTL

-----------------------------------------------------------------------------
(* Descriptors. *)

\* No descriptor is open at first.
LEMMA OpenInit == Init => NothingLeftOpen
BY DEF Init, DiscoverInit, NothingLeftOpen

\* Every way out of a probe, a scan or a discovery closes what it opened.
LEMMA OpenStep == TypeInv /\ NothingLeftOpen /\ [Next]_vars => NothingLeftOpen'
<1> SUFFICES ASSUME TypeInv, NothingLeftOpen, [Next]_vars PROVE NothingLeftOpen'
  OBVIOUS
<1>1. /\ pc \in Stages
      /\ pc = "found" <=> gpu # 0 /\ ~Selects
      /\ pc = "cards" => caller = "cards"
      /\ Selects => (gpu = 0 <=> caller = "cards")
      /\ pc \in DiscoverStages => caller # "cards"
  BY DEF TypeInv, PlaceInv, OutputTypeOK
<1>a. TypeInv'
  BY TypeInvStep
<1>b. pc' = "found" <=> gpu' # 0 /\ ~Selects'
  BY <1>a DEF TypeInv, PlaceInv
<1> USE DEF NothingLeftOpen, Stages, DiscoverStages, Selects
<1>2. CASE Discovering
  <2>1. CASE Enumerate \/ SkipDevice \/ DevicesDone \/ ScoreCandidate \/ Selected
    BY <1>1, <1>b, <2>1 DEF Enumerate, SkipDevice, DevicesDone, ScoreCandidate, Selected
  <2>2. CASE OpenDevice
    BY <1>1, <2>2 DEF OpenDevice, Evaluated
  <2>3. CASE ReadConnector \/ NoConnector
    BY <1>1, <2>3 DEF ReadConnector, NoConnector, Evaluated, CloseProbe
  <2>4. CASE OpenSelected
    BY <1>1, <1>b, <2>4 DEF OpenSelected
  <2> QED BY <1>2, <2>1, <2>2, <2>3, <2>4 DEF Discovering, DiscoverStep
<1>3. CASE Retry \/ SelectOutput \/ NoCard
  BY <1>1, <1>3 DEF Retry, SelectOutput, BeginScan, NoCard
<1>4. CASE ScanConnector
  BY <1>1, <1>4 DEF ScanConnector
<1>5. ASSUME NEW found, NEW mode, Return(found, mode), Selects, UNCHANGED caller
      PROVE  NothingLeftOpen'
  BY <1>1, <1>5 DEF Return, GpuClosed
<1>6. CASE NoOutput \/ Reread
  <2>1. Selects /\ UNCHANGED caller
    BY <1>6 DEF NoOutput, Reread
  <2>2. CASE \E found, mode : Return(found, mode)
    BY <1>5, <2>1, <2>2
  <2>3. CASE pc' = "reread" /\ UNCHANGED <<open_fds, gpu>>
    BY <1>1, <2>1, <2>3
  <2>4. NoOutput => (\E found, mode : Return(found, mode))
                      \/ (pc' = "reread" /\ UNCHANGED <<open_fds, gpu>>)
    BY DEF NoOutput
  <2>5. Reread => \E found, mode : Return(found, mode)
    BY RereadReturns
  <2> QED BY <1>6, <2>2, <2>3, <2>4, <2>5
<1>7. ASSUME NEW d \in untried, TryCard(d) PROVE NothingLeftOpen'
  BY <1>1, <1>7 DEF TryCard, BeginScan
<1>8. ASSUME NEW c \in Connectors, HandleNewOutput(c) PROVE NothingLeftOpen'
  BY <1>8 DEF HandleNewOutput, discoverVars
<1>9. ASSUME NEW c \in Connectors, NEW d \in Displays \cup {NoDisplay}, HotPlug(c, d)
      PROVE  NothingLeftOpen'
  BY <1>9 DEF HotPlug
<1>10. CASE UNCHANGED vars
  BY <1>10 DEF vars, discoverVars
<1> QED BY <1>2, <1>3, <1>4, <1>6, <1>7, <1>8, <1>9, <1>10 DEF Next, Selecting

\* Whichever open or read fails, no descriptor outlives the poll, the probe or
\* the card it was opened for.
THEOREM DescriptorsClosed == Spec => []NothingLeftOpen
BY TypeInvariant, OpenInit, OpenStep, PTL DEF Spec

-----------------------------------------------------------------------------
(* The device. *)

\* The loop over the scores: the best of the first m candidates.
BestOfFirst(m) ==
    /\ best = 0 => m = 0 /\ best_score = -1
    /\ best # 0 => best \in 1 .. m /\ best_score = GpuScore(cands[best])
    /\ \A n \in 1 .. m :
          /\ GpuScore(cands[n]) <= best_score
          /\ n < best => GpuScore(cands[n]) < best_score

ScoreInv ==
    /\ pc = "score" => i \in 1 .. Len(cands) + 1 /\ BestOfFirst(i - 1)
    /\ pc = "open" => BestOfFirst(Len(cands))

PanelConnected == \A n \in DOMAIN cands : cands[n].is_edp => cands[n].has_connected_output

DeviceInv == ScoreInv /\ SelectedIsBest /\ PanelConnected

\* No candidate is scored yet.
LEMMA DeviceInit == Init => DeviceInv
BY DEF Init, DiscoverInit, DeviceInv, ScoreInv, SelectedIsBest, PanelConnected

\* A step that leaves the candidates alone and does not enter the scoring loop.
LEMMA ScoresKept ==
    ASSUME DeviceInv, UNCHANGED <<i, candVars>>,
           UNCHANGED <<pc, gpu>> \/ pc' \notin {"score", "open", "found"}
    PROVE  DeviceInv'
BY DEF DeviceInv, ScoreInv, SelectedIsBest, PanelConnected, BestOfFirst, candVars

\* An entry is added, about a device with a display if it has a panel.
LEMMA EvaluatedPanel ==
    ASSUME TypeInv, PanelConnected, NEW connected \in BOOLEAN, NEW edp \in BOOLEAN,
           edp => connected, Evaluated(connected, edp)
    PROVE  PanelConnected'
<1> DEFINE c == [index |-> i, vendor |-> devices[i].vendor,
                 has_connected_output |-> connected, is_edp |-> edp]
<1>1. cands \in Seq(Candidate)
  BY DEF TypeInv, OutputTypeOK, DiscoverTypeOK
<1>2. c.is_edp => c.has_connected_output
  OBVIOUS
<1>3. cands' = Append(cands, c)
  BY DEF Evaluated
<1> HIDE DEF c
<1>4. /\ DOMAIN cands' = 1 .. Len(cands) + 1 /\ DOMAIN cands = 1 .. Len(cands)
      /\ cands'[Len(cands) + 1] = c
      /\ \A n \in 1 .. Len(cands) : cands'[n] = cands[n]
      /\ Len(cands) \in Nat
  BY <1>1, <1>3
<1>5. ASSUME NEW n \in DOMAIN cands', cands'[n].is_edp PROVE cands'[n].has_connected_output
  <2>1. n = Len(cands) + 1 \/ n \in 1 .. Len(cands)
    BY <1>4
  <2> QED BY <1>2, <1>4, <1>5, <2>1 DEF PanelConnected
<1> QED BY <1>5 DEF PanelConnected

\* The loop of playos_gpu_select_index, step by step.
LEMMA DeviceStep == TypeInv /\ DeviceInv /\ [Next]_vars => DeviceInv'
<1> SUFFICES ASSUME TypeInv, DeviceInv, [Next]_vars PROVE DeviceInv'
  OBVIOUS
<1>1. cands \in Seq(Candidate) /\ i \in Nat \ {0}
  BY DEF TypeInv, OutputTypeOK, DiscoverTypeOK
<1>2. \A n \in DOMAIN cands : GpuScore(cands[n]) \in Nat
  BY <1>1, GpuScoreType
<1>3. CASE Enumerate
  BY <1>3 DEF Enumerate, DeviceInv, ScoreInv, SelectedIsBest, PanelConnected
<1>4. CASE SkipDevice
  BY <1>4 DEF SkipDevice, DeviceInv, ScoreInv, SelectedIsBest, PanelConnected, candVars
<1>5. ASSUME NEW connected \in BOOLEAN, NEW edp \in BOOLEAN, edp => connected,
             Evaluated(connected, edp)
      PROVE  DeviceInv'
  <2>1. PanelConnected'
    BY <1>5, EvaluatedPanel DEF DeviceInv
  <2> QED BY <1>5, <2>1 DEF Evaluated, DeviceInv, ScoreInv, SelectedIsBest
<1>6. CASE OpenDevice
  BY <1>5, <1>6, ScoresKept DEF OpenDevice
<1>7. CASE ReadConnector
  <2> DEFINE c == devices[i].connectors[k]
  <2>1. CASE Evaluated(TRUE, BuiltIn(c))
    <3>1. BuiltIn(c) \in BOOLEAN
      BY DEF BuiltIn
    <3> HIDE DEF c
    <3>2. TRUE \in BOOLEAN /\ (BuiltIn(c) => TRUE)
      OBVIOUS
    <3> QED BY <1>5, <2>1, <3>1, <3>2
  <2>2. CASE UNCHANGED <<pc, i, candVars, open_fds, gpu>>
    BY <2>2, ScoresKept
  <2> QED BY <1>7, <2>1, <2>2 DEF ReadConnector
<1>8. CASE NoConnector
  BY <1>5, <1>8 DEF NoConnector
<1>9. CASE DevicesDone
  <2>1. i' = 1 /\ best' = 0 /\ best_score' = -1 /\ pc' = "score" /\ UNCHANGED cands
    BY <1>9 DEF DevicesDone
  <2>2. BestOfFirst(0)' /\ i' - 1 = 0
    BY <2>1 DEF BestOfFirst
  <2>3. (i \in 1 .. Len(cands) + 1)'
    BY <1>1, <2>1
  <2> QED BY <2>1, <2>2, <2>3 DEF DeviceInv, ScoreInv, SelectedIsBest, PanelConnected, BestOfFirst
<1>10. CASE ScoreCandidate
  <2>1. /\ pc = "score" /\ i \in 1 .. Len(cands) /\ BestOfFirst(i - 1)
        /\ i' = i + 1 /\ UNCHANGED <<pc, cands, gpu>>
    BY <1>1, <1>10 DEF ScoreCandidate, DeviceInv, ScoreInv
  <2>2. i \in DOMAIN cands /\ GpuScore(cands[i]) \in Nat
    BY <1>1, <1>2, <2>1
  <2>3. PICK m : m = i
    OBVIOUS
  <2>4. BestOfFirst(m)'
    <3>1. CASE Better(cands[i])
      <4>1. best' = m /\ best_score' = GpuScore(cands[m])
        BY <1>10, <2>3, <3>1 DEF ScoreCandidate
      <4>2. ASSUME NEW n \in 1 .. m
            PROVE  GpuScore(cands[n]) <= best_score' /\ (n < m => GpuScore(cands[n]) < best_score')
        <5>1. CASE n = m
          BY <2>2, <2>3, <4>1, <5>1
        <5>2. CASE n \in 1 .. m - 1
          <6>1. GpuScore(cands[n]) <= best_score /\ GpuScore(cands[m]) > best_score
            BY <2>1, <2>3, <3>1, <5>2 DEF BestOfFirst, Better
          <6>2. GpuScore(cands[n]) \in Int /\ GpuScore(cands[m]) \in Int /\ best_score \in Int
            BY <1>1, <1>2, <2>1, <2>2, <2>3, <5>2 DEF TypeInv, OutputTypeOK, DiscoverTypeOK
          <6> QED BY <4>1, <6>1, <6>2
        <5> QED BY <2>1, <2>3, <5>1, <5>2
      <4> QED BY <2>1, <2>3, <4>1, <4>2 DEF BestOfFirst
    <3>2. CASE ~ Better(cands[i])
      <4>1. UNCHANGED <<best, best_score>> /\ best_score \in Int
        BY <1>10, <3>2 DEF ScoreCandidate, TypeInv, OutputTypeOK, DiscoverTypeOK
      <4>2. GpuScore(cands[m]) <= best_score
        BY <2>2, <2>3, <3>2, <4>1 DEF Better
      <4>3. best # 0 /\ best < m
        BY <2>1, <2>2, <2>3, <4>2 DEF BestOfFirst
      <4> QED BY <2>1, <2>3, <4>1, <4>2, <4>3 DEF BestOfFirst
    <3> QED BY <3>1, <3>2
  <2>5. i' - 1 = m /\ i' \in 1 .. Len(cands) + 1
    BY <1>1, <2>1, <2>3
  <2> QED BY <2>1, <2>4, <2>5 DEF DeviceInv, ScoreInv, SelectedIsBest, PanelConnected, BestOfFirst
<1>11. CASE Selected
  <2>1. BestOfFirst(Len(cands))
    BY <1>1, <1>11 DEF Selected, DeviceInv, ScoreInv
  <2> QED BY <1>11, <2>1 DEF Selected, DeviceInv, ScoreInv, SelectedIsBest, PanelConnected,
                             BestOfFirst, scanVars, candVars
<1>12. CASE OpenSelected
  <2>1. CASE pc' = "found" /\ gpu' = cands[best].index
    <3>1. BestOfFirst(Len(cands)) /\ best \in DOMAIN cands /\ UNCHANGED cands
      BY <1>1, <1>12 DEF OpenSelected, DeviceInv, ScoreInv, TypeInv, PlaceInv, scanVars, candVars
    <3>2. DOMAIN cands = 1 .. Len(cands)
      BY <1>1
    <3> QED BY <2>1, <3>1, <3>2 DEF DeviceInv, ScoreInv, SelectedIsBest, PanelConnected, BestOfFirst
  <2>2. CASE pc' = "failed"
    BY <1>12, <2>2 DEF OpenSelected, DeviceInv, ScoreInv, SelectedIsBest, PanelConnected, scanVars,
                       candVars
  <2> QED BY <1>12, <2>1, <2>2 DEF OpenSelected
<1>13. CASE Retry \/ SelectOutput \/ ScanConnector \/ NoOutput \/ Reread \/ NoCard
  BY <1>13, ScoresKept DEF Retry, SelectOutput, BeginScan, ScanConnector, NoOutput, Reread, Return,
                           NoCard, scanVars, resultVars
<1>14. ASSUME NEW d \in untried, TryCard(d) PROVE DeviceInv'
  BY <1>14, ScoresKept DEF TryCard, BeginScan
<1>15. ASSUME NEW c \in Connectors, HandleNewOutput(c) PROVE DeviceInv'
  BY <1>15, ScoresKept DEF HandleNewOutput, discoverVars, scanVars
<1>16. ASSUME NEW c \in Connectors, NEW d \in Displays \cup {NoDisplay}, HotPlug(c, d)
       PROVE  DeviceInv'
  BY <1>16, ScoresKept DEF HotPlug, scanVars
<1>17. CASE UNCHANGED vars
  BY <1>17, ScoresKept DEF vars, discoverVars, scanVars
<1> QED BY <1>3, <1>4, <1>6, <1>7, <1>8, <1>9, <1>10, <1>11, <1>12, <1>13, <1>14, <1>15, <1>16,
           <1>17 DEF Next, Selecting, Discovering, DiscoverStep

\* The scores are compared correctly throughout.
LEMMA DeviceInvariant == Spec => [](TypeInv /\ DeviceInv)
BY TypeInvariant, DeviceInit, DeviceStep, PTL DEF Spec

\* The card that is opened is the first of the best candidates, for any machine.
THEOREM BestDevice == Spec => []SelectedIsBest
<1>1. DeviceInv => SelectedIsBest
  BY DEF DeviceInv
<1> QED BY <1>1, DeviceInvariant, PTL

\* What is connected decides the score to within 300 points.
LEMMA GpuScoreRange ==
    \A c \in Candidate :
        /\ GpuScore(c) \in Nat
        /\ c.is_edp => GpuScore(c) > 1000
        /\ ~ c.is_edp => GpuScore(c) <= 800
        /\ c.has_connected_output => GpuScore(c) > 500
        /\ ~ c.is_edp /\ ~ c.has_connected_output => GpuScore(c) <= 300
<1> SUFFICES ASSUME NEW c \in Candidate
             PROVE  /\ GpuScore(c) \in Nat
                    /\ c.is_edp => GpuScore(c) > 1000
                    /\ ~ c.is_edp => GpuScore(c) <= 800
                    /\ c.has_connected_output => GpuScore(c) > 500
                    /\ ~ c.is_edp /\ ~ c.has_connected_output => GpuScore(c) <= 300
  OBVIOUS
<1>1. VendorScore(c.vendor) \in 1 .. 300
  BY DEF Candidate, VendorScore, Vendors
<1>2. CASE c.is_edp
  <2>1. GpuScore(c) = VendorScore(c.vendor) + 1000
    BY <1>2 DEF GpuScore
  <2> QED BY <1>1, <1>2, <2>1
<1>3. CASE ~ c.is_edp /\ c.has_connected_output
  <2>1. GpuScore(c) = VendorScore(c.vendor) + 500
    BY <1>3 DEF GpuScore
  <2> QED BY <1>1, <1>3, <2>1
<1>4. CASE ~ c.is_edp /\ ~ c.has_connected_output
  <2>1. GpuScore(c) = VendorScore(c.vendor) + 0
    BY <1>4 DEF GpuScore
  <2> QED BY <1>1, <1>4, <2>1
<1> QED BY <1>2, <1>3, <1>4

\* The terms of the score are far enough apart that no vendor outweighs a display,
\* nor a panel.
LEMMA ScoresApart == TypeInv /\ DeviceInv => OutputBeatsVendor
<1> SUFFICES ASSUME TypeInv, DeviceInv, pc = "found" PROVE OutputBeatsVendor
  BY DEF OutputBeatsVendor
<1>1. \A n \in DOMAIN cands :
         /\ cands[n] \in Candidate
         /\ cands[n].is_edp => cands[n].has_connected_output
  BY DEF TypeInv, OutputTypeOK, DiscoverTypeOK, DeviceInv, PanelConnected
<1>2. PICK b \in DOMAIN cands :
         gpu = cands[b].index /\ \A n \in DOMAIN cands : GpuScore(cands[n]) <= GpuScore(cands[b])
  BY DEF DeviceInv, SelectedIsBest
<1>3. ASSUME NEW n \in DOMAIN cands
      PROVE  /\ cands[n].is_edp => cands[b].is_edp
             /\ cands[n].has_connected_output => cands[b].has_connected_output
  <2> DEFINE x == cands[n]
             y == cands[b]
  <2>1. /\ x \in Candidate /\ y \in Candidate
        /\ x.is_edp => x.has_connected_output
        /\ y.is_edp => y.has_connected_output
        /\ GpuScore(x) <= GpuScore(y)
    BY <1>1, <1>2
  <2> HIDE DEF x, y
  <2>2. GpuScore(x) \in Nat /\ GpuScore(y) \in Nat
    BY <2>1, GpuScoreRange
  <2>3. ASSUME x.is_edp, ~ y.is_edp PROVE FALSE
    <3>1. GpuScore(x) > 1000
      BY <2>1, <2>3, GpuScoreRange
    <3>2. GpuScore(y) <= 800
      BY <2>1, <2>3, GpuScoreRange
    <3> QED BY <2>1, <2>2, <3>1, <3>2
  <2>4. ASSUME x.has_connected_output, ~ y.has_connected_output PROVE FALSE
    <3>1. ~ y.is_edp
      BY <2>1, <2>4, Zenon
    <3>2. GpuScore(x) > 500
      BY <2>1, <2>4, GpuScoreRange
    <3>3. GpuScore(y) <= 300
      BY <2>1, <2>4, <3>1, GpuScoreRange
    <3> QED BY <2>1, <2>2, <3>2, <3>3
  <2> QED BY <2>3, <2>4, Zenon DEF x, y
<1> QED BY <1>2, <1>3 DEF OutputBeatsVendor

\* The card that is opened has a display, and a panel, if any candidate had one.
THEOREM DisplayOverVendor == Spec => []OutputBeatsVendor
BY DeviceInvariant, ScoresApart, PTL

-----------------------------------------------------------------------------
(* What the probes tell of the devices. *)

Probing == {"device", "connector", "score", "open", "found"}

\* What an entry says of its device is so.
Told(entry) ==
    /\ entry.index \in Primaries
    /\ entry.has_connected_output <=> HasOutput(entry.index)
    /\ entry.is_edp <=> PanelFirst(entry.index)

\* As long as nothing moves the entries are right, and there is one for every
\* card the loop has been at.
ProbeInv ==
    undisturbed /\ pc \in Probing =>
        /\ \A n \in DOMAIN cands : Told(cands[n])
        /\ \A d \in Primaries :
              \/ pc \in {"device", "connector"} /\ d >= i
              \/ \E n \in DOMAIN cands : cands[n].index = d
        /\ pc = "connector" =>
              devices[i].primary /\ \A m \in 1 .. k - 1 : ~ Wired(devices[i].connectors[m])

\* Nothing has been looked at yet.
LEMMA ProbeInit == Init => ProbeInv
BY DEF Init, DiscoverInit, ProbeInv, Probing

\* What is said of a device stays so while devices and displays stay.
LEMMA ToldKept ==
    ASSUME UNCHANGED <<devices, shows>>, NEW entry
    PROVE  Primaries' = Primaries /\ (Told(entry) => Told(entry)')
<1>1. Primaries' = Primaries
  BY DEF Primaries
<1>2. /\ HasOutput(entry.index)' <=> HasOutput(entry.index)
      /\ PanelFirst(entry.index)' <=> PanelFirst(entry.index)
  BY DEF HasOutput, PanelFirst, Wired
<1> QED BY <1>1, <1>2, Zenon DEF Told

\* A step of the scoring, or one that is not of a probe.
LEMMA ProbeKept ==
    ASSUME ProbeInv,
           \/ pc' \notin Probing
           \/ undisturbed' = FALSE
           \/ /\ UNCHANGED <<devices, shows, cands, undisturbed>>
              /\ pc \in {"score", "open", "found"} /\ pc' \in {"score", "open", "found"}
    PROVE  ProbeInv'
<1>1. CASE /\ UNCHANGED <<devices, shows, cands, undisturbed>>
           /\ pc \in {"score", "open", "found"} /\ pc' \in {"score", "open", "found"}
  <2> SUFFICES ASSUME undisturbed PROVE ProbeInv'
    BY <1>1 DEF ProbeInv
  <2>1. /\ \A n \in DOMAIN cands : Told(cands[n])
        /\ \A d \in Primaries : \E n \in DOMAIN cands : cands[n].index = d
    BY <1>1 DEF ProbeInv, Probing
  <2>2. ASSUME NEW n \in DOMAIN cands' PROVE Told(cands[n])'
    <3>1. PICK entry : entry = cands[n]
      OBVIOUS
    <3>2. Told(entry)'
      BY <1>1, <2>1, <2>2, <3>1, ToldKept
    <3> QED BY <1>1, <3>1, <3>2 DEF Told
  <2>3. Primaries' = Primaries
    BY <1>1 DEF Primaries
  <2> QED BY <1>1, <2>1, <2>2, <2>3 DEF ProbeInv
<1>2. CASE pc' \notin Probing \/ undisturbed' = FALSE
  BY <1>2 DEF ProbeInv
<1> QED BY <1>1, <1>2

\* The entry that is added is right, and the loop goes on behind its device.
LEMMA ProbeAdds ==
    ASSUME TypeInv, ProbeInv, undisturbed, UNCHANGED <<devices, shows, undisturbed>>,
           pc = "connector", i \in DOMAIN devices,
           NEW connected \in BOOLEAN, NEW edp \in BOOLEAN,
           connected <=> HasOutput(i), edp <=> PanelFirst(i),
           Evaluated(connected, edp)
    PROVE  ProbeInv'
<1> DEFINE c == [index |-> i, vendor |-> devices[i].vendor,
                 has_connected_output |-> connected, is_edp |-> edp]
<1>1. cands \in Seq(Candidate) /\ Primaries \in SUBSET Nat /\ i \in Nat
  BY DEF TypeInv, OutputTypeOK, DiscoverTypeOK, Primaries
<1>2. i \in Primaries
  BY DEF ProbeInv, Probing, Primaries
<1>3. c.index = i /\ c.has_connected_output = connected /\ c.is_edp = edp
  OBVIOUS
<1>4. cands' = Append(cands, c) /\ i' = i + 1 /\ pc' = "device"
  BY DEF Evaluated
<1> HIDE DEF c
<1>5. Told(c)
  BY <1>2, <1>3, Zenon DEF Told
<1>6. /\ DOMAIN cands' = 1 .. Len(cands) + 1 /\ DOMAIN cands = 1 .. Len(cands)
      /\ cands'[Len(cands) + 1] = c
      /\ \A n \in 1 .. Len(cands) : cands'[n] = cands[n]
      /\ Len(cands) \in Nat
  BY <1>1, <1>4
<1>7. ASSUME NEW n \in DOMAIN cands' PROVE Told(cands[n])'
  <2>1. n = Len(cands) + 1 \/ n \in 1 .. Len(cands)
    BY <1>6
  <2>2. PICK entry : entry = cands'[n]
    OBVIOUS
  <2>3. Told(entry)
    BY <1>5, <1>6, <2>1, <2>2 DEF ProbeInv, Probing
  <2>4. Told(entry)'
    BY <2>3, ToldKept
  <2> QED BY <2>2, <2>4 DEF Told
<1>8. ASSUME NEW d \in Primaries
      PROVE  d >= i' \/ \E n \in DOMAIN cands' : cands'[n].index = d
  <2>1. CASE d = i
    <3>1. Len(cands) + 1 \in DOMAIN cands'
      BY <1>6
    <3> QED BY <1>3, <1>6, <2>1, <3>1
  <2>2. CASE d >= i /\ d # i
    BY <1>1, <1>4, <2>2
  <2>3. CASE \E n \in DOMAIN cands : cands[n].index = d
    <3>1. PICK n \in DOMAIN cands : cands[n].index = d
      BY <2>3
    <3>2. n \in DOMAIN cands' /\ cands'[n] = cands[n]
      BY <1>6, <3>1
    <3> QED BY <3>1, <3>2
  <2>4. d >= i \/ \E n \in DOMAIN cands : cands[n].index = d
    BY DEF ProbeInv, Probing
  <2> QED BY <2>1, <2>2, <2>3, <2>4
<1>9. Primaries' = Primaries
  BY DEF Primaries
<1> QED BY <1>4, <1>7, <1>8, <1>9 DEF ProbeInv

\* The connectors of a device whose probe is open.
LEMMA ProbedDevice ==
    ASSUME TypeInv, i \in DOMAIN devices
    PROVE  /\ devices[i].connectors \in Seq(Connectors)
           /\ DOMAIN devices[i].connectors = 1 .. Len(devices[i].connectors)
           /\ Len(devices[i].connectors) \in Nat /\ k \in Nat \ {0}
<1>1. devices[i] \in Device /\ k \in Nat \ {0}
  BY DEF TypeInv, OutputTypeOK, DiscoverTypeOK
<1>2. devices[i].connectors \in Seq(Connectors)
  BY <1>1 DEF Device
<1> QED BY <1>1, <1>2

\* A connector is read: the first with a display decides.
LEMMA ReadTells ==
    ASSUME TypeInv, ProbeInv, undisturbed, ReadConnector
    PROVE  ProbeInv'
<1> DEFINE c == devices[i].connectors[k]
<1>1. /\ pc = "connector" /\ i \in DOMAIN devices /\ UNCHANGED <<devices, shows>>
      /\ k \in 1 .. Len(devices[i].connectors)
  BY ProbedDevice DEF ReadConnector, TypeInv, PlaceInv
<1>2. \A m \in 1 .. k - 1 : ~ Wired(devices[i].connectors[m])
  BY <1>1 DEF ProbeInv, Probing
<1>3. k \in DOMAIN devices[i].connectors /\ k \in Nat
  BY <1>1, ProbedDevice
<1>4. CASE /\ Wired(c)
           /\ Evaluated(TRUE, BuiltIn(c))
           /\ UNCHANGED undisturbed
  <2>1. HasOutput(i)
    BY <1>3, <1>4 DEF HasOutput
  <2>2. PanelFirst(i) <=> BuiltIn(c)
    <3>1. ASSUME BuiltIn(c) PROVE PanelFirst(i)
      BY <1>2, <1>3, <1>4, <3>1 DEF PanelFirst
    <3>2. ASSUME PanelFirst(i) PROVE BuiltIn(c)
      <4>1. PICK n \in DOMAIN devices[i].connectors :
              /\ Wired(devices[i].connectors[n]) /\ BuiltIn(devices[i].connectors[n])
              /\ \A m \in 1 .. n - 1 : ~ Wired(devices[i].connectors[m])
        BY <3>2 DEF PanelFirst
      <4>2. n \in Nat \ {0}
        BY <1>1, <4>1, ProbedDevice
      <4>3. ~ n < k
        BY <1>2, <1>3, <4>1, <4>2
      <4>4. ~ k < n
        BY <1>1, <1>4, <4>1, <4>2
      <4>5. n = k
        BY <1>3, <4>2, <4>3, <4>4
      <4> QED BY <4>1, <4>5
    <3> QED BY <3>1, <3>2
  <2>3. BuiltIn(c) \in BOOLEAN /\ TRUE \in BOOLEAN /\ (TRUE <=> HasOutput(i))
    BY <2>1 DEF BuiltIn
  <2> HIDE DEF c
  <2>4. UNCHANGED <<devices, shows, undisturbed>> /\ Evaluated(TRUE, BuiltIn(c))
    BY <1>1, <1>4
  <2> QED BY <1>1, <2>2, <2>3, <2>4, ProbeAdds
<1>5. CASE /\ undisturbed' = (undisturbed /\ ~ Wired(c))
           /\ k' = k + 1
           /\ UNCHANGED <<pc, i, candVars, open_fds, gpu>>
  <2>1. CASE Wired(c)
    <3>1. undisturbed' = FALSE
      BY <1>5, <2>1
    <3> QED BY <3>1, ProbeKept
  <2>2. CASE ~ Wired(c)
    <3>1. /\ \A n \in DOMAIN cands : Told(cands[n])
          /\ \A d \in Primaries : d >= i \/ \E n \in DOMAIN cands : cands[n].index = d
          /\ devices[i].primary
      BY <1>1 DEF ProbeInv, Probing
    <3>2. /\ UNCHANGED <<pc, i, cands, devices, shows>> /\ k' = k + 1
      BY <1>1, <1>5 DEF candVars
    <3>3. \A m \in 1 .. k : ~ Wired(devices[i].connectors[m])
      BY <1>2, <1>3, <2>2
    <3>4. ASSUME NEW n \in DOMAIN cands' PROVE Told(cands[n])'
      <4>1. PICK entry : entry = cands[n]
        OBVIOUS
      <4>2. Told(entry)'
        BY <3>1, <3>2, <3>4, <4>1, ToldKept
      <4> QED BY <3>2, <4>1, <4>2 DEF Told
    <3>5. Primaries' = Primaries
      BY <3>2 DEF Primaries
    <3>6. (devices[i].primary /\ \A m \in 1 .. k - 1 : ~ Wired(devices[i].connectors[m]))'
      BY <1>3, <3>1, <3>2, <3>3 DEF Wired
    <3>7. (\A d \in Primaries : d >= i \/ \E n \in DOMAIN cands : cands[n].index = d)'
      BY <3>1, <3>2, <3>5
    <3> QED BY <1>1, <3>2, <3>4, <3>6, <3>7 DEF ProbeInv
  <2> QED BY <2>1, <2>2
<1> QED BY <1>4, <1>5 DEF ReadConnector

\* A device that is skipped, one whose probe begins, and the end of the loop.
LEMMA ProbeMoves ==
    ASSUME TypeInv, ProbeInv, undisturbed, UNCHANGED <<devices, shows, undisturbed, cands>>,
           pc = "device",
           \/ /\ i \in DOMAIN devices /\ ~ devices[i].primary
              /\ i' = i + 1 /\ pc' = "device"
           \/ /\ i \in DOMAIN devices /\ devices[i].primary
              /\ i' = i /\ k' = 1 /\ pc' = "connector"
           \/ i > Len(devices) /\ pc' = "score"
    PROVE  ProbeInv'
<1>1. /\ \A n \in DOMAIN cands : Told(cands[n])
      /\ \A d \in Primaries : d >= i \/ \E n \in DOMAIN cands : cands[n].index = d
  BY DEF ProbeInv, Probing
<1>2. devices \in Seq(Device) /\ i \in Nat \ {0}
  BY DEF TypeInv, OutputTypeOK, DiscoverTypeOK
<1>3. Primaries' = Primaries /\ Primaries \subseteq 1 .. Len(devices)
  BY <1>2 DEF Primaries
<1>4. ASSUME NEW n \in DOMAIN cands' PROVE Told(cands[n])'
  <2>1. PICK entry : entry = cands[n]
    OBVIOUS
  <2>2. Told(entry)'
    BY <1>1, <1>4, <2>1, ToldKept
  <2> QED BY <2>1, <2>2 DEF Told
<1>5. CASE i \in DOMAIN devices /\ ~ devices[i].primary /\ i' = i + 1 /\ pc' = "device"
  <2>1. ASSUME NEW d \in Primaries
        PROVE  d >= i' \/ \E n \in DOMAIN cands : cands[n].index = d
    <3>1. d # i /\ d \in Nat
      BY <1>2, <1>3, <1>5, <2>1 DEF Primaries
    <3> QED BY <1>1, <1>2, <1>5, <3>1
  <2> QED BY <1>3, <1>4, <1>5, <2>1 DEF ProbeInv
<1>6. CASE /\ i \in DOMAIN devices /\ devices[i].primary
           /\ i' = i /\ k' = 1 /\ pc' = "connector"
  BY <1>1, <1>3, <1>4, <1>6 DEF ProbeInv
<1>7. CASE i > Len(devices) /\ pc' = "score"
  <2>1. ASSUME NEW d \in Primaries PROVE \E n \in DOMAIN cands : cands[n].index = d
    <3>1. ~ d >= i
      BY <1>2, <1>3, <1>7, <2>1
    <3> QED BY <1>1, <3>1
  <2> QED BY <1>3, <1>4, <1>7, <2>1 DEF ProbeInv
<1> QED BY <1>5, <1>6, <1>7

\* The entries stay right.
LEMMA ProbeStep == TypeInv /\ ProbeInv /\ [Next]_vars => ProbeInv'
<1> SUFFICES ASSUME TypeInv, ProbeInv, [Next]_vars PROVE ProbeInv'
  OBVIOUS
<1>1. undisturbed \in BOOLEAN /\ devices \in Seq(Device) /\ i \in Nat \ {0}
  BY DEF TypeInv, OutputTypeOK, DiscoverTypeOK
<1>2. CASE Enumerate
  <2>1. CASE pc' = "device"
    <3>1. cands' = <<>> /\ i' = 1 /\ devices' \in Seq(Device)
      BY <1>2, MachineAssumption DEF Enumerate
    <3>2. Primaries' \subseteq Nat \ {0}
      BY <3>1 DEF Primaries
    <3> QED BY <2>1, <3>1, <3>2 DEF ProbeInv
  <2>2. CASE pc' = "failed"
    BY <2>2, ProbeKept DEF Probing
  <2> QED BY <1>2, <2>1, <2>2 DEF Enumerate
<1>3. CASE ~ undisturbed /\ ~ Enumerate
  <2>1. undisturbed' = FALSE
    BY <1>1, <1>3
       DEF Next, Selecting, Discovering, DiscoverStep, SkipDevice, OpenDevice, ReadConnector,
           NoConnector, DevicesDone, ScoreCandidate, Selected, OpenSelected, Retry, SelectOutput,
           ScanConnector, NoOutput, Reread, TryCard, NoCard, HandleNewOutput, HotPlug, vars,
           discoverVars
  <2> QED BY <2>1, ProbeKept
<1>4. CASE undisturbed /\ SkipDevice
  <2>1. i \in DOMAIN devices
    BY <1>1, <1>4 DEF SkipDevice
  <2> QED BY <1>4, <2>1, ProbeMoves DEF SkipDevice, candVars
<1>5. CASE undisturbed /\ OpenDevice
  <2>1. i \in DOMAIN devices
    BY <1>1, <1>5 DEF OpenDevice
  <2>2. CASE undisturbed' = FALSE
    BY <2>2, ProbeKept
  <2>3. CASE pc' = "connector" /\ k' = 1 /\ UNCHANGED <<undisturbed, i, candVars>>
    BY <1>5, <2>1, <2>3, ProbeMoves DEF OpenDevice, candVars
  <2> QED BY <1>5, <2>2, <2>3 DEF OpenDevice
<1>6. CASE undisturbed /\ ReadConnector
  BY <1>6, ReadTells
<1>7. CASE undisturbed /\ NoConnector
  <2>1. /\ pc = "connector" /\ i \in DOMAIN devices /\ k > Len(devices[i].connectors)
        /\ Evaluated(FALSE, FALSE) /\ UNCHANGED <<devices, shows, undisturbed>>
    BY <1>7 DEF NoConnector, TypeInv, PlaceInv
  <2>2. \A m \in 1 .. k - 1 : ~ Wired(devices[i].connectors[m])
    BY <1>7, <2>1 DEF ProbeInv, Probing
  <2>3. \A n \in DOMAIN devices[i].connectors : ~ Wired(devices[i].connectors[n])
    BY <2>1, <2>2, ProbedDevice
  <2>4. ~ HasOutput(i) /\ ~ PanelFirst(i)
    BY <2>3 DEF HasOutput, PanelFirst
  <2> QED BY <1>7, <2>1, <2>4, ProbeAdds
<1>8. CASE undisturbed /\ DevicesDone
  BY <1>8, ProbeMoves DEF DevicesDone
<1>9. CASE undisturbed /\ (ScoreCandidate \/ Selected \/ OpenSelected)
  <2>1. UNCHANGED <<devices, shows, cands, undisturbed>>
    BY <1>9 DEF ScoreCandidate, Selected, OpenSelected, scanVars, candVars
  <2>2. /\ pc \in {"score", "open", "found"}
        /\ pc' \in {"score", "open", "found"} \/ pc' \notin Probing
    BY <1>9 DEF ScoreCandidate, Selected, OpenSelected, Probing
  <2> QED BY <2>1, <2>2, ProbeKept
<1>10. CASE Retry \/ SelectOutput \/ ScanConnector \/ NoOutput \/ Reread \/ NoCard
  <2>2. pc' \notin Probing
    BY <1>10 DEF Retry, SelectOutput, BeginScan, ScanConnector, NoOutput, Reread, Return, NoCard,
                 Probing
  <2> QED BY <2>2, ProbeKept
<1>11. ASSUME NEW d \in untried, TryCard(d) PROVE ProbeInv'
  <2>1. pc' \notin Probing
    BY <1>11 DEF TryCard, BeginScan, Probing
  <2> QED BY <2>1, ProbeKept
<1>12. ASSUME NEW c \in Connectors, HandleNewOutput(c) PROVE ProbeInv'
  <2>1. pc' \notin Probing
    BY <1>12 DEF HandleNewOutput, Probing, discoverVars
  <2> QED BY <2>1, ProbeKept
<1>13. ASSUME NEW c \in Connectors, NEW d \in Displays \cup {NoDisplay}, HotPlug(c, d)
       PROVE  ProbeInv'
  BY <1>13, ProbeKept DEF HotPlug
<1>14. CASE UNCHANGED vars
  BY <1>14 DEF ProbeInv, Told, Primaries, HasOutput, PanelFirst, Wired, vars, discoverVars,
               scanVars, candVars
<1> QED BY <1>1, <1>2, <1>3, <1>4, <1>5, <1>6, <1>7, <1>8, <1>9, <1>10, <1>11, <1>12, <1>13,
           <1>14 DEF Next, Selecting, Discovering, DiscoverStep

\* With every read done and nothing moved, no card with a display, or with a
\* panel as its first, is passed over for one without (gpu_discovery.c).
THEOREM CardWithDisplay == Spec => []DrivesDisplay
<1>1. Spec => []ProbeInv
  BY TypeInvariant, ProbeInit, ProbeStep, PTL DEF Spec
<1>2. TypeInv /\ DeviceInv /\ ProbeInv => DrivesDisplay
  <2> SUFFICES ASSUME TypeInv, DeviceInv, ProbeInv, pc = "found", undisturbed
               PROVE  /\ (\E d \in Primaries : HasOutput(d)) => HasOutput(gpu)
                      /\ (\E d \in Primaries : PanelFirst(d)) => PanelFirst(gpu)
    BY DEF DrivesDisplay
  <2>1. PICK b \in DOMAIN cands :
          /\ gpu = cands[b].index
          /\ (\E n \in DOMAIN cands : cands[n].is_edp) => cands[b].is_edp
          /\ (\E n \in DOMAIN cands : cands[n].has_connected_output)
                 => cands[b].has_connected_output
    BY ScoresApart DEF OutputBeatsVendor
  <2>2. /\ \A n \in DOMAIN cands : Told(cands[n])
        /\ \A d \in Primaries : \E n \in DOMAIN cands : cands[n].index = d
    BY DEF ProbeInv, Probing
  <2>3. ASSUME NEW d \in Primaries
        PROVE  (HasOutput(d) => HasOutput(gpu)) /\ (PanelFirst(d) => PanelFirst(gpu))
    <3>1. PICK n \in DOMAIN cands : cands[n].index = d
      BY <2>2
    <3>2. Told(cands[n]) /\ Told(cands[b])
      BY <2>2
    <3> QED BY <2>1, <3>1, <3>2, Zenon DEF Told
  <2> QED BY <2>3
<1> QED BY <1>1, <1>2, DeviceInvariant, PTL

-----------------------------------------------------------------------------
(* The output. *)

\* The loop over the connectors: the best of the first m of the card.
BestOutputOfFirst(m) ==
    /\ best_conn = 0 => conn_score = -1
    /\ best_conn # 0 =>
          /\ best_conn \in 1 .. m
          /\ Modes(CardConnectors[best_conn]) # <<>>
          /\ best_mode = Largest(Modes(CardConnectors[best_conn]))
          /\ conn_score = ConnectorScore(CardConnectors[best_conn])
    /\ \A n \in 1 .. m :
          Modes(CardConnectors[n]) # <<>> =>
              /\ ConnectorScore(CardConnectors[n]) <= conn_score
              /\ n < best_conn => ConnectorScore(CardConnectors[n]) < conn_score

OutputInv ==
    /\ pc = "scan" => k \in 1 .. Len(CardConnectors) + 1
    /\ pc = "scan" /\ undisturbed => BestOutputOfFirst(k - 1)
    /\ pc = "reread" /\ undisturbed => BestOutputOfFirst(Len(CardConnectors))

\* No connector is looked at yet.
LEMMA OutputInit == Init => OutputInv
BY DEF Init, DiscoverInit, OutputInv

\* A step that neither scans nor enters a scan.
LEMMA OutputKept == pc' \notin {"scan", "reread"} => OutputInv'
BY DEF OutputInv

\* The scan begins with the first connector.
LEMMA ScanBegins ==
    ASSUME TypeInv, NEW d \in DOMAIN devices, BeginScan(d), UNCHANGED devices
    PROVE  OutputInv'
<1>1. devices[d] \in Device
  BY DEF TypeInv, OutputTypeOK, DiscoverTypeOK
<1>2. Len(CardConnectors') \in Nat
  BY <1>1 DEF BeginScan, CardConnectors, Device
<1>3. k' = 1 /\ pc' = "scan" /\ best_conn' = 0 /\ conn_score' = -1
  BY DEF BeginScan
<1> QED BY <1>2, <1>3 DEF OutputInv, BestOutputOfFirst

\* One more connector.
LEMMA ScanStep ==
    ASSUME TypeInv, OutputInv, ScanConnector
    PROVE  OutputInv'
<1> DEFINE N == Len(CardConnectors)
           c == CardConnectors[k]
<1>1. /\ pc = "scan" /\ pc' = "scan" /\ k \in 1 .. N /\ k' = k + 1 /\ N \in Nat
      /\ CardConnectors \in Seq(Connectors) /\ CardConnectors' = CardConnectors
  <2>1. /\ pc = "scan" /\ pc' = "scan" /\ k' = k + 1 /\ k <= N
        /\ UNCHANGED <<devices, card>>
    BY DEF ScanConnector
  <2>2. CardConnectors \in Seq(Connectors) /\ N \in Nat
    BY <2>1, CardType DEF Selects
  <2>3. k \in Nat \ {0}
    BY DEF TypeInv, OutputTypeOK, DiscoverTypeOK
  <2>4. CardConnectors' = CardConnectors
    BY <2>1 DEF CardConnectors
  <2> QED BY <2>1, <2>2, <2>3, <2>4
<1>2. k' \in 1 .. N + 1
  BY <1>1
<1>3. c \in Connectors /\ shows \in [Connectors -> Displays \cup {NoDisplay}]
  BY <1>1 DEF TypeInv, OutputTypeOK, DiscoverTypeOK
<1>4. UNCHANGED <<devices, card, shows>>
  BY DEF ScanConnector
<1>5. /\ \A n \in 1 .. N : Modes(CardConnectors[n])' = Modes(CardConnectors[n])
      /\ Modes(CardConnectors[best_conn])' = Modes(CardConnectors[best_conn'])
  BY <1>4 DEF Modes, Wired, CardConnectors
<1>6. /\ \A n \in 1 .. N : ConnectorScore(CardConnectors[n])' = ConnectorScore(CardConnectors[n])
      /\ ConnectorScore(CardConnectors[best_conn])' = ConnectorScore(CardConnectors[best_conn'])
  BY <1>4 DEF ConnectorScore, Modes, Wired, CardConnectors
<1>7. \A n \in 1 .. N :
         Modes(CardConnectors[n]) # <<>> => ConnectorScore(CardConnectors[n]) \in Nat
  BY <1>1, <1>3, ConnectorScoreType
<1>8. conn_score \in Int
  BY DEF TypeInv, OutputTypeOK
<1>9. PICK m \in 1 .. N : m = k
  BY <1>1
<1>10. ASSUME undisturbed' PROVE BestOutputOfFirst(m)'
  <2>1. undisturbed /\ BestOutputOfFirst(m - 1)
    BY <1>1, <1>9, <1>10 DEF OutputInv, ScanConnector, TypeInv, OutputTypeOK, DiscoverTypeOK
  <2> DEFINE Chosen(b, mode, score) ==
                /\ b \in 1 .. m
                /\ Modes(CardConnectors[b]) # <<>>
                /\ mode = Largest(Modes(CardConnectors[b]))
                /\ score = ConnectorScore(CardConnectors[b])
             Highest(b, score) ==
                \A n \in 1 .. m :
                    Modes(CardConnectors[n]) # <<>> =>
                        /\ ConnectorScore(CardConnectors[n]) <= score
                        /\ n < b => ConnectorScore(CardConnectors[n]) < score
             Best(b, mode, score) ==
                /\ b = 0 => score = -1
                /\ b # 0 => Chosen(b, mode, score)
                /\ Highest(b, score)
  <2>2. \A n \in 1 .. m : n # m => n \in 1 .. m - 1
    BY <1>1, <1>9
  <2>3. ASSUME Modes(c) = <<>> PROVE Best(best_conn', best_mode', conn_score')
    <3>1. UNCHANGED <<best_conn, best_mode, conn_score>>
      BY <2>3 DEF ScanConnector
    <3>2. Highest(best_conn, conn_score)
      <4> SUFFICES ASSUME NEW n \in 1 .. m, Modes(CardConnectors[n]) # <<>>
                   PROVE  /\ ConnectorScore(CardConnectors[n]) <= conn_score
                          /\ n < best_conn => ConnectorScore(CardConnectors[n]) < conn_score
        OBVIOUS
      <4>1. n \in 1 .. m - 1
        BY <1>9, <2>2, <2>3
      <4> QED BY <2>1, <4>1 DEF BestOutputOfFirst
    <3>3. best_conn # 0 => Chosen(best_conn, best_mode, conn_score)
      BY <2>1 DEF BestOutputOfFirst
    <3>4. best_conn = 0 => conn_score = -1
      BY <2>1 DEF BestOutputOfFirst
    <3> HIDE DEF Chosen, Highest
    <3> QED BY <3>1, <3>2, <3>3, <3>4
  <2>4. ASSUME Modes(c) # <<>> PROVE Best(best_conn', best_mode', conn_score')
    <3>1. Wired(c)
      BY <2>4 DEF Modes
    <3>2. IF BetterOutput(c)
          THEN best_conn' = k /\ best_mode' = Largest(Modes(c)) /\ conn_score' = ConnectorScore(c)
          ELSE UNCHANGED <<best_conn, best_mode, conn_score>>
      BY <1>3, <1>10, <3>1 DEF ScanConnector
    <3>3. ConnectorScore(c) \in Nat
      BY <1>1, <1>7, <2>4
    <3>4. CASE BetterOutput(c)
      <4>1. best_conn' = m /\ best_mode' = Largest(Modes(c)) /\ conn_score' = ConnectorScore(c)
        BY <1>9, <3>2, <3>4
      <4>2. ConnectorScore(c) > conn_score
        BY <3>4 DEF BetterOutput
      <4>3. \A n \in 1 .. m :
               Modes(CardConnectors[n]) # <<>> /\ n # m =>
                   ConnectorScore(CardConnectors[n]) < ConnectorScore(c)
        BY <1>1, <1>7, <1>8, <1>9, <2>1, <2>2, <3>3, <4>2 DEF BestOutputOfFirst
      <4>4. Highest(m, ConnectorScore(c))
        <5> SUFFICES ASSUME NEW n \in 1 .. m, Modes(CardConnectors[n]) # <<>>
                     PROVE  /\ ConnectorScore(CardConnectors[n]) <= ConnectorScore(c)
                            /\ n < m => ConnectorScore(CardConnectors[n]) < ConnectorScore(c)
          OBVIOUS
        <5>1. CASE n = m
          BY <1>9, <3>3, <5>1
        <5>2. CASE n # m
          <6>1. n \in 1 .. N
            BY <1>1
          <6>2. ConnectorScore(CardConnectors[n]) \in Nat
            BY <1>7, <6>1
          <6> QED BY <3>3, <4>3, <5>2, <6>2
        <5> QED BY <5>1, <5>2
      <4>5. Chosen(m, Largest(Modes(c)), ConnectorScore(c))
        BY <1>9, <2>4
      <4>6. m # 0
        OBVIOUS
      <4> HIDE DEF Chosen, Highest
      <4> QED BY <4>1, <4>4, <4>5, <4>6
    <3>5. CASE ~BetterOutput(c)
      <4>1. UNCHANGED <<best_conn, best_mode, conn_score>>
        BY <3>2, <3>5
      <4>2. ConnectorScore(c) <= conn_score
        BY <1>8, <3>3, <3>5 DEF BetterOutput
      <4>3. best_conn # 0
        BY <2>1, <3>3, <4>2 DEF BestOutputOfFirst
      <4>4. Highest(best_conn, conn_score)
        <5> SUFFICES ASSUME NEW n \in 1 .. m, Modes(CardConnectors[n]) # <<>>
                     PROVE  /\ ConnectorScore(CardConnectors[n]) <= conn_score
                            /\ n < best_conn => ConnectorScore(CardConnectors[n]) < conn_score
          OBVIOUS
        <5>1. CASE n = m
          <6>1. best_conn \in 1 .. m - 1
            BY <2>1, <4>3 DEF BestOutputOfFirst
          <6> QED BY <1>9, <4>2, <5>1, <6>1
        <5>2. CASE n # m
          BY <2>1, <2>2, <5>2 DEF BestOutputOfFirst
        <5> QED BY <5>1, <5>2
      <4>5. Chosen(best_conn, best_mode, conn_score)
        BY <2>1, <4>3 DEF BestOutputOfFirst
      <4> HIDE DEF Chosen, Highest
      <4> QED BY <4>1, <4>3, <4>4, <4>5
    <3> QED BY <3>4, <3>5
  <2>5. Best(best_conn', best_mode', conn_score')
    <3> HIDE DEF Best
    <3> QED BY <2>3, <2>4
  <2>6. \A n \in 1 .. m : n \in 1 .. N
    BY <1>1
  <2>7. /\ \A n \in 1 .. m : Modes(CardConnectors[n])' = Modes(CardConnectors[n])
        /\ \A n \in 1 .. m :
              ConnectorScore(CardConnectors[n])' = ConnectorScore(CardConnectors[n])
    BY <1>5, <1>6, <2>6
  <2> QED BY <1>5, <1>6, <2>5, <2>7 DEF BestOutputOfFirst
<1>11. m = k' - 1
  BY <1>1, <1>9
<1> QED BY <1>1, <1>2, <1>10, <1>11 DEF OutputInv

\* What the loop found stays true while nothing it read changes.
LEMMA FoundKept ==
    ASSUME NEW m \in Nat, BestOutputOfFirst(m), UNCHANGED <<devices, shows, selectVars>>
    PROVE  BestOutputOfFirst(m)'
<1>1. UNCHANGED <<devices, shows, card, best_conn, best_mode, conn_score>>
  BY DEF selectVars
<1>2. \A n : /\ Modes(CardConnectors[n])' = Modes(CardConnectors[n])
             /\ ConnectorScore(CardConnectors[n])' = ConnectorScore(CardConnectors[n])
  BY <1>1 DEF ConnectorScore, Modes, Wired, CardConnectors
<1>3. /\ Modes(CardConnectors[best_conn])' = Modes(CardConnectors[best_conn])
      /\ ConnectorScore(CardConnectors[best_conn])' = ConnectorScore(CardConnectors[best_conn])
  BY <1>1 DEF ConnectorScore, Modes, Wired, CardConnectors
<1> QED BY <1>1, <1>2, <1>3 DEF BestOutputOfFirst

\* After the last connector the best one is read again.
LEMMA ScanEnds ==
    ASSUME TypeInv, OutputInv, NoOutput
    PROVE  OutputInv'
<1>1. CASE best_conn = 0
  BY <1>1, OutputKept DEF NoOutput, Return
<1>2. CASE best_conn # 0
  <2>1. pc = "scan" /\ pc' = "reread" /\ UNCHANGED <<devices, shows, undisturbed, selectVars>>
    BY <1>2 DEF NoOutput
  <2>2. PICK m \in Nat : m = Len(CardConnectors)
    BY <2>1, CardType DEF Selects
  <2>3. k \in 1 .. m + 1 /\ k > m
    BY <2>1, <2>2 DEF OutputInv, NoOutput
  <2>4. k - 1 = m
    BY <2>3
  <2>5. ASSUME undisturbed PROVE BestOutputOfFirst(m)
    BY <2>1, <2>4, <2>5 DEF OutputInv
  <2>6. undisturbed' => BestOutputOfFirst(m)'
    BY <2>1, <2>2, <2>5, FoundKept
  <2>7. Len(CardConnectors)' = m
    BY <2>1, <2>2 DEF CardConnectors, selectVars
  <2> QED BY <2>1, <2>6, <2>7 DEF OutputInv
<1> QED BY <1>1, <1>2

\* The loop of playos_output_select_from_fd, step by step.
LEMMA OutputStep == TypeInv /\ OutputInv /\ [Next]_vars => OutputInv'
<1> SUFFICES ASSUME TypeInv, OutputInv, [Next]_vars PROVE OutputInv'
  OBVIOUS
<1>1. CASE Discovering
  BY <1>1, OutputKept
  DEF Discovering, DiscoverStep, Enumerate, SkipDevice, OpenDevice, Evaluated, ReadConnector,
      NoConnector, DevicesDone, ScoreCandidate, Selected, OpenSelected
<1>2. CASE Retry
  BY <1>2, OutputKept DEF Retry
<1>3. CASE SelectOutput
  <2>1. gpu \in DOMAIN devices
    BY <1>3 DEF SelectOutput, TypeInv, PlaceInv, OutputTypeOK, DiscoverTypeOK
  <2> QED BY <1>3, <2>1, ScanBegins DEF SelectOutput
<1>4. CASE ScanConnector
  BY <1>4, ScanStep
<1>5. CASE NoOutput
  BY <1>5, ScanEnds
<1>6. CASE Reread
  BY <1>6, OutputKept DEF Reread, Return
<1>7. ASSUME NEW d \in untried, TryCard(d) PROVE OutputInv'
  <2>1. d \in DOMAIN devices /\ pc = "cards" /\ UNCHANGED devices
    BY <1>7 DEF TryCard, TypeInv, OutputTypeOK
  <2>2. CASE BeginScan(d)
    BY <2>1, <2>2, ScanBegins
  <2>3. CASE UNCHANGED pc
    BY <2>1, <2>3, OutputKept
  <2> QED BY <1>7, <2>2, <2>3 DEF TryCard
<1>8. CASE NoCard
  BY <1>8, OutputKept DEF NoCard
<1>9. ASSUME NEW c \in Connectors, HandleNewOutput(c) PROVE OutputInv'
  BY <1>9, OutputKept DEF HandleNewOutput, discoverVars
<1>10. ASSUME NEW c \in Connectors, NEW d \in Displays \cup {NoDisplay}, HotPlug(c, d)
       PROVE  OutputInv'
  BY <1>10 DEF HotPlug, OutputInv, selectVars, scanVars, CardConnectors
<1>11. CASE UNCHANGED vars
  <2>1. UNCHANGED <<pc, undisturbed, k, devices, shows, selectVars, CardConnectors>>
    BY <1>11 DEF vars, discoverVars, scanVars, modeVars, selectVars, CardConnectors
  <2>2. CASE pc \in {"scan", "reread"}
    <3>1. PICK n \in Nat : n = Len(CardConnectors)
      BY <2>2, CardType DEF Selects
    <3>2. PICK m \in Nat : m = IF pc = "scan" THEN k - 1 ELSE n
      <4>1. k - 1 \in Nat
        BY DEF TypeInv, OutputTypeOK, DiscoverTypeOK
      <4> QED BY <3>1, <4>1
    <3>3. undisturbed => BestOutputOfFirst(m)
      BY <2>2, <3>1, <3>2 DEF OutputInv
    <3>4. undisturbed => BestOutputOfFirst(m)'
      BY <2>1, <3>3, FoundKept
    <3>5. CASE pc = "scan"
      <4>1. m = k' - 1
        BY <2>1, <3>2, <3>5
      <4> QED BY <2>1, <3>4, <3>5, <4>1 DEF OutputInv
    <3>6. CASE pc = "reread"
      <4>1. m = Len(CardConnectors')
        BY <2>1, <3>1, <3>2, <3>6
      <4> QED BY <2>1, <3>4, <3>6, <4>1 DEF OutputInv
    <3> QED BY <2>2, <3>5, <3>6
  <2>3. CASE pc \notin {"scan", "reread"}
    BY <2>1, <2>3, OutputKept
  <2> QED BY <2>2, <2>3
<1> QED BY <1>1, <1>2, <1>3, <1>4, <1>5, <1>6, <1>7, <1>8, <1>9, <1>10, <1>11 DEF Next, Selecting

\* The connectors are compared correctly throughout.
LEMMA OutputInvariant == Spec => [](TypeInv /\ OutputInv)
BY TypeInvariant, OutputInit, OutputStep, PTL DEF Spec

\* What is read again, if nothing changed meanwhile, is the first of the best.
LEMMA RereadBest == TypeInv /\ OutputInv => BestOutput
<1> SUFFICES ASSUME TypeInv, OutputInv, pc = "reread", undisturbed PROVE BestOutput
  BY DEF BestOutput
<1>1. BestOutputOfFirst(Len(CardConnectors))
  BY DEF OutputInv
<1>2. best_conn \in DOMAIN CardConnectors /\ CardConnectors \in Seq(Connectors)
  BY CardType DEF TypeInv, PlaceInv, Selects
<1>3. DOMAIN CardConnectors = 1 .. Len(CardConnectors) /\ best_conn # 0
  BY <1>2
<1> QED BY <1>1, <1>3 DEF BestOutput, BestOutputOfFirst

\* The output that is taken is the first of the best of its card, in its largest
\* mode, for any connectors and modes.
THEOREM BestConnector == Spec => []BestOutput
BY OutputInvariant, RereadBest, PTL

\* A better type loses only to a mode of five megapixels or more: the types are
\* fifty points apart, and the bonus is a point for every 100,000 pixels.
THEOREM PanelBeforeExternal == Spec => []PanelOrder
<1>1. TypeInv /\ BestOutput => PanelOrder
  <2> DEFINE chosen == CardConnectors[best_conn]
             bonus(c) == Pixels(Modes(c)[Largest(Modes(c))]) \div 100000
  <2> SUFFICES ASSUME TypeInv, BestOutput, pc = "reread", undisturbed,
                      NEW n \in DOMAIN CardConnectors, Modes(CardConnectors[n]) # <<>>,
                      PanelRank[TypeOf[CardConnectors[n]]] < PanelRank[TypeOf[chosen]]
               PROVE  Pixels(Modes(chosen)[best_mode]) >= 5000000
    BY DEF PanelOrder
  <2>1. CardConnectors[n] \in Connectors /\ chosen \in Connectors
    BY CardType, RereadConnector DEF Selects
  <2>2. PICK c \in Connectors, o \in Connectors : c = CardConnectors[n] /\ o = chosen
    BY <2>1
  <2>3. /\ Modes(o) # <<>> /\ best_mode = Largest(Modes(o))
        /\ ConnectorScore(c) <= ConnectorScore(o)
    BY <2>2 DEF BestOutput
  <2>4. TypeScore(TypeOf[c]) >= TypeScore(TypeOf[o]) + 50 /\ TypeScore(TypeOf[o]) \in Nat
    BY <2>2, ConnectorAssumption DEF TypeScore, PanelRank, ConnectorTypes
  <2>5. shows \in [Connectors -> Displays \cup {NoDisplay}]
    BY DEF TypeInv, OutputTypeOK, DiscoverTypeOK
  <2>6. \A x \in {c, o} : Pixels(Modes(x)[Largest(Modes(x))]) \in Nat
    BY <2>2, <2>3, <2>5, ConnectorScoreType
  <2>7. bonus(c) >= 0 /\ bonus(c) \in Int
    BY <2>6
  <2>8. bonus(o) >= 50
    <3>1. TypeScore(TypeOf[c]) + bonus(c) <= TypeScore(TypeOf[o]) + bonus(o)
      BY <2>3 DEF ConnectorScore
    <3>2. bonus(o) \in Int
      BY <2>6
    <3>3. TypeScore(TypeOf[c]) \in Int
      BY ConnectorAssumption DEF TypeScore
    <3> HIDE DEF bonus
    <3> QED BY <2>4, <2>7, <3>1, <3>2, <3>3
  <2>9. \A p \in Nat : p \div 100000 >= 50 => p >= 5000000
    OBVIOUS
  <2> QED BY <2>2, <2>3, <2>6, <2>8, <2>9
<1> QED BY <1>1, OutputInvariant, RereadBest, PTL

-----------------------------------------------------------------------------
(* The size of the windows. *)

\* What discovery makes of a mode.
ReadAs(mode) == [width |-> mode.width, height |-> mode.height,
                 refresh |-> 1000 * WholeHertz(mode.refresh)]

\* The start took its size from the best connector, or there was none.
SizeRead ==
    \/ \A n \in DOMAIN CardConnectors : Modes(CardConnectors[n]) = <<>>
    \/ /\ best_conn \in DOMAIN CardConnectors
       /\ best_mode \in DOMAIN Modes(CardConnectors[best_conn])
       /\ size = ReadAs(Modes(CardConnectors[best_conn])[best_mode])

ModesSet ==
    \A c \in DOMAIN mode_set :
        c \in Outputs /\ Modes(c) # <<>> /\ mode_set[c] = ModeFor(Modes(c))

SizeInv ==
    pc = "announce" /\ undisturbed => ModesSet /\ (caller = "start" => SizeRead)

\* A step that does not come to announce.
LEMMA SizeKept == pc' # "announce" => SizeInv'
BY DEF SizeInv

\* No connector has a mode: the scan found none.
LEMMA NothingFound ==
    ASSUME TypeInv, OutputInv, NoOutput
    PROVE  SizeInv'
<1>1. CASE best_conn # 0
  BY <1>1, SizeKept DEF NoOutput
<1>2. CASE best_conn = 0
  <2>1. /\ pc = "scan" /\ mode_set' = mode_set /\ DOMAIN mode_set = {}
        /\ UNCHANGED <<devices, card, shows, undisturbed>>
    BY DEF NoOutput, TypeInv, PlaceInv, selectVars
  <2>2. PICK m \in Nat : m = Len(CardConnectors)
    BY <2>1, CardType DEF Selects
  <2>3. k \in 1 .. m + 1 /\ k > m
    BY <2>1, <2>2 DEF OutputInv, NoOutput
  <2>4. k - 1 = m
    BY <2>3
  <2>5. CardConnectors \in Seq(Connectors) /\ DOMAIN CardConnectors = 1 .. m
    BY <2>1, <2>2, CardType DEF Selects
  <2>6. ASSUME undisturbed, NEW n \in DOMAIN CardConnectors PROVE Modes(CardConnectors[n]) = <<>>
    <3>1. BestOutputOfFirst(m)
      BY <2>1, <2>4, <2>6 DEF OutputInv
    <3>2. conn_score = -1
      BY <1>2, <3>1 DEF BestOutputOfFirst
    <3>3. ASSUME Modes(CardConnectors[n]) # <<>> PROVE FALSE
      <4>1. ConnectorScore(CardConnectors[n]) <= conn_score
        BY <2>5, <2>6, <3>1, <3>3 DEF BestOutputOfFirst
      <4>2. shows \in [Connectors -> Displays \cup {NoDisplay}]
        BY DEF TypeInv, OutputTypeOK, DiscoverTypeOK
      <4>3. ConnectorScore(CardConnectors[n]) \in Nat
        BY <2>5, <2>6, <3>3, <4>2, ConnectorScoreType
      <4> QED BY <3>2, <4>1, <4>3
    <3> QED BY <3>3
  <2>7. CardConnectors' = CardConnectors
    BY <2>1 DEF CardConnectors
  <2>8. \A n : Modes(CardConnectors[n])' = Modes(CardConnectors[n])
    BY <2>1 DEF Modes, Wired, CardConnectors
  <2>9. undisturbed' => SizeRead'
    BY <2>1, <2>6, <2>7, <2>8 DEF SizeRead
  <2>10. ModesSet'
    BY <2>1 DEF ModesSet
  <2> QED BY <2>9, <2>10 DEF SizeInv
<1> QED BY <1>1, <1>2

\* The size is that of the mode that was read again.
LEMMA SizeTaken ==
    ASSUME TypeInv, Reread
    PROVE  SizeInv'
<1>1. /\ pc = "reread" /\ mode_set' = mode_set /\ DOMAIN mode_set = {}
      /\ UNCHANGED <<devices, card, shows, caller, best_conn, best_mode>>
  BY DEF Reread, TypeInv, PlaceInv, selectVars
<1>2. ModesSet'
  BY <1>1 DEF ModesSet
<1> DEFINE modes == Modes(CardConnectors[best_conn])
<1>3. CASE best_mode <= Len(modes) /\ Return(TRUE, ReadAs(modes[best_mode]))
  <2>1. shows \in [Connectors -> Displays \cup {NoDisplay}]
    BY DEF TypeInv, OutputTypeOK, DiscoverTypeOK
  <2>2. modes \in Seq(Mode)
    BY <1>1, <2>1, RereadConnector, ModesType
  <2>3. best_mode \in DOMAIN modes
    <3>1. best_mode \in Nat \ {0}
      BY DEF TypeInv, OutputTypeOK, PlaceInv
    <3> HIDE DEF modes
    <3> QED BY <1>3, <2>2, <3>1
  <2>4. best_conn \in DOMAIN CardConnectors
    BY <1>1 DEF TypeInv, PlaceInv
  <2>5. caller = "start" => size' = ReadAs(modes[best_mode])
    BY <1>3 DEF Return, ReadAs
  <2>6. modes' = modes /\ CardConnectors' = CardConnectors
    BY <1>1 DEF Modes, Wired, CardConnectors
  <2>7. caller = "start" => SizeRead'
    <3>1. /\ best_conn' \in DOMAIN CardConnectors'
          /\ best_mode' \in DOMAIN (modes')
      BY <1>1, <2>3, <2>4, <2>6
    <3>2. caller = "start" => size' = ReadAs(modes[best_mode])'
      BY <1>1, <2>5, <2>6 DEF ReadAs
    <3> QED BY <3>1, <3>2 DEF SizeRead
  <2> QED BY <1>1, <1>2, <2>7 DEF SizeInv
<1>4. CASE undisturbed' = FALSE
  BY <1>4 DEF SizeInv
<1> QED BY <1>3, <1>4 DEF Reread, ReadAs

\* Where the size came from stays true while nothing it came from changes.
LEMMA SizeReadKept ==
    ASSUME SizeRead, UNCHANGED <<devices, shows, card, best_conn, best_mode, size>>
    PROVE  SizeRead'
<1>1. CardConnectors' = CardConnectors
  BY DEF CardConnectors
<1>2. \A n : Modes(CardConnectors[n])' = Modes(CardConnectors[n])
  BY DEF Modes, Wired, CardConnectors
<1>3. Modes(CardConnectors[best_conn])' = Modes(CardConnectors[best_conn])
  BY DEF Modes, Wired, CardConnectors
<1>4. ReadAs(Modes(CardConnectors[best_conn])[best_mode])'
         = ReadAs(Modes(CardConnectors[best_conn])[best_mode])
  BY DEF ReadAs, Modes, Wired, CardConnectors
<1> QED BY <1>1, <1>2, <1>3, <1>4 DEF SizeRead

\* One more output, in the mode handle_new_output finds for it, unless it is refused.
LEMMA OutputAdded ==
    ASSUME SizeInv, NEW c \in Connectors, HandleNewOutput(c)
    PROVE  SizeInv'
<1> SUFFICES ASSUME undisturbed' PROVE SizeInv'
  BY DEF SizeInv
<1>1. /\ pc = "announce" /\ c \in Outputs /\ Modes(c) # <<>>
      /\ UNCHANGED <<devices, shows, undisturbed, card, caller, best_conn, best_mode, size>>
  BY DEF HandleNewOutput, selectVars
<1>2. mode_set' = [o \in DOMAIN mode_set \cup {c} |->
                      IF o = c THEN ModeFor(Modes(c)) ELSE mode_set[o]]
  BY DEF HandleNewOutput, SetMode
<1>3. CardConnectors' = CardConnectors /\ Outputs' = Outputs
  BY <1>1 DEF CardConnectors, Outputs
<1>4. \A o : Modes(o)' = Modes(o) /\ ModeFor(Modes(o))' = ModeFor(Modes(o))
  BY <1>1 DEF Modes, Wired, ModeFor, FirstMatch, FirstPreferred, Matches
<1>5. ASSUME ModesSet PROVE ModesSet'
  <2> SUFFICES ASSUME NEW o \in DOMAIN mode_set'
               PROVE  o \in Outputs' /\ Modes(o)' # <<>> /\ mode_set'[o] = ModeFor(Modes(o))'
    BY DEF ModesSet
  <2>1. CASE o = c
    BY <1>1, <1>2, <1>3, <1>4, <2>1
  <2>2. CASE o # c
    <3>1. o \in DOMAIN mode_set /\ mode_set'[o] = mode_set[o]
      BY <1>2, <2>2
    <3> QED BY <1>3, <1>4, <1>5, <3>1 DEF ModesSet
  <2> QED BY <2>1, <2>2
<1>6. ASSUME SizeRead PROVE SizeRead'
  BY <1>1, <1>6, SizeReadKept
<1> QED BY <1>1, <1>5, <1>6 DEF SizeInv

\* From the scan to the last output, step by step.
LEMMA SizeStep == TypeInv /\ OutputInv /\ SizeInv /\ [Next]_vars => SizeInv'
<1> SUFFICES ASSUME TypeInv, OutputInv, SizeInv, [Next]_vars PROVE SizeInv'
  OBVIOUS
<1>1. CASE Discovering
  BY <1>1, SizeKept
  DEF Discovering, DiscoverStep, Enumerate, SkipDevice, OpenDevice, Evaluated, ReadConnector,
      NoConnector, DevicesDone, ScoreCandidate, Selected, OpenSelected
<1>2. CASE Retry \/ SelectOutput \/ ScanConnector \/ NoCard
  BY <1>2, SizeKept DEF Retry, SelectOutput, BeginScan, ScanConnector, NoCard
<1>3. CASE NoOutput
  BY <1>3, NothingFound
<1>4. CASE Reread
  BY <1>4, SizeTaken
<1>5. ASSUME NEW d \in untried, TryCard(d) PROVE SizeInv'
  BY <1>5, SizeKept DEF TryCard, BeginScan
<1>6. ASSUME NEW c \in Connectors, HandleNewOutput(c) PROVE SizeInv'
  BY <1>6, OutputAdded
<1>7. ASSUME NEW c \in Connectors, NEW d \in Displays \cup {NoDisplay}, HotPlug(c, d)
      PROVE  SizeInv'
  BY <1>7 DEF HotPlug, SizeInv
<1>8. CASE UNCHANGED vars
  <2>1. /\ UNCHANGED <<pc, devices, shows, undisturbed, card, caller, best_conn, best_mode>>
        /\ UNCHANGED <<size, mode_set>>
    BY <1>8 DEF vars, discoverVars, modeVars, selectVars, resultVars
  <2>2. ModesSet => ModesSet'
    <3>1. \A o : Modes(o)' = Modes(o) /\ ModeFor(Modes(o))' = ModeFor(Modes(o))
      BY <2>1 DEF Modes, Wired, ModeFor, FirstMatch, FirstPreferred, Matches
    <3>2. Outputs' = Outputs
      BY <2>1 DEF Outputs, CardConnectors
    <3> QED BY <2>1, <3>1, <3>2 DEF ModesSet
  <2>3. SizeRead => SizeRead'
    BY <2>1, SizeReadKept
  <2> QED BY <2>1, <2>2, <2>3 DEF SizeInv
<1> QED BY <1>1, <1>2, <1>3, <1>4, <1>5, <1>6, <1>7, <1>8 DEF Next, Selecting

\* At a whole number of Hertz the rounded rate is the rate.
LEMMA WholeRate ==
    ASSUME NEW r \in Nat, r > 0, r % 1000 = 0
    PROVE  /\ 1000 * WholeHertz(r) > 0
           /\ r \div 1000 = (1000 * WholeHertz(r)) \div 1000
<1>1. PICK h \in Nat : h = r \div 1000
  OBVIOUS
<1>2. r = 1000 * h /\ h > 0
  BY <1>1
<1>3. (r + 500) \div 1000 = h
  BY <1>2
<1>4. WholeHertz(r) = h
  BY <1>3 DEF WholeHertz
<1>5. (1000 * h) \div 1000 = h /\ 1000 * h > 0
  BY <1>2
<1> QED BY <1>1, <1>4, <1>5

\* A mode that was read as the size is found again by its size and rate.
LEMMA ReadMatches ==
    ASSUME NEW mode \in Mode, mode.refresh > 0, mode.refresh % 1000 = 0, size = ReadAs(mode)
    PROVE  Matches(mode)
<1>1. /\ mode.width \in Nat \ {0} /\ mode.height \in Nat \ {0} /\ mode.refresh \in Nat
  BY DEF Mode
<1>2. /\ size.width = mode.width /\ size.height = mode.height
      /\ size.refresh = 1000 * WholeHertz(mode.refresh)
  BY DEF ReadAs
<1>3. /\ 1000 * WholeHertz(mode.refresh) > 0
      /\ mode.refresh \div 1000 = (1000 * WholeHertz(mode.refresh)) \div 1000
  BY <1>1, WholeRate
<1> QED BY <1>1, <1>2, <1>3 DEF Matches

\* The mode handle_new_output finds has the size that was selected.
LEMMA MatchFound ==
    ASSUME NEW modes \in Seq(Mode), NEW b \in DOMAIN modes, Matches(modes[b])
    PROVE  ModeFor(modes) # NoMode /\ Configured = Dimensions(ModeFor(modes))
<1> DEFINE ns == {n \in DOMAIN modes : Matches(modes[n])}
<1>1. ns \in SUBSET (DOMAIN modes) /\ ns # {}
  OBVIOUS
<1> HIDE DEF ns
<1>2. PICK n \in ns : FirstOf(modes, ns) = modes[n]
  BY <1>1, FirstExists
<1>3. n \in DOMAIN modes /\ Matches(modes[n]) /\ FirstMatch(modes) = modes[n]
  BY <1>2 DEF ns, FirstMatch
<1>4. modes[n] # NoMode
  BY <1>3, ModeAssumption
<1>5. ModeFor(modes) = modes[n]
  BY <1>3, <1>4 DEF ModeFor
<1> QED BY <1>3, <1>4, <1>5 DEF Matches, Configured, Dimensions

\* For any displays and modes: with one output, found by discovery and left
\* alone, at whole refresh rates the output runs the mode that was selected and
\* the windows have its size (compositor.c 580-622, 731-738).
THEOREM WindowsSized == Spec => []SizedAtWholeHertz
<1>1. Init => SizeInv
  BY DEF Init, DiscoverInit, SizeInv
<1>2. TypeInv /\ SizeInv => SizedAtWholeHertz
  <2> SUFFICES ASSUME TypeInv, SizeInv, NEW c \in DOMAIN mode_set,
                      pc = "announce", caller = "start", undisturbed, OneOutput(c),
                      \A n \in DOMAIN Modes(c) :
                         Modes(c)[n].refresh > 0 /\ Modes(c)[n].refresh % 1000 = 0
               PROVE  mode_set[c] # NoMode /\ Configured = Dimensions(mode_set[c])
    BY DEF SizedAtWholeHertz
  <2>1. c \in Outputs /\ Modes(c) # <<>> /\ mode_set[c] = ModeFor(Modes(c)) /\ SizeRead
    BY DEF SizeInv, ModesSet
  <2>2. /\ CardConnectors \in Seq(Connectors) /\ c \in Connectors
        /\ \E n \in DOMAIN CardConnectors : c = CardConnectors[n]
    BY <2>1, CardType DEF Outputs
  <2>3. /\ best_conn \in DOMAIN CardConnectors
        /\ best_mode \in DOMAIN Modes(CardConnectors[best_conn])
        /\ size = ReadAs(Modes(CardConnectors[best_conn])[best_mode])
    BY <2>1, <2>2 DEF SizeRead
  <2>4. CardConnectors[best_conn] = c
    <3>1. CardConnectors[best_conn] \in Outputs
      BY <2>3 DEF Outputs
    <3>2. Wired(CardConnectors[best_conn])
      BY <2>3 DEF Modes
    <3> QED BY <3>1, <3>2 DEF OneOutput
  <2>5. shows \in [Connectors -> Displays \cup {NoDisplay}]
    BY DEF TypeInv, OutputTypeOK, DiscoverTypeOK
  <2>6. Modes(c) \in Seq(Mode)
    BY <2>2, <2>5, ModesType
  <2>7. best_mode \in DOMAIN Modes(c) /\ size = ReadAs(Modes(c)[best_mode])
    BY <2>3, <2>4
  <2>8. Matches(Modes(c)[best_mode])
    BY <2>6, <2>7, ReadMatches
  <2> QED BY <2>1, <2>6, <2>7, <2>8, MatchFound
<1> QED BY <1>1, <1>2, OutputInvariant, SizeStep, PTL DEF Spec

-----------------------------------------------------------------------------
(* The end of the selection. *)

\* No loop runs over the end of its list.
ItemInv ==
    /\ pc = "device" => i <= Len(devices) + 1
    /\ pc = "connector" => k <= Len(devices[i].connectors) + 1
    /\ pc = "score" => i <= Len(cands) + 1
    /\ pc = "scan" => k <= Len(CardConnectors) + 1

\* No loop has begun.
LEMMA ItemInit == Init => ItemInv
BY DEF Init, DiscoverInit, ItemInv

\* Every loop takes one item at a time, and only one that is there.
LEMMA ItemStep == TypeInv /\ ItemInv /\ [Next]_vars => ItemInv'
<1> SUFFICES ASSUME TypeInv, ItemInv, [Next]_vars PROVE ItemInv'
  OBVIOUS
<1>1. /\ devices \in Seq(Device) /\ cands \in Seq(Candidate)
      /\ i \in Nat \ {0} /\ k \in Nat \ {0}
      /\ Len(devices) \in Nat /\ Len(cands) \in Nat
  BY DEF TypeInv, OutputTypeOK, DiscoverTypeOK
<1>2. ASSUME NEW d \in DOMAIN devices PROVE Len(devices[d].connectors) \in Nat
  <2>1. devices[d] \in Device
    BY <1>1
  <2> QED BY <2>1 DEF Device
<1>3. CASE Enumerate
  <2>1. Len(devices') \in Nat
    BY <1>3, MachineAssumption DEF Enumerate
  <2> QED BY <1>3, <2>1 DEF Enumerate, ItemInv
<1>4. CASE SkipDevice
  BY <1>1, <1>4 DEF SkipDevice, ItemInv
<1>5. ASSUME NEW connected, NEW edp, Evaluated(connected, edp),
             UNCHANGED devices, i \in DOMAIN devices
      PROVE  ItemInv'
  BY <1>1, <1>5 DEF Evaluated, ItemInv
<1>6. CASE OpenDevice
  <2>1. i \in DOMAIN devices /\ UNCHANGED devices
    BY <1>1, <1>6 DEF OpenDevice
  <2>2. CASE pc' = "connector" /\ k' = 1 /\ UNCHANGED i
    BY <1>2, <2>1, <2>2 DEF ItemInv
  <2> QED BY <1>5, <1>6, <2>1, <2>2 DEF OpenDevice
<1>7. CASE ReadConnector
  <2>1. i \in DOMAIN devices /\ UNCHANGED devices /\ pc = "connector"
        /\ k <= Len(devices[i].connectors)
    BY <1>7 DEF ReadConnector, TypeInv, PlaceInv
  <2>2. CASE k' = k + 1 /\ UNCHANGED <<pc, i>>
    BY <1>1, <1>2, <2>1, <2>2 DEF ItemInv
  <2>3. CASE Evaluated(TRUE, BuiltIn(devices[i].connectors[k]))
    BY <1>5, <2>1, <2>3
  <2> QED BY <1>7, <2>2, <2>3 DEF ReadConnector
<1>8. CASE NoConnector
  <2>1. i \in DOMAIN devices /\ UNCHANGED devices /\ Evaluated(FALSE, FALSE)
    BY <1>8 DEF NoConnector, TypeInv, PlaceInv
  <2> QED BY <1>5, <2>1
<1>9. CASE DevicesDone
  BY <1>1, <1>9 DEF DevicesDone, ItemInv
<1>10. CASE ScoreCandidate
  BY <1>1, <1>10 DEF ScoreCandidate, ItemInv
<1>11. CASE Selected \/ OpenSelected \/ Retry \/ Reread \/ NoCard \/ NoOutput
  BY <1>11 DEF Selected, OpenSelected, Retry, Reread, NoCard, NoOutput, Return, ItemInv
<1>12. ASSUME NEW d \in DOMAIN devices, BeginScan(d), UNCHANGED devices PROVE ItemInv'
  BY <1>2, <1>12 DEF BeginScan, ItemInv, CardConnectors
<1>13. CASE SelectOutput
  <2>1. gpu \in DOMAIN devices
    BY <1>1, <1>13 DEF SelectOutput, TypeInv, OutputTypeOK, DiscoverTypeOK, PlaceInv
  <2> QED BY <1>12, <1>13, <2>1 DEF SelectOutput
<1>14. CASE ScanConnector
  <2>1. /\ pc = "scan" /\ k <= Len(CardConnectors) /\ k' = k + 1
        /\ UNCHANGED <<pc, devices, card>> /\ card \in DOMAIN devices
    BY <1>14 DEF ScanConnector, TypeInv, PlaceInv, Selects
  <2> QED BY <1>1, <1>2, <2>1 DEF ItemInv, CardConnectors
<1>15. ASSUME NEW d \in untried, TryCard(d) PROVE ItemInv'
  <2>1. d \in DOMAIN devices /\ UNCHANGED devices
    BY <1>15 DEF TryCard, TypeInv, OutputTypeOK
  <2>2. CASE UNCHANGED <<pc, k>>
    BY <1>15, <2>2 DEF TryCard, ItemInv
  <2> QED BY <1>12, <1>15, <2>1, <2>2 DEF TryCard
<1>16. ASSUME NEW c \in Connectors, HandleNewOutput(c) PROVE ItemInv'
  BY <1>16 DEF HandleNewOutput, ItemInv, discoverVars
<1>17. ASSUME NEW c \in Connectors, NEW d \in Displays \cup {NoDisplay}, HotPlug(c, d)
       PROVE  ItemInv'
  BY <1>17 DEF HotPlug, ItemInv, CardConnectors, scanVars, candVars, selectVars
<1>18. CASE UNCHANGED vars
  BY <1>18 DEF ItemInv, CardConnectors, vars, discoverVars, scanVars, candVars, modeVars,
               selectVars
<1> QED BY <1>3, <1>4, <1>6, <1>7, <1>8, <1>9, <1>10, <1>11, <1>13, <1>14, <1>15, <1>16, <1>17,
           <1>18 DEF Next, Selecting, Discovering, DiscoverStep

\* What remains is a tuple of natural numbers.
LEMMA RemainingType ==
    ASSUME TypeInv, ItemInv
    PROVE  /\ IsFiniteSet(untried)
           /\ Cardinality(untried) \in Nat
           /\ CallsLeft \in Nat /\ StagesLeft \in Nat
           /\ DevicesLeft \in Nat /\ ConnectorsLeft \in Nat
           /\ Remaining \in [1 .. 5 -> Nat]
<1>1. /\ devices \in Seq(Device) /\ cands \in Seq(Candidate)
      /\ i \in Nat \ {0} /\ k \in Nat \ {0}
      /\ Len(devices) \in Nat /\ Len(cands) \in Nat
      /\ untried \in SUBSET (1 .. Len(devices))
  BY DEF TypeInv, OutputTypeOK, DiscoverTypeOK
<1>2. IsFiniteSet(untried)
  <2>1. IsFiniteSet(1 .. Len(devices))
    BY <1>1, FS_Interval
  <2> QED BY <1>1, <2>1, FS_Subset
<1>3. Cardinality(untried) \in Nat
  BY <1>2, FS_CardinalityType
<1>4. CallsLeft \in Nat
  BY ModeAssumption DEF CallsLeft, TypeInv, OutputTypeOK
<1>5. StagesLeft \in Nat
  BY DEF StagesLeft
<1>6. DevicesLeft \in Nat
  <2>1. pc = "connector" => i <= Len(devices)
    BY <1>1 DEF TypeInv, PlaceInv
  <2> QED BY <1>1, <2>1 DEF DevicesLeft, ItemInv
<1>7. ConnectorsLeft \in Nat
  <2>1. ASSUME NEW d \in DOMAIN devices PROVE Len(devices[d].connectors) \in Nat
    <3>1. devices[d] \in Device
      BY <1>1
    <3> QED BY <3>1 DEF Device
  <2>2. /\ pc = "connector" => i \in DOMAIN devices
        /\ pc = "scan" => card \in DOMAIN devices
    BY DEF TypeInv, PlaceInv, Selects
  <2>3. CASE pc = "connector"
    BY <1>1, <2>1, <2>2, <2>3 DEF ConnectorsLeft, ItemInv
  <2>4. CASE pc = "scan"
    BY <1>1, <2>1, <2>2, <2>4 DEF ConnectorsLeft, ItemInv, CardConnectors
  <2> QED BY <2>3, <2>4 DEF ConnectorsLeft
<1>8. Remaining \in [1 .. 5 -> Nat]
  BY <1>3, <1>4, <1>5, <1>6, <1>7 DEF Remaining
<1> QED BY <1>2, <1>3, <1>4, <1>5, <1>6, <1>7, <1>8

\* The order of the tuples is that of dictionaries.
LEMMA Dictionary ==
    ASSUME NEW a1, NEW a2, NEW a3, NEW a4, NEW a5,
           NEW b1, NEW b2, NEW b3, NEW b4, NEW b5,
           \/ a1 < b1
           \/ a1 = b1 /\ a2 < b2
           \/ a1 = b1 /\ a2 = b2 /\ a3 < b3
           \/ a1 = b1 /\ a2 = b2 /\ a3 = b3 /\ a4 < b4
           \/ a1 = b1 /\ a2 = b2 /\ a3 = b3 /\ a4 = b4 /\ a5 < b5
    PROVE  Below(<<a1, a2, a3, a4, a5>>, <<b1, b2, b3, b4, b5>>)
<1> DEFINE a == <<a1, a2, a3, a4, a5>>
           b == <<b1, b2, b3, b4, b5>>
<1>1. /\ a[1] = a1 /\ a[2] = a2 /\ a[3] = a3 /\ a[4] = a4 /\ a[5] = a5
      /\ b[1] = b1 /\ b[2] = b2 /\ b[3] = b3 /\ b[4] = b4 /\ b[5] = b5
      /\ DOMAIN b = 1 .. 5
  OBVIOUS
<1> HIDE DEF a, b
<1>2. \E n \in 1 .. 5 : a[n] < b[n] /\ \A m \in 1 .. n - 1 : a[m] = b[m]
  <2>1. CASE a1 < b1
    BY <1>1, <2>1
  <2>2. CASE a1 = b1 /\ a2 < b2
    BY <1>1, <2>2
  <2>3. CASE a1 = b1 /\ a2 = b2 /\ a3 < b3
    BY <1>1, <2>3
  <2>4. CASE a1 = b1 /\ a2 = b2 /\ a3 = b3 /\ a4 < b4
    BY <1>1, <2>4
  <2>5. CASE a1 = b1 /\ a2 = b2 /\ a3 = b3 /\ a4 = b4 /\ a5 < b5
    BY <1>1, <2>5
  <2> QED BY <2>1, <2>2, <2>3, <2>4, <2>5
<1> QED BY <1>1, <1>2 DEF Below, a, b

\* What a step has to do to come nearer to the end.
LEMMA Nearer ==
    ASSUME \/ CallsLeft' < CallsLeft
           \/ /\ UNCHANGED CallsLeft
              /\ \/ Cardinality(untried') < Cardinality(untried)
                 \/ UNCHANGED untried /\ StagesLeft' < StagesLeft
                 \/ UNCHANGED <<untried, StagesLeft>> /\ DevicesLeft' < DevicesLeft
                 \/ /\ UNCHANGED <<untried, StagesLeft, DevicesLeft>>
                    /\ ConnectorsLeft' < ConnectorsLeft
    PROVE  Below(Remaining', Remaining)
<1>1. PICK a1, a2, a3, a4, a5 :
        /\ a1 = CallsLeft' /\ a2 = Cardinality(untried') /\ a3 = StagesLeft'
        /\ a4 = DevicesLeft' /\ a5 = ConnectorsLeft'
  OBVIOUS
<1>2. PICK b1, b2, b3, b4, b5 :
        /\ b1 = CallsLeft /\ b2 = Cardinality(untried) /\ b3 = StagesLeft
        /\ b4 = DevicesLeft /\ b5 = ConnectorsLeft
  OBVIOUS
<1>3. \/ a1 < b1
      \/ a1 = b1 /\ a2 < b2
      \/ a1 = b1 /\ a2 = b2 /\ a3 < b3
      \/ a1 = b1 /\ a2 = b2 /\ a3 = b3 /\ a4 < b4
      \/ a1 = b1 /\ a2 = b2 /\ a3 = b3 /\ a4 = b4 /\ a5 < b5
  BY <1>1, <1>2
<1>4. Below(<<a1, a2, a3, a4, a5>>, <<b1, b2, b3, b4, b5>>)
  BY <1>3, Dictionary
<1> QED BY <1>1, <1>2, <1>4 DEF Remaining

\* A later stage of the same poll.
LEMMA LaterStage ==
    ASSUME UNCHANGED <<caller, attempts, untried>>, StagesLeft' < StagesLeft
    PROVE  Below(Remaining', Remaining)
<1>1. UNCHANGED CallsLeft
  BY DEF CallsLeft
<1> QED BY <1>1, Nearer

\* The next item of the same stage.
LEMMA NextItem ==
    ASSUME UNCHANGED <<caller, attempts, untried, StagesLeft>>,
           \/ DevicesLeft' < DevicesLeft
           \/ UNCHANGED DevicesLeft /\ ConnectorsLeft' < ConnectorsLeft
    PROVE  Below(Remaining', Remaining)
<1>1. UNCHANGED CallsLeft
  BY DEF CallsLeft
<1> QED BY <1>1, Nearer

\* One step of playos_gpu_discover.
LEMMA DiscoveryNearer ==
    ASSUME TypeInv, Discovering
    PROVE  Below(Remaining', Remaining)
<1>1. /\ devices \in Seq(Device) /\ cands \in Seq(Candidate)
      /\ i \in Nat \ {0} /\ k \in Nat \ {0}
      /\ Len(devices) \in Nat /\ Len(cands) \in Nat
      /\ UNCHANGED <<caller, attempts, untried>>
  BY DEF TypeInv, OutputTypeOK, DiscoverTypeOK, Discovering, modeVars
<1>2. CASE Enumerate
  BY <1>1, <1>2, LaterStage DEF Enumerate, StagesLeft
<1>3. CASE SkipDevice
  BY <1>1, <1>3, NextItem DEF SkipDevice, StagesLeft, DevicesLeft
<1>4. CASE OpenDevice
  <2>1. pc = "device" /\ UNCHANGED devices
    BY <1>4 DEF OpenDevice
  <2>2. CASE pc' = "connector" /\ UNCHANGED i
    <3>1. UNCHANGED StagesLeft /\ DevicesLeft' < DevicesLeft
      BY <1>1, <2>1, <2>2 DEF StagesLeft, DevicesLeft
    <3> QED BY <1>1, <3>1, NextItem
  <2>3. CASE pc' = "device" /\ i' = i + 1
    <3>1. UNCHANGED StagesLeft /\ DevicesLeft' < DevicesLeft
      BY <1>1, <2>1, <2>3 DEF StagesLeft, DevicesLeft
    <3> QED BY <1>1, <3>1, NextItem
  <2> QED BY <1>4, <2>2, <2>3 DEF OpenDevice, Evaluated
<1>5. CASE ReadConnector \/ NoConnector
  <2>1. pc = "connector" /\ UNCHANGED devices
    BY <1>5 DEF ReadConnector, NoConnector
  <2>2. CASE pc' = "connector" /\ UNCHANGED i /\ k' = k + 1
    <3>1. UNCHANGED <<StagesLeft, DevicesLeft>>
      BY <2>1, <2>2 DEF StagesLeft, DevicesLeft
    <3>2. ConnectorsLeft' < ConnectorsLeft
      <4>1. i \in DOMAIN devices
        BY <2>1 DEF TypeInv, PlaceInv
      <4>2. Len(devices[i].connectors) \in Nat
        BY <4>1, ProbedDevice
      <4> QED BY <1>1, <2>1, <2>2, <4>2 DEF ConnectorsLeft
    <3> QED BY <1>1, <3>1, <3>2, NextItem
  <2>3. CASE pc' = "device" /\ i' = i + 1
    <3>1. UNCHANGED StagesLeft /\ DevicesLeft' < DevicesLeft
      BY <1>1, <2>1, <2>3 DEF StagesLeft, DevicesLeft
    <3> QED BY <1>1, <3>1, NextItem
  <2> QED BY <1>5, <2>1, <2>2, <2>3 DEF ReadConnector, NoConnector, Evaluated
<1>6. CASE DevicesDone \/ Selected \/ OpenSelected
  BY <1>1, <1>6, LaterStage DEF DevicesDone, Selected, OpenSelected, StagesLeft
<1>7. CASE ScoreCandidate
  BY <1>1, <1>7, NextItem DEF ScoreCandidate, StagesLeft, DevicesLeft
<1> QED BY <1>2, <1>3, <1>4, <1>5, <1>6, <1>7 DEF Discovering, DiscoverStep

\* One step of the selection, whoever asked for it.
LEMMA SelectionNearer ==
    ASSUME TypeInv, ItemInv, Selecting
    PROVE  Below(Remaining', Remaining)
<1>1. /\ attempts \in 0 .. MaxAttempts /\ MaxAttempts \in Nat
      /\ caller \in {"start", "probe", "cards"} /\ k \in Nat
  BY ModeAssumption DEF TypeInv, OutputTypeOK, DiscoverTypeOK
<1>2. CASE Discovering
  BY <1>2, DiscoveryNearer
<1>3. CASE Retry
  <2>1. CallsLeft' < CallsLeft
    BY <1>1, <1>3 DEF Retry, CallsLeft, AnotherPoll, TypeInv, PlaceInv, DiscoverStages
  <2> QED BY <2>1, Nearer
<1>4. CASE SelectOutput
  BY <1>4, LaterStage DEF SelectOutput, BeginScan, StagesLeft
<1>5. CASE ScanConnector
  <2>1. /\ pc = "scan" /\ k' = k + 1 /\ card \in DOMAIN devices
        /\ UNCHANGED <<pc, devices, card, caller, attempts, untried>>
    BY <1>5 DEF ScanConnector, TypeInv, PlaceInv, Selects
  <2>2. CardConnectors \in Seq(Connectors)
    BY <2>1, CardType DEF Selects
  <2>3. UNCHANGED <<StagesLeft, DevicesLeft>> /\ ConnectorsLeft' < ConnectorsLeft
    BY <1>1, <2>1, <2>2 DEF StagesLeft, DevicesLeft, ConnectorsLeft, CardConnectors
  <2> QED BY <2>1, <2>3, NextItem
<1>6. CASE NoOutput \/ Reread \/ NoCard
  <2>1. UNCHANGED <<caller, attempts, untried>>
    BY <1>6 DEF NoOutput, Reread, NoCard, modeVars
  <2>2. StagesLeft' < StagesLeft
    BY <1>6 DEF NoOutput, Reread, NoCard, Return, StagesLeft
  <2> QED BY <2>1, <2>2, LaterStage
<1>7. ASSUME NEW d \in untried, TryCard(d) PROVE Below(Remaining', Remaining)
  <2>1. untried' = untried \ {d} /\ UNCHANGED <<caller, attempts>>
    BY <1>7 DEF TryCard, Rest
  <2>2. Cardinality(untried') = Cardinality(untried) - 1 /\ Cardinality(untried) \in Nat
    BY <2>1, RemainingType, FS_RemoveElement
  <2>3. UNCHANGED CallsLeft /\ Cardinality(untried') < Cardinality(untried)
    BY <2>1, <2>2 DEF CallsLeft
  <2> QED BY <2>3, Nearer
<1> QED BY <1>2, <1>3, <1>4, <1>5, <1>6, <1>7 DEF Selecting

\* Whatever the machine, the displays and the plugging, the selection takes
\* finitely many steps (compositor.c 183-214 and 242-252).
THEOREM SelectionFinite == Spec => SelectionShrinks
<1>1. Spec => [](TypeInv /\ ItemInv)
  BY TypeInvariant, ItemInit, ItemStep, PTL DEF Spec
<1>2. ASSUME TypeInv, ItemInv, [Next]_vars
      PROVE  [IF Selecting
              THEN Remaining \in [1 .. 5 -> Nat] /\ Below(Remaining', Remaining)
              ELSE Remaining' = Remaining]_vars
  <2>1. CASE Selecting
    <3>1. Remaining \in [1 .. 5 -> Nat]
      BY <1>2, RemainingType
    <3>2. Below(Remaining', Remaining)
      BY <1>2, <2>1, SelectionNearer
    <3> QED BY <2>1, <3>1, <3>2
  <2>2. ASSUME ~ Selecting, NEW c \in Connectors, HandleNewOutput(c)
        PROVE  Remaining' = Remaining
    BY <2>2 DEF HandleNewOutput, Remaining, CallsLeft, StagesLeft, DevicesLeft, ConnectorsLeft,
                CardConnectors, discoverVars, scanVars, candVars, selectVars
  <2>3. ASSUME ~ Selecting, NEW c \in Connectors, NEW d \in Displays \cup {NoDisplay}, HotPlug(c, d)
        PROVE  Remaining' = Remaining
    BY <2>3 DEF HotPlug, Remaining, CallsLeft, StagesLeft, DevicesLeft, ConnectorsLeft,
                CardConnectors, scanVars, candVars, selectVars
  <2> QED BY <1>2, <2>1, <2>2, <2>3 DEF Next
<1> QED BY <1>1, <1>2, PTL DEF Spec, SelectionShrinks

-----------------------------------------------------------------------------
(* The start, of which this is a part. *)

\* Where the start is.
LEMMA StageKept ==
    ASSUME UNCHANGED <<attempts, StartStage>>
    PROVE  [Start!Discover \/ Start!ProbeCard]_<<StartStage, attempts>>
OBVIOUS

\* Every step of the selection is a step of the start, or one inside of a poll.
LEMMA StartStep ==
    ASSUME TypeInv, [Next]_vars
    PROVE  [Start!Discover \/ Start!ProbeCard]_<<StartStage, attempts>>
<1> DEFINE Step == [Start!Discover \/ Start!ProbeCard]_<<StartStage, attempts>>
<1>1. /\ attempts \in 0 .. MaxAttempts /\ MaxAttempts \in Nat
      /\ caller \in {"start", "probe", "cards"}
      /\ pc \in Stages
  BY ModeAssumption DEF TypeInv, OutputTypeOK
<1>2. CASE Discovering
  <2>1. /\ pc \in DiscoverStages \ {"found", "failed"} /\ pc' \in DiscoverStages
        /\ UNCHANGED <<caller, attempts>>
    BY <1>2 DEF Discovering, DiscoverStep, DiscoverStages, Enumerate, SkipDevice, OpenDevice,
                ReadConnector, NoConnector, DevicesDone, ScoreCandidate, Selected, OpenSelected,
                Evaluated, modeVars
  <2>2. CASE pc' # "found" \/ caller # "start"
    <3>1. UNCHANGED StartStage
      BY <1>1, <2>1, <2>2 DEF StartStage, DiscoverStages
    <3> QED BY <2>1, <3>1, StageKept
  <2>3. CASE pc' = "found" /\ caller = "start"
    <3>1. StartStage = "discover" /\ StartStage' = "gpu"
      BY <2>1, <2>3 DEF StartStage, DiscoverStages
    <3>2. Start!Discover
      BY <2>1, <3>1 DEF Start!Discover, Start!renderVars, Start!listVars
    <3> QED BY <3>2
  <2> QED BY <2>2, <2>3
<1>3. CASE Retry
  <2>1. CASE caller = "start"
    <3>1. StartStage = "discover" /\ attempts' = attempts + 1
      BY <1>3, <2>1 DEF Retry, StartStage, DiscoverStages
    <3>2. StartStage' = IF attempts' < MaxAttempts THEN "discover" ELSE "probe"
      BY <1>3, <2>1 DEF Retry, AnotherPoll, StartStage, DiscoverStages
    <3>3. Start!Discover
      BY <3>1, <3>2 DEF Start!Discover, Start!renderVars, Start!listVars
    <3> QED BY <3>3
  <2>2. CASE caller = "probe"
    <3>1. UNCHANGED <<attempts, StartStage>>
      BY <1>3, <2>2 DEF Retry, StartStage, DiscoverStages
    <3> QED BY <3>1, StageKept
  <2> QED BY <1>3, <2>1, <2>2 DEF Retry
<1>4. ASSUME UNCHANGED <<caller, attempts>>,
             pc \in {"found", "scan", "reread"}, pc' \in {"scan", "reread", "announce", "cards"},
             pc' = "cards" => caller # "start"
      PROVE  Step
  <2>1. CASE caller = "start"
    <3>1. UNCHANGED StartStage
      BY <1>4, <2>1 DEF StartStage, DiscoverStages
    <3> QED BY <1>4, <3>1, StageKept
  <2>2. CASE caller # "start" /\ pc' # "announce"
    <3>1. UNCHANGED StartStage
      BY <1>4, <2>2 DEF StartStage, DiscoverStages
    <3> QED BY <1>4, <3>1, StageKept
  <2>3. CASE caller # "start" /\ pc' = "announce"
    <3>1. StartStage = "probe" /\ StartStage' = "card"
      BY <1>4, <2>3 DEF StartStage, DiscoverStages
    <3>2. Start!ProbeCard
      BY <1>4, <3>1 DEF Start!ProbeCard, Start!renderVars, Start!listVars
    <3> QED BY <3>2
  <2> QED BY <2>1, <2>2, <2>3
<1>5. CASE SelectOutput \/ ScanConnector \/ NoOutput \/ Reread
  <2>1. /\ UNCHANGED <<caller, attempts>>
        /\ pc \in {"found", "scan", "reread"}
        /\ pc' \in {"scan", "reread", "announce", "cards"}
        /\ pc' = "cards" => caller # "start"
    BY <1>5 DEF SelectOutput, BeginScan, ScanConnector, NoOutput, Reread, Return
  <2> QED BY <1>4, <2>1
<1>6. ASSUME NEW d \in untried, TryCard(d) PROVE Step
  <2>1. /\ pc = "cards" /\ pc' \in {"cards", "scan"} /\ caller = "cards"
        /\ UNCHANGED <<caller, attempts>>
    BY <1>6 DEF TryCard, BeginScan, TypeInv, PlaceInv
  <2>2. UNCHANGED StartStage
    BY <2>1 DEF StartStage, DiscoverStages
  <2> QED BY <2>1, <2>2, StageKept
<1>7. CASE NoCard
  <2>1. StartStage = "probe" /\ StartStage' = "headless_fallback" /\ UNCHANGED attempts
    BY <1>7 DEF NoCard, StartStage, DiscoverStages, modeVars
  <2>2. Start!ProbeCard
    BY <2>1 DEF Start!ProbeCard, Start!renderVars, Start!listVars
  <2> QED BY <2>2
<1>8. ASSUME UNCHANGED <<pc, caller, attempts>> PROVE Step
  <2>1. UNCHANGED StartStage
    BY <1>8 DEF StartStage
  <2> QED BY <1>8, <2>1, StageKept
<1>9. ASSUME NEW c \in Connectors, HandleNewOutput(c) PROVE Step
  BY <1>8, <1>9 DEF HandleNewOutput, discoverVars
<1>10. ASSUME NEW c \in Connectors, NEW d \in Displays \cup {NoDisplay}, HotPlug(c, d) PROVE Step
  BY <1>8, <1>10 DEF HotPlug
<1>11. CASE UNCHANGED vars
  BY <1>8, <1>11 DEF vars, discoverVars, modeVars
<1> QED BY <1>2, <1>3, <1>5, <1>6, <1>7, <1>9, <1>10, <1>11 DEF Next, Selecting

\* The selection, for any machine, displays and plugging, is the discovery and
\* the probe that Startup takes as one step each (compositor.c 242-288).
THEOREM StartRefined == Spec => ImplementsStart
<1>1. TypeInv /\ [Next]_vars => [Start!Discover \/ Start!ProbeCard]_<<StartStage, attempts>>
  BY StartStep
<1> QED BY <1>1, TypeInvariant, PTL DEF Spec, ImplementsStart
====
