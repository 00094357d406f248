---- MODULE IpcPeerProofs ----
(***************************************************************************)
(* The link of compositor.sock, proved for every pair of delays and every  *)
(* set of launch tokens.                                                   *)
(***************************************************************************)
EXTENDS IpcChannel, SeqLemmas

\* The doubled delay stays within the two bounds.
LEMMA BackoffBounded ==
    ASSUME NEW d \in BaseDelay .. MaxDelay
    PROVE  NextDelay(d) \in BaseDelay .. MaxDelay
  BY DelayAssumption DEF NextDelay

\* Types, connection and back-off are inductive together.
PeerInv == PeerTypeOK /\ NeverStranded /\ BackoffRestartsWhileRunning

\* Every callback, message, crash of the peer and the teardown keep them.
LEMMA PeerInductive ==
    ASSUME PeerInv, [PeerNext]_peerVars
    PROVE  PeerInv'
<1> USE DelayAssumption
        DEF PeerInv, PeerTypeOK, IpcTypeOK, NeverStranded, LinkOrRetry,
            BackoffRestartsWhileRunning, BackoffRestarts, Running
<1>1. CASE PeerListens
  BY <1>1 DEF PeerListens, ipcVars, linkVars, wireVars, sendVars
<1>2. CASE PeerClosesLink
  BY <1>2 DEF PeerClosesLink, PeerCloses, wireVars, sendVars
<1>3. CASE HandleFd
  BY <1>3 DEF HandleFd, IpcHangup, wireVars, sendVars
<1>4. CASE FireTimer
  <2>1. CASE listening
    BY <1>4, <2>1 DEF FireTimer, IpcReconnected, FreshWire
  <2>2. CASE ~listening
    BY <1>4, <2>2, BackoffBounded DEF FireTimer, IpcRetryFailed, wireVars, sendVars
  <2> QED BY <2>1, <2>2
<1>5. ASSUME NEW state \in ForegroundStates, SendState(state) PROVE PeerInv'
  BY <1>5 DEF SendState, ReportState, Send, linkVars
<1>6. ASSUME NEW token \in Tokens, SendReady(token) PROVE PeerInv'
  BY <1>6 DEF SendReady, ReportReady, Send, linkVars
<1>7. CASE IpcStop
  BY <1>7 DEF IpcStop, wireVars, sendVars
<1>8. CASE UNCHANGED peerVars
  BY <1>8 DEF peerVars, ipcVars, linkVars, wireVars, sendVars
<1> QED BY <1>1, <1>2, <1>3, <1>4, <1>5, <1>6, <1>7, <1>8 DEF PeerNext

\* They hold in every reachable state.
LEMMA PeerInvariant == PeerSpec => []PeerInv
<1>1. PeerInit => PeerInv
  <2> SUFFICES ASSUME PeerInit PROVE PeerInv
    OBVIOUS
  <2>1. IpcTypeOK
    BY DelayAssumption DEF PeerInit, IpcInit, IpcTypeOK
  <2>2. listening \in BOOLEAN /\ stopped = FALSE
    BY DEF PeerInit
  <2>3. LinkOrRetry /\ BackoffRestarts
    BY DEF PeerInit, IpcInit, LinkOrRetry, BackoffRestarts
  <2> QED BY <2>1, <2>2, <2>3
          DEF PeerInv, PeerTypeOK, NeverStranded, BackoffRestartsWhileRunning, Running
<1>2. PeerInv /\ [PeerNext]_peerVars => PeerInv'
  BY PeerInductive
<1> QED BY <1>1, <1>2, PTL DEF PeerSpec

\* The link is never lost without an armed retry, no retry outlives the
\* connection it opened, and the teardown leaves neither (compositor_ipc.c
\* 195-270 and 313-321).
THEOREM LinkNeverStranded == PeerSpec => []NeverStranded
<1>1. PeerInv => NeverStranded
  BY DEF PeerInv
<1> QED BY <1>1, PeerInvariant, PTL

\* Every connection starts with the shortest delay in store for the next loss
\* (compositor_ipc.c 219).
THEOREM LinkBackoffRestarts == PeerSpec => []BackoffRestartsWhileRunning
<1>1. PeerInv => BackoffRestartsWhileRunning
  BY DEF PeerInv
<1> QED BY <1>1, PeerInvariant, PTL

\* The types of the link, its peer and the teardown.
THEOREM PeerTypeCorrect == PeerSpec => []PeerTypeOK
<1>1. PeerInv => PeerTypeOK
  BY DEF PeerInv
<1> QED BY <1>1, PeerInvariant, PTL

\* The frames that come in, and an event loop that may not look at the
\* descriptor, change nothing of this: every step of the channel is one of the
\* link or leaves it alone.
THEOREM ChannelImplementsPeer == ChannelSpec => PeerSpec
<1>1. ChannelInit => PeerInit
  BY DEF ChannelInit
<1>2. [ChannelNext]_channelVars => [PeerNext]_peerVars
  <2> SUFFICES ASSUME [ChannelNext]_channelVars PROVE [PeerNext]_peerVars
    OBVIOUS
  <2>1. CASE \E frame \in Messages \cup {Refused} : PeerSends(frame)
    BY <2>1 DEF PeerSends
  <2>2. CASE ReadFrame
    BY <2>2 DEF ReadFrame
  <2>3. CASE FdHangup
    BY <2>3 DEF FdHangup, PeerNext
  <2>4. CASE TimerFires
    BY <2>4 DEF TimerFires, PeerNext
  <2>5. CASE ChannelStops
    BY <2>5 DEF ChannelStops, PeerNext
  <2>6. CASE OtherSteps
    BY <2>6 DEF OtherSteps, PeerNext
  <2>7. CASE UNCHANGED channelVars
    BY <2>7 DEF channelVars
  <2> QED BY <2>1, <2>2, <2>3, <2>4, <2>5, <2>6, <2>7 DEF ChannelNext
<1> QED BY <1>1, <1>2, PTL DEF ChannelSpec, PeerSpec

\* Whatever comes in over it, the link is not stranded (compositor_ipc.c
\* 195-287).
THEOREM ChannelNeverStranded == ChannelSpec => []NeverStranded
BY ChannelImplementsPeer, LinkNeverStranded, PTL

-----------------------------------------------------------------------------
(* What comes in. *)

\* A message has members, with a name and a value.
LEMMA MessageType ==
    ASSUME NEW message \in Messages
    PROVE  /\ message \in Seq(Member)
           /\ DOMAIN message = 1 .. Len(message) /\ Len(message) \in Nat
           /\ \A i \in 1 .. Len(message) : message[i] \in Member
<1>1. message \in Seq(Member)
  BY MessageAssumption
<1> QED BY <1>1

\* Every word but the first and the last belongs to a member.
LEMMA MemberOfWord ==
    ASSUME NEW n \in Nat, NEW at \in 2 .. 4 * n
    PROVE  /\ (at + 2) \div 4 \in 1 .. n
           /\ at % 4 = 2 => at = 4 * ((at + 2) \div 4) - 2
           /\ at % 4 = 0 => at = 4 * ((at + 2) \div 4)
           /\ at % 4 \in {0, 1, 2, 3}
OBVIOUS

\* What a word is, and the member a quoted one comes from.
LEMMA WordType ==
    ASSUME NEW message \in Messages, NEW at \in Nat \ {0}
    PROVE  /\ Word(message, at).quoted \in BOOLEAN
           /\ Word(message, at).quoted =>
                 \E i \in 1 .. Len(message) :
                    \/ at = 4 * i - 2
                    \/ at = 4 * i /\ message[i].string
<1> DEFINE n == Len(message)
           i == (at + 2) \div 4
           m == message[i]
<1>1. n \in Nat
  BY MessageType
<1>2. CASE at = 1 \/ at > 4 * n
  <2>1. Word(message, at) = Bare("open") \/ Word(message, at) = Bare("close")
    BY <1>2 DEF Word
  <2>2. Word(message, at).quoted = FALSE
    BY <2>1 DEF Bare
  <2> QED BY <2>2
<1>3. CASE at # 1 /\ ~ (at > 4 * n)
  <2>1. at \in 2 .. 4 * n
    BY <1>1, <1>3
  <2>2. i \in 1 .. n /\ at % 4 \in {0, 1, 2, 3}
    BY <1>1, <2>1, MemberOfWord
  <2>3. m \in Member
    BY <2>2, MessageType
  <2>4. Word(message, at) = CASE at % 4 = 1 -> Bare("comma")
                              [] at % 4 = 2 -> Quoted(m.key)
                              [] at % 4 = 3 -> Bare("colon")
                              [] at % 4 = 0 -> [text |-> m.value, quoted |-> m.string]
    BY <1>3 DEF Word
  <2> HIDE DEF m
  <2>5. CASE at % 4 = 1 \/ at % 4 = 3
    <3>1. at % 4 = 1 => Word(message, at) = Bare("comma")
      BY <2>4
    <3>2. at % 4 = 3 => Word(message, at) = Bare("colon")
      BY <2>4
    <3>3. Word(message, at).quoted = FALSE
      BY <2>5, <3>1, <3>2 DEF Bare
    <3> QED BY <3>3
  <2>6. CASE at % 4 = 2
    <3>1. Word(message, at) = Quoted(m.key)
      BY <2>4, <2>6
    <3>2. at = 4 * i - 2
      BY <1>1, <2>1, <2>6, MemberOfWord
    <3>3. Word(message, at).quoted = TRUE
      BY <3>1 DEF Quoted
    <3> HIDE DEF i
    <3> QED BY <2>2, <3>2, <3>3
  <2>7. CASE at % 4 = 0
    <3>1. Word(message, at) = [text |-> m.value, quoted |-> m.string]
      BY <2>4, <2>7
    <3>2. at = 4 * i
      BY <1>1, <2>1, <2>7, MemberOfWord
    <3>3. Word(message, at).quoted = m.string /\ m.string \in BOOLEAN
      BY <2>3, <3>1 DEF Member
    <3>4. Word(message, at).quoted \in BOOLEAN
      BY <3>3
    <3>5. m.string => message[i].string
      BY DEF m
    <3> HIDE DEF i
    <3>6. ASSUME Word(message, at).quoted PROVE at = 4 * i /\ message[i].string
      BY <3>2, <3>3, <3>5, <3>6
    <3> QED BY <2>2, <3>4, <3>6
  <2> QED BY <2>2, <2>5, <2>6, <2>7
<1> QED BY <1>2, <1>3

\* The four words of a member, and the one that comes after it.
LEMMA WordsOfMember ==
    ASSUME NEW message \in Messages, NEW i \in 1 .. Len(message)
    PROVE  /\ Word(message, 4 * i - 2) = Quoted(message[i].key)
           /\ Word(message, 4 * i - 1) = Bare("colon")
           /\ Word(message, 4 * i) = [text |-> message[i].value, quoted |-> message[i].string]
           /\ Word(message, 4 * i + 1) \in {Bare("comma"), Bare("close")}
<1>1. Len(message) \in Nat
  BY MessageType
<1>2. /\ (4 * i - 2 + 2) \div 4 = i /\ (4 * i - 2) % 4 = 2
      /\ (4 * i - 1 + 2) \div 4 = i /\ (4 * i - 1) % 4 = 3
      /\ (4 * i + 2) \div 4 = i /\ (4 * i) % 4 = 0
      /\ (4 * i + 1) % 4 = 1
  BY <1>1
<1>3. ASSUME NEW at, at \in {4 * i - 2, 4 * i - 1, 4 * i}
      PROVE  Word(message, at) =
                LET m == message[(at + 2) \div 4]
                IN  CASE at % 4 = 1 -> Bare("comma")
                      [] at % 4 = 2 -> Quoted(m.key)
                      [] at % 4 = 3 -> Bare("colon")
                      [] at % 4 = 0 -> [text |-> m.value, quoted |-> m.string]
  <2>1. at # 1 /\ ~ (at > 4 * Len(message))
    BY <1>1, <1>3
  <2> QED BY <2>1 DEF Word
<1>4. ASSUME NEW at, at = 4 * i - 2 PROVE Word(message, at) = Quoted(message[i].key)
  <2>1. (at + 2) \div 4 = i /\ at % 4 = 2
    BY <1>2, <1>4
  <2> QED BY <1>3, <1>4, <2>1
<1>5. ASSUME NEW at, at = 4 * i - 1 PROVE Word(message, at) = Bare("colon")
  <2>1. (at + 2) \div 4 = i /\ at % 4 = 3
    BY <1>2, <1>5
  <2> QED BY <1>3, <1>5, <2>1
<1>6. ASSUME NEW at, at = 4 * i
      PROVE  Word(message, at) = [text |-> message[i].value, quoted |-> message[i].string]
  <2>1. (at + 2) \div 4 = i /\ at % 4 = 0
    BY <1>2, <1>6
  <2> DEFINE m == message[(at + 2) \div 4]
  <2>2. Word(message, at) = CASE at % 4 = 1 -> Bare("comma")
                              [] at % 4 = 2 -> Quoted(m.key)
                              [] at % 4 = 3 -> Bare("colon")
                              [] at % 4 = 0 -> [text |-> m.value, quoted |-> m.string]
    BY <1>3, <1>6
  <2>3. Word(message, at) = [text |-> m.value, quoted |-> m.string]
    <3> HIDE DEF m
    <3> QED BY <2>1, <2>2
  <2> QED BY <2>1, <2>3
<1>7. ASSUME NEW at, at = 4 * i + 1 PROVE Word(message, at) \in {Bare("comma"), Bare("close")}
  <2>1. at # 1 /\ at % 4 = 1
    BY <1>1, <1>2, <1>7
  <2>2. at > 4 * Len(message) \/ ~ (at > 4 * Len(message))
    OBVIOUS
  <2> QED BY <2>1 DEF Word
<1> QED BY <1>4, <1>5, <1>6, <1>7

\* json_get_string finds the field if no value before it reads like its name:
\* the first word that does is the name of the first such member.
LEMMA StringRead ==
    ASSUME NEW message \in Messages, NEW key \in {"type", "launch_token"}, Plain(message)
    PROVE  JsonGetString(Text(message), key) = Says(message, key)
<1> DEFINE n     == Len(message)
           text  == Text(message)
           named == {i \in 1 .. n : message[i].key = key}
           first == IF named # {} THEN Min(named) ELSE 0
           alike == {p \in 1 .. Len(text) : text[p] = Quoted(key)}
           at    == IF alike # {} THEN Min(alike) ELSE 0
<1>1. n \in Nat /\ DOMAIN message = 1 .. n /\ message \in Seq(Member)
  BY MessageType
<1>2. /\ text \in Seq({Word(message, p) : p \in Nat})
      /\ Len(text) = IF message = <<>> THEN 2 ELSE 4 * n + 1
      /\ \A p \in 1 .. Len(text) : text[p] = Word(message, p)
  <2> DEFINE len == IF message = <<>> THEN 2 ELSE 4 * n + 1
  <2>1. len \in Nat
    BY <1>1
  <2>2. text = [p \in 1 .. len |-> Word(message, p)]
    BY DEF Text
  <2> HIDE DEF len, text
  <2>3. text \in Seq({Word(message, p) : p \in Nat}) /\ Len(text) = len
    BY <2>1, <2>2
  <2>4. \A p \in 1 .. Len(text) : text[p] = Word(message, p)
    BY <2>1, <2>2, <2>3
  <2> QED BY <2>3, <2>4 DEF len
<1>3. JsonGetString(text, key) =
         IF at # 0 /\ at + 2 <= Len(text) /\ text[at + 1] = Bare("colon") /\ text[at + 2].quoted
         THEN text[at + 2].text ELSE NoString
  BY DEF JsonGetString, SelectInSeq
<1>4. Says(message, key) =
         IF first # 0 /\ message[first].string THEN message[first].value ELSE NoString
  BY DEF Says, SelectInSeq
<1> SUFFICES JsonGetString(text, key) = Says(message, key)
  OBVIOUS
<1> HIDE DEF text
<1>5. /\ first \in 0 .. n
      /\ first # 0 => first \in named
      /\ first = 0 => named = {}
      /\ \A i \in named : first <= i
  <2> HIDE DEF named
  <2>1. named \in SUBSET (1 .. n)
    BY DEF named
  <2> QED BY <1>1, <2>1, FirstPlace
<1>6. /\ at \in 0 .. Len(text)
      /\ at # 0 => at \in alike
      /\ at = 0 => alike = {}
      /\ \A p \in alike : at <= p
  <2> HIDE DEF alike
  <2>1. alike \in SUBSET (1 .. Len(text))
    BY DEF alike
  <2> QED BY <1>2, <2>1, FirstPlace
<1> HIDE DEF first, at
<1>7. \A i \in 1 .. n : /\ 4 * i - 2 \in 1 .. Len(text) /\ 4 * i - 1 \in 1 .. Len(text)
                       /\ 4 * i \in 1 .. Len(text) /\ 4 * i + 1 \in 1 .. Len(text)
  BY <1>1, <1>2
<1>8. ASSUME NEW p \in alike
      PROVE  \E i \in 1 .. n :
                \/ p = 4 * i - 2 /\ i \in named
                \/ p = 4 * i /\ message[i].string /\ message[i].value = key
  <2>1. p \in Nat \ {0} /\ Word(message, p) = Quoted(key)
    BY <1>2
  <2>2. Word(message, p).quoted /\ Word(message, p).text = key
    BY <2>1 DEF Quoted
  <2>3. PICK i \in 1 .. n : p = 4 * i - 2 \/ (p = 4 * i /\ message[i].string)
    BY <2>1, <2>2, WordType
  <2>4. CASE p = 4 * i - 2
    <3>1. Word(message, p) = Quoted(message[i].key)
      BY <2>4, WordsOfMember
    <3>2. message[i].key = key
      BY <2>2, <3>1 DEF Quoted
    <3> QED BY <2>4, <3>2
  <2>5. CASE p = 4 * i /\ message[i].string
    <3>1. Word(message, p) = [text |-> message[i].value, quoted |-> message[i].string]
      BY <2>5, WordsOfMember
    <3>2. message[i].value = key
      BY <2>2, <3>1
    <3> QED BY <2>5, <3>2
  <2> QED BY <2>3, <2>4, <2>5
<1>9. ASSUME NEW i \in 1 .. n, i \in named PROVE 4 * i - 2 \in alike
  <2>1. Word(message, 4 * i - 2) = Quoted(key)
    BY <1>9, WordsOfMember
  <2> QED BY <1>2, <1>7, <2>1
<1>10. CASE first # 0
  <2>1. first \in named /\ first \in 1 .. n
    BY <1>1, <1>5, <1>10
  <2>2. at <= 4 * first - 2 /\ at \in alike
    BY <1>6, <1>9, <2>1
  <2>3. PICK i \in 1 .. n :
           \/ at = 4 * i - 2 /\ i \in named
           \/ at = 4 * i /\ message[i].string /\ message[i].value = key
    BY <1>8, <2>2
  <2>4. ASSUME message[i].string, message[i].value = key PROVE first < i
    BY <1>1, <2>1, <2>4 DEF Plain
  <2>5. at = 4 * first - 2
    BY <1>1, <1>5, <2>1, <2>2, <2>3, <2>4
  <2>6. /\ at + 1 = 4 * first - 1 /\ at + 2 = 4 * first
        /\ at # 0 /\ at + 2 <= Len(text)
    <3>1. first \in Int /\ 4 * first \in 1 .. Len(text)
      BY <1>1, <1>7, <2>1
    <3>2. Len(text) \in Nat
      BY <1>2
    <3> QED BY <2>5, <3>1, <3>2
  <2>7. /\ text[4 * first - 1] = Bare("colon")
        /\ text[4 * first] = [text |-> message[first].value, quoted |-> message[first].string]
    BY <1>2, <1>7, <2>1, WordsOfMember
  <2> QED BY <1>3, <1>4, <1>10, <2>6, <2>7
<1>11. CASE first = 0
  <2>1. Says(message, key) = NoString
    BY <1>4, <1>11
  <2>2. CASE at = 0
    BY <1>3, <2>1, <2>2
  <2>3. CASE at # 0
    <3>1. PICK i \in 1 .. n : at = 4 * i
      BY <1>5, <1>6, <1>8, <1>11, <2>3
    <3>2. text[4 * i + 1] \in {Bare("comma"), Bare("close")}
      BY <1>2, <1>7, WordsOfMember
    <3>3. text[at + 1] # Bare("colon")
      BY <3>1, <3>2 DEF Bare
    <3> QED BY <1>3, <2>1, <3>3
  <2> QED BY <2>2, <2>3
<1> QED BY <1>10, <1>11

\* What a message asks for.
Meaning(message) ==
    IF Says(message, "type") \notin Requests THEN NoCall
    ELSE [request |-> Says(message, "type"),
          token |-> IF Says(message, "type") = "SetExpectedGame"
                    THEN Says(message, "launch_token") ELSE NoToken]

\* ipc_dispatch does that, and nothing else can come of it.
LEMMA CallsMeaning ==
    ASSUME NEW message \in Messages, Plain(message),
           Says(message, "type") = "SetExpectedGame" => Says(message, "launch_token") # NoString,
           NEW call \in Calls(Text(message))
    PROVE  call = Meaning(message)
<1> DEFINE type  == Says(message, "type")
           token == Says(message, "launch_token")
<1>1. JsonGetString(Text(message), "type") = type
  BY StringRead
<1>2. JsonGetString(Text(message), "launch_token") = token
  BY StringRead
<1>3. CASE type \notin Requests
  BY <1>1, <1>3 DEF Calls, Meaning
<1>4. CASE type \in Requests /\ type # "SetExpectedGame"
  BY <1>1, <1>4 DEF Calls, Meaning
<1>5. CASE type \in Requests /\ type = "SetExpectedGame"
  <2>1. TokenRead(Text(message)) = {token}
    BY <1>2, <1>5 DEF TokenRead
  <2> QED BY <1>1, <1>5, <2>1 DEF Calls, Meaning
<1> QED BY <1>3, <1>4, <1>5

\* The last call is one the last frame leads to.
CalledByFrame == read \in Messages => called \in Calls(Text(read))

\* Whatever the order of its members and whichever of its values read like
\* names, a frame leads to the handler its message asks for, unless such a value
\* comes before the field (compositor_ipc.c 48-100 and 139-167).
THEOREM MessagesReadAsMeant == ChannelSpec => []ReadAsMeant
<1>1. ChannelInit => CalledByFrame
  BY MessageAssumption DEF ChannelInit, CalledByFrame
<1>2. CalledByFrame /\ [ChannelNext]_channelVars => CalledByFrame'
  <2> SUFFICES ASSUME CalledByFrame, [ChannelNext]_channelVars PROVE CalledByFrame'
    OBVIOUS
  <2>1. CASE ReadFrame
    <3>1. ASSUME read' \in Messages PROVE called' \in Calls(Text(read'))
      BY <2>1, <3>1, MessageAssumption DEF ReadFrame
    <3> QED BY <3>1 DEF CalledByFrame
  <2>2. CASE UNCHANGED <<read, called>>
    BY <2>2 DEF CalledByFrame
  <2>3. ReadFrame \/ UNCHANGED <<read, called>>
    BY DEF ChannelNext, PeerSends, FdHangup, TimerFires, ChannelStops, OtherSteps, channelVars
  <2> QED BY <2>1, <2>2, <2>3
<1>3. CalledByFrame => ReadAsMeant
  BY CallsMeaning DEF CalledByFrame, ReadAsMeant, Meaning
<1> QED BY <1>1, <1>2, <1>3, PTL DEF ChannelSpec
====
