---- MODULE IpcChannel ----
(***************************************************************************)
(* What comes in on compositor.sock: the frames playos-init sends, the     *)
(* event source that reads them one per dispatch, and the handler that is  *)
(* called for each.                                                        *)
(*                                                                         *)
(* A message is a JSON object, here a sequence of members.  The code does  *)
(* not parse it: it looks for the quoted name of a field in the text       *)
(* (json_get_string).  The text is a sequence of words: quoted strings,    *)
(* numbers and punctuation.                                                *)
(***************************************************************************)
EXTENDS IpcPeer, SequencesExt

CONSTANTS
    Messages,   \* JSON objects playos-init may send
    Refused,    \* a frame that is short, cut, or not PlayOS framing
    NoFrame,    \* nothing read yet
    NoString,   \* no string under this name
    MaxUnread   \* bound: frames waiting in the socket

\* A member of an object: a name, and a string or another value.
Member == [key : STRING, value : STRING, string : BOOLEAN]

ASSUME MessageAssumption ==
    /\ Messages \subseteq Seq(Member)
    /\ Refused \notin Messages /\ NoFrame \notin Messages

VARIABLES
    inbox,    \* external: frames in the socket, oldest first
    watched,  \* ipc_source: the event loop looks at the descriptor
    read,     \* the last frame read
    called    \* the handler it led to

channelVars == <<peerVars, inbox, watched, read, called>>

-----------------------------------------------------------------------------
(* Text. *)

Quoted(text) == [text |-> text, quoted |-> TRUE]
Bare(text)   == [text |-> text, quoted |-> FALSE]

\* The words of an object: four for each member, its name, a colon, its value and
\* what comes before it, and the brace at the end.
Word(message, at) ==
    LET m == message[(at + 2) \div 4]
    IN  IF at = 1 THEN Bare("open")
        ELSE IF at > 4 * Len(message) THEN Bare("close")
        ELSE CASE at % 4 = 1 -> Bare("comma")
               [] at % 4 = 2 -> Quoted(m.key)
               [] at % 4 = 3 -> Bare("colon")
               [] at % 4 = 0 -> [text |-> m.value, quoted |-> m.string]

Text(message) ==
    [at \in 1 .. (IF message = <<>> THEN 2 ELSE 4 * Len(message) + 1) |-> Word(message, at)]

(* json_get_string: the first quoted string that reads like the name decides, *)
(* whether it is the name of a field or not.                                  *)
\* Mutant: the last such string decides.
MutJsonGetString(text, key) ==
    LET at == SelectLastInSeq(text, LAMBDA word : word = Quoted(key))
    IN  IF /\ at # 0
           /\ at + 2 <= Len(text)
           /\ text[at + 1] = Bare("colon")
           /\ text[at + 2].quoted
        THEN text[at + 2].text
        ELSE NoString

JsonGetString(text, key) ==
    LET at == SelectInSeq(text, LAMBDA word : word = Quoted(key))
    IN  IF /\ at # 0
           /\ at + 2 <= Len(text)
           /\ text[at + 1] = Bare("colon")
           /\ text[at + 2].quoted
        THEN text[at + 2].text
        ELSE NoString

(* ipc_dispatch.  Without a launch token the buffer is passed on as it is: *)
(* nothing has written to it.                                              *)
Requests ==
    {"SetExpectedGame", "ClearExpectedGame", "ForceTerminateGame", "ShowOverlay", "HideOverlay"}

NoCall == [request |-> "none", token |-> NoToken]

TokenRead(text) ==
    LET token == JsonGetString(text, "launch_token")
    IN  IF token = NoString THEN Tokens \cup {NoToken} ELSE {token}

Calls(text) ==
    LET type == JsonGetString(text, "type")
    IN  IF type \notin Requests THEN {NoCall}
        ELSE {[request |-> type, token |-> token] :
                 token \in IF type = "SetExpectedGame" THEN TokenRead(text) ELSE {NoToken}}

-----------------------------------------------------------------------------

ChannelTypeOK ==
    /\ PeerTypeOK
    /\ inbox \in Seq(Messages \cup {Refused})
    /\ watched \in BOOLEAN

\* wl_event_loop_add_fd may fail, and the code does not look.
ChannelInit ==
    /\ PeerInit
    /\ inbox = <<>>
    /\ watched \in IF link = "up" THEN BOOLEAN ELSE {FALSE}
    /\ read = NoFrame
    /\ called = NoCall

(* External: playos-init sends a frame. *)
PeerSends(frame) ==
    /\ link = "up"
    /\ Len(inbox) < MaxUnread
    /\ inbox' = Append(inbox, frame)
    /\ UNCHANGED <<peerVars, watched, read, called>>

(* ipc_fd_handler, readable.  The peer may have closed its end since the      *)
(* event loop looked.  A frame that is refused leads to nothing, and the      *)
(* connection is kept.                                                        *)
ReadFrame ==
    /\ Running
    /\ watched
    /\ link # "down"
    /\ inbox # <<>>
    /\ inbox' = Tail(inbox)
    /\ read' = Head(inbox)
    /\ called' \in IF read' = Refused THEN {NoCall} ELSE Calls(Text(read'))
    /\ UNCHANGED <<peerVars, watched>>

(* ipc_fd_handler, hangup: looked at first, so that what is unread is lost. *)
FdHangup ==
    /\ watched
    /\ HandleFd
    /\ inbox' = <<>>
    /\ watched' = FALSE
    /\ UNCHANGED <<read, called>>

(* ipc_reconnect_handler. *)
TimerFires ==
    /\ FireTimer
    /\ watched' \in IF link' = "up" THEN BOOLEAN ELSE {watched}
    /\ UNCHANGED <<inbox, read, called>>

(* ipc_disconnect. *)
ChannelStops ==
    /\ IpcStop
    /\ inbox' = <<>>
    /\ watched' = FALSE
    /\ UNCHANGED <<read, called>>

\* The peer comes and goes, and the compositor reports to it.
OtherSteps ==
    /\ \/ PeerListens
       \/ PeerClosesLink
       \/ \E state \in ForegroundStates : SendState(state)
       \/ \E token \in Tokens : SendReady(token)
    /\ UNCHANGED <<inbox, watched, read, called>>

ChannelNext ==
    \/ \E frame \in Messages \cup {Refused} : PeerSends(frame)
    \/ ReadFrame
    \/ FdHangup
    \/ TimerFires
    \/ ChannelStops
    \/ OtherSteps

ChannelSpec == ChannelInit /\ [][ChannelNext]_channelVars

\* libwayland dispatches a ready descriptor and an expired timer.
ChannelFairSpec ==
    ChannelSpec /\ WF_channelVars(FdHangup) /\ WF_channelVars(TimerFires)

-----------------------------------------------------------------------------

\* What an object says under a name.
Says(message, key) ==
    LET at == SelectInSeq(message, LAMBDA m : m.key = key)
    IN  IF at # 0 /\ message[at].string THEN message[at].value ELSE NoString

\* No string of the object reads like the name of a field that comes later.
Plain(message) ==
    \A key \in {"type", "launch_token"} :
        \A i, j \in DOMAIN message :
            message[i].string /\ message[i].value = key /\ message[j].key = key => j < i

\* A frame leads to the handler its message asks for, with the launch token it
\* names, whatever the order of the members and whichever values read like
\* names, as long as such a value does not come before the field
\* (compositor_ipc.c json_get_string 48-100, ipc_dispatch 139-167).
ReadAsMeant ==
    /\ read \in Messages
    /\ Plain(read)
    /\ Says(read, "type") = "SetExpectedGame" => Says(read, "launch_token") # NoString
    => called = IF Says(read, "type") \notin Requests THEN NoCall
                ELSE [request |-> Says(read, "type"),
                      token |-> IF Says(read, "type") = "SetExpectedGame"
                                THEN Says(read, "launch_token") ELSE NoToken]

\* playos-init can restart at any time; once it listens for good the compositor
\* gets through to it, unless it holds a connection the event loop was not made
\* to look at (compositor_ipc.c 214-217 and 302-304).
Reconnects ==
    <>[](listening /\ Running /\ (link # "down" => watched)) => []<>(link = "up")
====
