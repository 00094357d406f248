---- MODULE MCIpcChannel ----
(***************************************************************************)
(* IpcChannel with the delays of the code, 100 ms doubling up to 5000 ms,  *)
(* and messages whose members come in either order, lack a field, or have  *)
(* a value that reads like the name of one.                                *)
(***************************************************************************)
EXTENDS IpcChannel

String(key, value) == [key |-> key, value |-> value, string |-> TRUE]
Version == [key |-> "v", value |-> "1", string |-> FALSE]

Launch == String("type", "SetExpectedGame")
Token  == String("launch_token", "t1")

\* The last two are not Plain: the first is dropped, the second is read as a
\* launch whose token is whatever the buffer held.
SomeMessages ==
    {<<Version, Launch, Token, String("game_id", "g")>>,
     <<String("game_id", "g"), Token, Launch, Version>>,
     <<Launch, Token, String("game_id", "type")>>,
     <<Version, Launch>>,
     <<Version, String("type", "ShowOverlay"), String("by", "type")>>,
     <<Version, String("type", "Hello")>>,
     <<Version>>,
     <<String("game_id", "type"), Launch, Token>>,
     <<Launch, String("game_id", "launch_token"), Token>>}
====
