---- MODULE Keyboards ----
(***************************************************************************)
(* The keyboards of the seat over the whole life of the compositor         *)
(* (system_button.c): the devices the backend announces while it starts    *)
(* and later, and the listeners the System button depends on.              *)
(***************************************************************************)
EXTENDS Startup

CONSTANT Devices  \* keyboards

VARIABLES
    keyboards,  \* external: keyboards that are there and were announced
    tracked,    \* those with a playos_keyboard: their keys are heard
    dropped     \* history: those for which there was no memory

keyVars == <<keyboards, tracked, dropped>>
allVars == <<vars, keyVars>>

KeyTypeOK ==
    /\ StartTypeOK
    /\ keyboards \subseteq Devices
    /\ tracked \subseteq keyboards
    /\ dropped \subseteq keyboards

KeyInit == Init /\ keyboards = {} /\ tracked = {} /\ dropped = {}

Listening == <<"backend", "new_input">> \in heads

(* External: the backend announces a keyboard.  handle_new_input hears of it  *)
(* if it is on the backend's list, and may find no memory for it.             *)
NewInput(k) ==
    /\ pc \in {"announce", "running"}
    /\ k \notin keyboards
    /\ keyboards' = keyboards \cup {k}
    /\ IF Listening
       THEN \/ tracked' = tracked \cup {k} /\ UNCHANGED dropped
            \/ dropped' = dropped \cup {k} /\ UNCHANGED tracked
       ELSE UNCHANGED <<tracked, dropped>>
    /\ UNCHANGED vars

(* handle_keyboard_destroy *)
HandleKeyboardDestroy(gone) == tracked' = tracked \ gone

InputGone(k) ==
    /\ pc \in {"announce", "running"}
    /\ k \in keyboards
    /\ keyboards' = keyboards \ {k}
    /\ dropped' = dropped \ {k}
    /\ HandleKeyboardDestroy({k})
    /\ UNCHANGED vars

(* The start and the teardown; the backend goes with the display, and its     *)
(* devices with it.                                                           *)
Lives(step) ==
    /\ step
    /\ IF pc' \in {"failed", "attached", "exited"}
       THEN /\ keyboards' = {} /\ dropped' = {}
            /\ HandleKeyboardDestroy(keyboards)
       ELSE UNCHANGED keyVars

KeyNext == Lives(Next) \/ \E k \in Devices : NewInput(k) \/ InputGone(k)

KeySpec == KeyInit /\ [][KeyNext]_allVars /\ WF_allVars(Lives(StartNext))

-----------------------------------------------------------------------------

\* "registered before backend start so keyboards advertised during
\* wlr_backend_start() are not missed" (compositor.c 454-455): every keyboard
\* that is there is listened to, and no record outlives its keyboard, whichever
\* way the compositor ends.
KeyboardsHeard == keyboards \ dropped = tracked
====
