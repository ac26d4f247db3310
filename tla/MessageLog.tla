------------------------------ MODULE MessageLog ------------------------------
(***************************************************************************)
(* What the Kafka consumer promises, without pipe, bytes and coroutine:    *)
(* what arrives is written down in the order of arrival, each item once,   *)
(* errors as errors and messages as messages.  It may have to leave        *)
(* messages out once one without a payload has been printed.               *)
(* DispatchChannel implements it.                                          *)
(***************************************************************************)
EXTENDS Sequences, Naturals

CONSTANTS Msg, Kind

VARIABLES
    pending,   \* what has arrived and is not written down
    written,   \* the lines written for the last item
    muted      \* messages are no longer written

vars == <<pending, written, muted>>

Init == pending = << >> /\ written = {} /\ muted = FALSE

Arrive(m) ==
    /\ pending' = Append(pending, m)
    /\ UNCHANGED <<written, muted>>

Write ==
    /\ pending # << >>
    /\ pending' = Tail(pending)
    /\ LET kind == Kind[Head(pending)] IN
       /\ "error" \in written' <=> kind \in {"error", "unknown"}
       /\ kind \in {"message", "nosid"} => ("message" \in written' <=> ~muted)
       /\ kind \in {"eof", "unknown", "null"} => "message" \notin written'
       /\ muted' => muted \/ kind = "null"
    /\ muted => muted'

Next == Write \/ \E m \in Msg : Arrive(m)

Spec == Init /\ [][Next]_vars
=============================================================================
