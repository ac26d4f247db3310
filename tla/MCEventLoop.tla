----------------------------- MODULE MCEventLoop -----------------------------
(* An instance of EventLoop for TLC: one arrival of each kind at a time.   *)
EXTENDS EventLoop, TLC

CONSTANTS m1, m2, m3, m4, m5, reader

FiveKinds == m1 :> "message" @@ m2 :> "error" @@ m3 :> "null" @@ m4 :> "nosid"
             @@ m5 :> "eof"
=============================================================================
