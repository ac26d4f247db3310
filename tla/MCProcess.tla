------------------------------ MODULE MCProcess ------------------------------
(* An instance of Process for TLC: two sessions whose INIT comes before or *)
(* after their reports.                                                    *)
EXTENDS Process, TLC

CONSTANTS m1, m2, m3, m4, m5, s1, s2

PacketOf   == m1 :> s1 @@ m2 :> s1 @@ m3 :> s1 @@ m4 :> s2 @@ m5 :> s2
PacketType == m1 :> "INIT" @@ m2 :> "REPORT" @@ m3 :> "other"
              @@ m4 :> "INIT" @@ m5 :> "REPORT"
=============================================================================
