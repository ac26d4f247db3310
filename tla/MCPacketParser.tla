--------------------------- MODULE MCPacketParser ---------------------------
(* Instances of PacketParser for TLC: the real sizes, and headers at       *)
(* positions where real packets, one nested in another's payload, and      *)
(* stray bytes in front can put them.                                      *)
EXTENDS PacketParser, FiniteSets

Position == {0, 2, 11, 13, 22}

(* All buffers of a length with up to n headers and these packet lengths. *)
BuffersOf(len, n, lengths) ==
    UNION {[len : {len}, declared : [H -> lengths], intact : SUBSET H] :
              H \in {P \in SUBSET Position : /\ Cardinality(P) <= n
                                             /\ \A h \in P : h <= len - 2}}

(* Short packets, cut-off packets, packets that claim too much. *)
AnyBuffer == UNION {BuffersOf(len, 2, {1, 2, 4, 11, 13, 40000}) : len \in {11, 24, 33}}
AnyStale  == {0, 11, 13}

(* Three packets of the sizes a client sends, or claiming to be. *)
ThreePackets == BuffersOf(33, 3, {11, 13, 22})

AllBuffers == AnyBuffer \cup ThreePackets
=============================================================================
