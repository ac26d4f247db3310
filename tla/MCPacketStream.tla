--------------------------- MODULE MCPacketStream ---------------------------
(* Instances of PacketStream for TLC: all the buffers of MCPacketParser in *)
(* one read each; and streams of up to three packets, one behind the other *)
(* or behind a stray byte, damaged or not, cut inside a header, a length   *)
(* field and a payload, and between packets; and seven packets in one      *)
(* read, one more than the stack has room for.                             *)
EXTENDS PacketStream, MCPacketParser

Uncut(b) == [len |-> b.len, declared |-> b.declared, intact |-> b.intact, cuts |-> {}]

(* Packets of these sizes, the first behind `before` bytes. *)
Lined(before, sizes) ==
    LET f[i \in 1 .. Len(sizes) + 1] == IF i = 1 THEN before ELSE f[i - 1] + sizes[i - 1]
        H == {f[i] : i \in 1 .. Len(sizes)}
    IN {[len      |-> f[Len(sizes) + 1],
         declared |-> [h \in H |-> sizes[CHOOSE i \in 1 .. Len(sizes) : f[i] = h]],
         intact   |-> good,
         cuts     |-> {c \in {1, 8, 11, 12, 20, 22, 24, 31} : c < f[Len(sizes) + 1]}] :
             good \in SUBSET H}

Cut == UNION {Lined(before, sizes) :
                before \in {0, 1}, sizes \in UNION {[1 .. n -> {11, 20}] : n \in 1 .. 3}}

Seven == {Uncut(s) : s \in Lined(0, [i \in 1 .. 7 |-> 11])}

AllStreams == {Uncut(b) : b \in AllBuffers} \cup Cut \cup Seven
=============================================================================
