----------------------------- MODULE PacketParser -----------------------------
(***************************************************************************)
(* server_channel::handle_packet on the bytes of one read(): it looks for  *)
(* the next 0xaa55, checks the CRC of the packet there, acknowledges it,   *)
(* hands a good one to the callback, and calls itself for what may follow. *)
(* The recursion is explicit: stack holds the activations, top at the end. *)
(*                                                                         *)
(* A buffer is its length, the positions of 0xaa55 in it, the length each  *)
(* of them declares and the ones whose CRC is right.  What handle_packet   *)
(* reads of a packet_t beyond the bytes it has copied into it was never    *)
(* written: a length that is not all there is any of Stale, the verdict on *)
(* a packet that is not all there is either.                               *)
(*                                                                         *)
(* Each activation has a packet_t on the coroutine's stack, which libco    *)
(* makes 128 KiB large: DEPTH of them fit.  What one more overwrites is    *)
(* not modelled: it kills the process, or does no harm.                    *)
(***************************************************************************)
EXTENDS Integers, Sequences, FiniteSets

CONSTANTS
    MAX_SIZE,         \* size of packet_t and of the read buffer
    LENGTH_END,       \* offset of the first byte after packet_t's length field
    packet_min_size,  \* what packet_min_size() returns
    Buffer,           \* [len, declared, intact]: what one read() may yield
    Stale,            \* what an unwritten length field may hold
    DEPTH             \* activations the coroutine's stack has room for

ASSUME SizeAssumption ==
    /\ MAX_SIZE \in Nat /\ LENGTH_END \in Nat /\ packet_min_size \in Nat
    /\ Stale \subseteq Nat /\ Stale # {}

ASSUME DepthAssumption == DEPTH \in Nat \ {0}

(* Bytes, with what stands in them. *)
Bytes(b) ==
    /\ b.len \in Nat
    /\ DOMAIN b.declared \subseteq 0 .. b.len - 2
    /\ b.declared \in [DOMAIN b.declared -> Nat]
    /\ b.intact \subseteq DOMAIN b.declared

IsBuffer(b) == b.len \in packet_min_size .. MAX_SIZE /\ Bytes(b)

ASSUME BufferAssumption == \A b \in Buffer : IsBuffer(b)

VARIABLES
    buf,      \* the buffer
    stack,    \* activations: [pos, start, declared, pc]
    acks,     \* acknowledgements written: <<start, code>>
    handled,  \* packets handed to the callback, by start
    fault     \* what the process has died of

vars == <<buf, stack, acks, handled, fault>>

Header == DOMAIN buf.declared

-----------------------------------------------------------------------------
(* Faults of the helpers below, for the mutants of PROJECT.json.           *)

ResyncInPlace(h, d)         == h
ResyncAfterFrame(h, d)      == h + d
AfterFrameFromPos(pos, h, d) == pos + d
AfterHeader(pos, h, d)      == h + 2
DeclaredSigned(h) == {IF buf.declared[h] < 32768 THEN buf.declared[h]
                      ELSE buf.declared[h] - 65536}

-----------------------------------------------------------------------------
(* find_header_position(buf, pos, len): the first header at pos or after. *)
IsNext(h, pos) == /\ h \in Header /\ h >= pos
                  /\ \A g \in Header : g >= pos => h <= g
NoHeader(pos) == \A h \in Header : h < pos

(* ntohs(rece_ptk.info.length), and sizeof_packet, capped. *)
Declared(h) == IF h + LENGTH_END <= buf.len THEN {buf.declared[h]} ELSE Stale
Size(d)     == IF d > MAX_SIZE THEN MAX_SIZE ELSE d

(* check_crc: bytes 0 and 1 are 0xaa55, never the CRC of no bytes. *)
Verdict(h, d) == IF d < 3 THEN {FALSE}
                 ELSE IF h + Size(d) <= buf.len THEN {h \in buf.intact}
                 ELSE BOOLEAN

(* Where the recursive calls start. *)
Resync(h, d)          == h + 2
AfterFrame(pos, h, d) == h + Size(d)

Activation(pos) == [pos |-> pos, start |-> -1, declared |-> 0, pc |-> "enter"]
Top       == stack[Len(stack)]
Popped    == SubSeq(stack, 1, Len(stack) - 1)
At(where) == stack # << >> /\ fault = "none" /\ Top.pc = where

(* The top activation goes on at where; it calls itself from pos. *)
Goto(where)      == [stack EXCEPT ![Len(stack)].pc = where]
Call(where, pos) == Append(Goto(where), Activation(pos))

-----------------------------------------------------------------------------
Init ==
    /\ buf \in Buffer
    /\ stack = <<Activation(0)>>
    /\ acks = << >> /\ handled = << >>
    /\ fault = "none"

(* A header is found: its packet is copied, its length field read. *)
Found ==
    /\ At("enter")
    /\ \E h \in Header : IsNext(h, Top.pos) /\ \E d \in Declared(h) :
         stack' = [stack EXCEPT ![Len(stack)] =
             [@ EXCEPT !.start = h, !.declared = d, !.pc = "check"]]
    /\ UNCHANGED <<buf, acks, handled, fault>>

(* No header: return. *)
NotFound ==
    /\ At("enter") /\ NoHeader(Top.pos)
    /\ stack' = Popped
    /\ UNCHANGED <<buf, acks, handled, fault>>

(* check_crc(buf, size) with size < 2: size - 2, as a size_t, is near      *)
(* 2^64, and crc16_compute reads until it faults.                          *)
CrcFault ==
    /\ At("check") /\ Size(Top.declared) < 2
    /\ fault' = "crc"
    /\ UNCHANGED <<buf, stack, acks, handled>>

(* There are more activations than the stack has room for, and what lies   *)
(* below it is not the coroutine's.  (If that does no harm, any other step *)
(* follows.)                                                               *)
Overflow ==
    /\ stack # << >> /\ fault = "none" /\ Len(stack) > DEPTH
    /\ fault' = "stack"
    /\ UNCHANGED <<buf, stack, acks, handled>>

CrcGood ==
    /\ At("check") /\ Size(Top.declared) >= 2
    /\ TRUE \in Verdict(Top.start, Top.declared)
    /\ acks' = Append(acks, <<Top.start, "SUCCESS">>)
    /\ stack' = Goto("callback")
    /\ UNCHANGED <<buf, handled, fault>>

Callback ==
    /\ At("callback")
    /\ handled' = Append(handled, Top.start)
    /\ stack' = Goto("tail")
    /\ UNCHANGED <<buf, acks, fault>>

(* The CRC is wrong: look for another header behind this one. *)
CrcBad ==
    /\ At("check") /\ Size(Top.declared) >= 2
    /\ FALSE \in Verdict(Top.start, Top.declared)
    /\ acks' = Append(acks, <<Top.start, "CRC_ERROR">>)
    /\ stack' = Call("tail", Resync(Top.start, Top.declared))
    /\ UNCHANGED <<buf, handled, fault>>

(* More bytes than the packet declares: go on behind it. *)
More ==
    /\ At("tail") /\ Top.declared < buf.len - Top.start
    /\ stack' = Call("return", AfterFrame(Top.pos, Top.start, Top.declared))
    /\ UNCHANGED <<buf, acks, handled, fault>>

Return ==
    /\ \/ At("tail") /\ Top.declared >= buf.len - Top.start
       \/ At("return")
    /\ stack' = Popped
    /\ UNCHANGED <<buf, acks, handled, fault>>

(* The first call has returned, or the process is dead. *)
Done == (stack = << >> \/ fault # "none") /\ UNCHANGED vars

Next ==
    \/ Found \/ NotFound \/ CrcFault \/ CrcGood \/ Callback \/ CrcBad
    \/ More \/ Return \/ Overflow
    \/ Done

Spec == Init /\ [][Next]_vars

-----------------------------------------------------------------------------
(* Properties.                                                             *)

Pc == {"enter", "check", "callback", "tail", "return"}

TypeOK ==
    /\ IsBuffer(buf)
    /\ stack \in Seq([pos : Nat, start : Nat \cup {-1}, declared : Nat, pc : Pc])
    /\ acks \in Seq(Nat \X {"SUCCESS", "CRC_ERROR"})
    /\ handled \in Seq(Nat)
    /\ fault \in {"none", "crc", "stack"}

Handled == {handled[i] : i \in 1 .. Len(handled)}
NoError == \A i \in 1 .. Len(acks) : acks[i][2] = "SUCCESS"
Over    == stack = << >>

(* The recursion is as deep as the buffer has headers, and one: every      *)
(* activation but the last stands on a header of its own.  So a read of    *)
(* fewer than DEPTH headers, in packets or in their payloads, never        *)
(* overflows the coroutine's stack.                                        *)
DepthBound == Len(stack) <= Cardinality(Header) + 1

(* Without a CRC error, packets are handed over once each, in the order    *)
(* they have in the buffer, each after its acknowledgement.                *)
InOrder ==
    NoError => /\ \A i, j \in 1 .. Len(handled) : i < j => handled[i] < handled[j]
               /\ Len(handled) <= Len(acks)
               /\ \A i \in 1 .. Len(handled) : acks[i][1] = handled[i]

(* Reference: a scan of the buffer that skips a good packet as a whole and *)
(* a bad one by its header, and stops at one that is not all there.  It    *)
(* comes to the first header, and to the next one behind each packet it    *)
(* has come to: the least set of headers with these two properties.        *)
Whole(h)  == h + LENGTH_END <= buf.len /\ h + Size(buf.declared[h]) <= buf.len
Good(h)   == TRUE \in Verdict(h, buf.declared[h])
Onward(h) == IF Good(h) THEN h + Size(buf.declared[h]) ELSE h + 2

Reaches(S, p) == \A g \in Header : IsNext(g, p) => g \in S

Closed(S) == Reaches(S, 0) /\ \A h \in S : Whole(h) => Reaches(S, Onward(h))

Visited == {h \in Header : \A S \in SUBSET Header : Closed(S) => h \in S}
Scan    == {h \in Visited : Whole(h) /\ Good(h)}

(* Resynchronisation loses no packet: when the first call returns, every   *)
(* packet the scan delivers has been handed over, whatever was wrong with  *)
(* the ones around it.                                                     *)
NothingLost == Over => Scan \subseteq Handled

(* In a buffer of whole packets and no CRC error, the scan's packets are   *)
(* all that is handed over: payloads are not searched for headers.         *)
NothingExtra ==
    Over /\ NoError /\ (\A h \in Header : Whole(h)) => Handled \subseteq Scan

(* Reference: what an activation may still cost.  It sees the headers at   *)
(* its position and behind; with a CRC error it goes twice over those      *)
(* behind the first.                                                       *)
Most[n \in Nat] == IF n = 0 THEN 0 ELSE 2 * Most[n - 1] + 1

Seen(pos) == Cardinality({h \in Header : h >= pos})

AcksOf(a) ==
    CASE a.pc = "enter"                -> Most[Seen(a.pos)]
      [] a.pc = "check"                -> 2 * Most[Seen(a.start + 1)] + 1
      [] a.pc \in {"callback", "tail"} -> Most[Seen(a.start + 1)]
      [] a.pc = "return"               -> 0

StepsOf(a) ==
    5 * AcksOf(a) + CASE a.pc \in {"enter", "return"} -> 1
                      [] a.pc = "check"               -> 0
                      [] a.pc = "callback"            -> 4
                      [] a.pc = "tail"                -> 3

Total(cost) == LET t[i \in 0 .. Len(cost)] == IF i = 0 THEN 0 ELSE t[i - 1] + cost[i]
               IN  t[Len(cost)]

AcksLeft  == Total([i \in 1 .. Len(stack) |-> AcksOf(stack[i])])
StepsLeft == Total([i \in 1 .. Len(stack) |-> StepsOf(stack[i])])

(* A header whose length field says 0 or 1, or may seem to; and as many    *)
(* headers as the stack has room for activations.                          *)
Lethal  == \E h \in Header : Declared(h) \cap {0, 1} # {}
Crowded == Cardinality(Header) >= DEPTH

(* handle_packet returns or kills the process, whatever the packets        *)
(* declare and the stack held: each step of the recursion leaves fewer to  *)
(* come (at most one and five times Most of the number of headers), and it *)
(* dies only of a length of 0 or 1, declared or left over where the length *)
(* field is cut off, or of too many headers for its stack.                 *)
Returns ==
    [][stack # << >> => \/ StepsLeft' < StepsLeft
                        \/ fault' = "crc" /\ Lethal
                        \/ fault' = "stack" /\ Crowded]_<<stack, fault>>

(* It writes at most Most of the number of headers acknowledgements, one   *)
(* less than two to that power: with a CRC error both recursive calls run  *)
(* over what is behind the header (easn_server_channel.cpp:245-257).       *)
AckBound == Len(acks) <= Most[Cardinality(Header)]

(* "Then check whether there is another packet"                            *)
(* (easn_server_channel.cpp:252): a packet is handed over once.            *)
HandledOnce == \A i, j \in 1 .. Len(handled) : handled[i] = handled[j] => i = j

(* "First check the length of the packet" (easn_server_channel.cpp:165):   *)
(* no packet below the minimum gets as far as the callback.                *)
LongEnough == At("callback") => Top.declared >= packet_min_size
=============================================================================
