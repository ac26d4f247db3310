----------------------------- MODULE PacketStream -----------------------------
(***************************************************************************)
(* The bytes of one connection, in as many reads as TCP makes of them: the *)
(* loop of server_channel::server_read_write around PacketParser.  Nothing *)
(* is kept from one read to the next, but what handle_packet has left on   *)
(* the coroutine's stack.                                                  *)
(*                                                                         *)
(* A stream is described like a buffer, with the places where a read may   *)
(* end before it does.                                                     *)
(***************************************************************************)
EXTENDS PacketParser

CONSTANT Stream    \* [len, declared, intact, cuts]

(* What a read that begins at i and ends at j yields. *)
Slice(s, i, j) ==
    LET H == {h \in 0 .. j - i - 2 : h + i \in DOMAIN s.declared} IN
    [len      |-> j - i,
     declared |-> [h \in H |-> s.declared[h + i]],
     intact   |-> {h \in H : h + i \in s.intact}]

Ends(s) == s.cuts \cup {s.len}

ASSUME StreamAssumption ==
    \A s \in Stream : Bytes(s) /\ s.cuts \subseteq 1 .. s.len

(* packet_min_size() counts the length field. *)
ASSUME MinimumAssumption == LENGTH_END \in 3 .. packet_min_size

VARIABLES
    stream,    \* what the client sends
    begin,     \* where in it the last read has begun,
    end,       \* and ended
    whole,     \* packets that were in one read as a whole
    got        \* packets handed to the callback

streamVars == <<vars, stream, begin, end, whole, got>>

-----------------------------------------------------------------------------
(* Faults of the helpers below, for the mutants of PROJECT.json.           *)

LongerThanMin(n) == n > packet_min_size

-----------------------------------------------------------------------------
(* ret < packet_min_size() *)
LongEnoughRead(n) == n >= packet_min_size

(* The packets of the stream that bytes i to j hold completely. *)
Inside(i, j) ==
    {h \in DOMAIN stream.declared : i <= h /\ h + stream.declared[h] <= j}

Waiting(n) ==
    /\ stack = << >> /\ fault = "none"
    /\ n \in Ends(stream) /\ end < n /\ n - end <= MAX_SIZE

StreamInit ==
    /\ stream \in Stream
    /\ begin = 0 /\ end = 0
    /\ whole = {} /\ got = << >>
    /\ buf = [len |-> 0, declared |-> << >>, intact |-> {}]
    /\ stack = << >> /\ acks = << >> /\ handled = << >>
    /\ fault = "none"

(* read() returns the bytes up to n, and handle_packet is called, *)
ReadLong(n) ==
    /\ Waiting(n) /\ LongEnoughRead(n - end)
    /\ buf' = Slice(stream, end, n)
    /\ stack' = <<Activation(0)>>
    /\ acks' = << >> /\ handled' = << >>
    /\ begin' = end /\ end' = n
    /\ whole' = whole \cup Inside(end, n)
    /\ UNCHANGED <<stream, got, fault>>

(* or too few of them, which are dropped. *)
ReadShort(n) ==
    /\ Waiting(n) /\ ~LongEnoughRead(n - end)
    /\ begin' = end /\ end' = n
    /\ whole' = whole \cup Inside(end, n)
    /\ UNCHANGED <<vars, stream, got>>

(* handle_packet. *)
Parse ==
    /\ \/ Found \/ NotFound \/ CrcFault \/ CrcGood \/ CrcBad \/ More \/ Return
       \/ Overflow
    /\ UNCHANGED <<stream, begin, end, whole, got>>

HandOver ==
    /\ Callback
    /\ got' = Append(got, begin + Top.start)
    /\ UNCHANGED <<stream, begin, end, whole>>

(* The client has sent everything, or the process is dead. *)
Finished ==
    /\ (stack = << >> /\ end = stream.len) \/ fault # "none"
    /\ UNCHANGED streamVars

StreamNext ==
    \/ \E n \in Ends(stream) : ReadLong(n) \/ ReadShort(n)
    \/ Parse \/ HandOver
    \/ Finished

StreamSpec == StreamInit /\ [][StreamNext]_streamVars

-----------------------------------------------------------------------------
(* Properties.                                                             *)

StreamTypeOK ==
    /\ stack # << >> => TypeOK /\ buf = Slice(stream, begin, end)
    /\ begin \in 0 .. end /\ end \in 0 .. stream.len
    /\ whole \subseteq DOMAIN stream.declared
    /\ got \in Seq(Nat)

Got == {got[i] : i \in 1 .. Len(got)}

(* A stream of undamaged packets one behind the other: no payload looks    *)
(* like a packet.                                                          *)
Flat ==
    LET H == DOMAIN stream.declared IN
    /\ H \subseteq stream.intact
    /\ \A h \in H : stream.declared[h] \in packet_min_size .. MAX_SIZE
    /\ \A g, h \in H : g < h => g + stream.declared[g] <= h

(* The read ends between a header and the end of its length field. *)
CutsLength == \E h \in DOMAIN stream.declared : h + 2 <= end /\ end < h + LENGTH_END

(* However TCP cuts the stream, a cut costs no more than the packet it     *)
(* goes through as long as the process lives: every packet that arrives in *)
(* one piece is handed over, with the end of another one in front of it    *)
(* and the beginning of one behind it (easn_server_channel.cpp:160-185).   *)
(* A cut through a length field may cost the process, when 0 or 1 was left *)
(* over where the field is read: check_crc dies in such a stream of that   *)
(* only.                                                                   *)
CutCostsOne ==
    Flat => /\ stack = << >> => whole \subseteq Got
            /\ fault = "crc" => CutsLength /\ Stale \cap {0, 1} # {}

(* And the rest of a cut packet is no reason to hand one over twice, or    *)
(* after one that was sent later.                                          *)
OnceInOrder == Flat => \A i, j \in 1 .. Len(got) : i < j => got[i] < got[j]
=============================================================================
