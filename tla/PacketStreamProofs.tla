-------------------------- MODULE PacketStreamProofs --------------------------
(***************************************************************************)
(* Proofs about PacketStream, for every stream and every way to cut it.    *)
(*                                                                         *)
(* A step of the parser is a step of PacketParser, and a read begins a     *)
(* buffer, so what holds of every buffer (Inductive) holds between reads   *)
(* and in all of them.                                                     *)
(*                                                                         *)
(* On a stream without damage (Flat) a CRC error means that the packet is  *)
(* cut off, and then it is the last of its read.  So the activations that  *)
(* wait below the top have nothing left to find (Suspended): what has been *)
(* handed over is not ahead of the top one, and every packet that is whole *)
(* and not handed over yet is (Progress).  And a length below the minimum  *)
(* is not the packet's own, so the read ends in its length field (Killed). *)
(***************************************************************************)
EXTENDS PacketStream, PacketParserProofs

(* Before the first read. *)
Fresh == /\ stack = << >> /\ acks = << >> /\ handled = << >>
         /\ fault = "none" /\ Header = {}

Place ==
    /\ stream \in Stream
    /\ end \in 0 .. stream.len /\ begin \in 0 .. end
    /\ whole \subseteq DOMAIN stream.declared
    /\ got \in Seq(Nat)

Window == stack # << >> => buf = Slice(stream, begin, end)

StreamInductive == Place /\ Window /\ (Fresh \/ Inductive)

Last(h)     == \A g \in Header : g <= h
CutOff(h)   == Last(h) /\ begin + h \notin Inside(begin, end)
Skips(h, d) == \A g \in Header : g > h => g >= h + Size(d)

(* What the activation has still to come to. *)
Ahead(a, x) ==
    \/ a.pc = "enter" /\ x >= begin + a.pos
    \/ a.pc \in {"check", "callback"} /\ x >= begin + a.start
    \/ a.pc = "tail" /\ x > begin + a.start

Sound(a) ==
    /\ a.pc \in {"check", "callback", "tail"} => Skips(a.start, a.declared)
    /\ a.pc = "check" =>
          (FALSE \in Verdict(a.start, a.declared) => CutOff(a.start))

Suspended(a) == a.pc = "return" \/ (a.pc = "tail" /\ Last(a.start))

Callees == \A i \in 1 .. Len(stack) : i < Len(stack) => Suspended(stack[i])

Ascending == \A i, j \in 1 .. Len(got) : i < j => got[i] < got[j]
Inner     == \A g \in Got : g >= begin => g - begin \in Header
Behind    == \A g \in Got : ~Ahead(Top, g)
Missing   == whole \ Got

Progress ==
    /\ Ascending
    /\ \A g \in Got : g < end
    /\ stack # << >> => Inner /\ Behind /\ Sound(Top) /\ Callees
    /\ \A w \in Missing : stack # << >> /\ w \in Inside(begin, end) /\ Ahead(Top, w)

-----------------------------------------------------------------------------
(* A read is a buffer. *)
LEMMA SliceFacts ==
    ASSUME NEW s \in Stream, NEW j \in 0 .. s.len, NEW i \in 0 .. j,
           j - i \in packet_min_size .. MAX_SIZE
    PROVE  IsBuffer(Slice(s, i, j))
  <1>1. /\ s.len \in Nat
        /\ DOMAIN s.declared \subseteq 0 .. s.len - 2
        /\ s.declared \in [DOMAIN s.declared -> Nat]
        /\ s.intact \subseteq DOMAIN s.declared
    BY StreamAssumption DEF Bytes
  <1> DEFINE H == {h \in 0 .. j - i - 2 : h + i \in DOMAIN s.declared}
             b == Slice(s, i, j)
  <1>2. /\ b.len = j - i /\ b.declared = [h \in H |-> s.declared[h + i]]
        /\ b.intact = {h \in H : h + i \in s.intact}
    BY DEF Slice
  <1>3. DOMAIN b.declared = H
    BY <1>2
  <1>4. \A h \in H : s.declared[h + i] \in Nat
    BY <1>1
  <1>5. b.declared \in [H -> Nat]
    BY <1>2, <1>4
  <1>6. b.len \in Nat /\ H \subseteq 0 .. b.len - 2
    BY <1>1, <1>2
  <1> HIDE DEF b, H
  <1>7. b.intact \subseteq H
    BY <1>2
  <1>8. Bytes(b)
    BY <1>3, <1>5, <1>6, <1>7 DEF Bytes
  <1> QED
    BY <1>2, <1>8 DEF IsBuffer, b

(* Before the first read there is nothing to show. *)
LEMMA FreshFollows == Fresh => DepthBound /\ InOrder
  <1>1. Fresh => DepthBound
    BY FS_EmptySet, EmptySeq DEF Fresh, DepthBound
  <1>2. Fresh => InOrder
    BY EmptySeq DEF Fresh, InOrder
  <1> QED
    BY <1>1, <1>2

(* What the next step does to the parser. *)
LEMMA ParserStep ==
    ASSUME [StreamNext]_streamVars, StreamInductive
    PROVE  \/ UNCHANGED vars
           \/ Next /\ UNCHANGED <<stream, begin, end, whole>> /\ stack # << >>
           \/ Begun' /\ \E n \in Ends(stream) : ReadLong(n)
  <1>1. ASSUME NEW n \in Ends(stream), ReadLong(n) PROVE Begun'
    <2>1. /\ stack' = <<Activation(0)>> /\ acks' = << >> /\ handled' = << >>
          /\ fault' = "none" /\ buf' = Slice(stream, end, n)
      BY <1>1 DEF ReadLong, Waiting, StreamInductive, Fresh, Inductive, Bound, TypeOK
    <2>2. stream \in Stream /\ end \in 0 .. stream.len
      BY DEF StreamInductive, Place
    <2>3. stream.len \in Nat /\ stream.cuts \subseteq 1 .. stream.len
      BY <2>2, StreamAssumption DEF Bytes
    <2>4. n \in 0 .. stream.len /\ end \in 0 .. n /\ n - end \in packet_min_size .. MAX_SIZE
      BY <1>1, <2>2, <2>3, SizeAssumption DEF ReadLong, Waiting, LongEnoughRead, Ends
    <2>5. IsBuffer(Slice(stream, end, n))
      BY <2>2, <2>4, SliceFacts
    <2>6. IsBuffer(buf')
      BY <2>1, <2>5
    <2>7. IsBuffer(buf)'
      BY <2>6 DEF IsBuffer, Bytes
    <2> QED
      BY <2>1, <2>7 DEF Begun, Activation
  <1>2. Parse => Next /\ UNCHANGED <<stream, begin, end, whole>> /\ stack # << >>
    BY DEF Parse, Next, Found, NotFound, CrcFault, CrcGood, CrcBad, More, Return,
           Overflow, At
  <1>3. HandOver => Next /\ UNCHANGED <<stream, begin, end, whole>> /\ stack # << >>
    BY DEF HandOver, Next, Callback, At
  <1>4. ASSUME NEW n \in Ends(stream), ReadShort(n) PROVE UNCHANGED vars
    BY <1>4 DEF ReadShort
  <1>5. Finished \/ UNCHANGED streamVars => UNCHANGED vars
    BY DEF Finished, streamVars
  <1> QED
    BY <1>1, <1>2, <1>3, <1>4, <1>5 DEF StreamNext

(* The client's stream, and how far it was read. *)
LEMMA PlaceStep ==
    ASSUME StreamInductive, [StreamNext]_streamVars
    PROVE  Place'
  <1>1. /\ stream \in Stream /\ end \in 0 .. stream.len /\ begin \in 0 .. end
        /\ whole \subseteq DOMAIN stream.declared /\ got \in Seq(Nat)
    BY DEF StreamInductive, Place
  <1>2. stream.len \in Nat /\ stream.cuts \subseteq 1 .. stream.len
    BY <1>1, StreamAssumption DEF Bytes
  <1>3. ASSUME NEW n \in Ends(stream), ReadLong(n) \/ ReadShort(n) PROVE Place'
    <2>1. /\ stream' = stream /\ got' = got /\ end < n /\ end' = n /\ begin' = end
          /\ whole' = whole \cup Inside(end, n)
      BY <1>3 DEF ReadLong, ReadShort, Waiting
    <2>2. n \in 0 .. stream.len /\ end \in 0 .. n
      BY <1>1, <1>2, <2>1 DEF Ends
    <2>3. whole' \subseteq DOMAIN stream.declared
      BY <1>1, <2>1 DEF Inside
    <2> QED
      BY <1>1, <2>1, <2>2, <2>3 DEF Place
  <1>4. CASE Parse
    BY <1>1, <1>4 DEF Parse, Place
  <1>5. CASE HandOver
    <2>1. At("callback") /\ Bound
      BY <1>5 DEF HandOver, Callback, StreamInductive, Fresh, At, Inductive
    <2>2. Top.start \in Nat
      BY <2>1, StartFacts
    <2>3. begin + Top.start \in Nat
      BY <1>1, <1>2, <2>2
    <2>4. got' \in Seq(Nat)
      BY <1>1, <1>5, <2>3, AppendProperties DEF HandOver
    <2> QED
      BY <1>1, <1>5, <2>4 DEF HandOver, Place
  <1>6. CASE Finished \/ UNCHANGED streamVars
    BY <1>1, <1>6 DEF Finished, streamVars, Place
  <1> QED
    BY <1>3, <1>4, <1>5, <1>6 DEF StreamNext

(* The parser leaves the buffer alone. *)
LEMMA BufferStays == Next => buf' = buf
  BY DEF Next, Found, NotFound, CrcFault, CrcGood, Callback, CrcBad, More, Return,
         Overflow, Done, vars

(* The invariant of the stream is preserved. *)
LEMMA StreamStep ==
    ASSUME StreamInductive, [StreamNext]_streamVars
    PROVE  StreamInductive'
  <1>1. Place'
    BY PlaceStep
  <1>2. CASE UNCHANGED vars
    <2>1. Fresh \/ Inductive => (Fresh \/ Inductive)'
      <3>1. Inductive => Inductive'
        BY <1>2, InductiveStep
      <3>2. Fresh => Fresh'
        BY <1>2 DEF Fresh, Header, vars
      <3> QED
        BY <3>1, <3>2
    <2>2. Window'
      <3>1. stack' = stack /\ buf' = buf
        BY <1>2 DEF vars
      <3>2. stack # << >> => begin' = begin /\ end' = end /\ stream' = stream
        BY DEF StreamNext, ReadLong, ReadShort, Waiting, Parse, HandOver, Finished, streamVars
      <3> QED
        BY <3>1, <3>2 DEF Window, StreamInductive
    <2> QED
      BY <1>1, <2>1, <2>2 DEF StreamInductive
  <1>3. CASE Next /\ UNCHANGED <<stream, begin, end, whole>> /\ stack # << >>
    <2>1. Inductive'
      BY <1>3, InductiveStep DEF StreamInductive, Fresh
    <2>2. Window'
      BY <1>3, BufferStays DEF Window, StreamInductive
    <2> QED
      BY <1>1, <2>1, <2>2 DEF StreamInductive
  <1>4. CASE Begun' /\ \E n \in Ends(stream) : ReadLong(n)
    <2>1. Begun' => Inductive'
      BY Beginning, PTL
    <2>2. Window'
      BY <1>4 DEF ReadLong, Window
    <2> QED
      BY <1>1, <1>4, <2>1, <2>2 DEF StreamInductive
  <1> QED
    BY <1>2, <1>3, <1>4, ParserStep

(* Before, between and in the reads, the parser is in a state that the     *)
(* proofs about one buffer cover.                                          *)
THEOREM StreamInvariant == StreamSpec => []StreamInductive
  <1>1. StreamInit => StreamInductive
    <2> SUFFICES ASSUME StreamInit PROVE StreamInductive
      OBVIOUS
    <2>1. stream \in Stream /\ stream.len \in Nat
      BY StreamAssumption DEF StreamInit, Bytes
    <2> QED
      BY <2>1, EmptySeq DEF StreamInit, StreamInductive, Place, Window, Fresh, Header
  <1> QED
    BY <1>1, StreamStep, PTL DEF StreamSpec

(* What is parsed is the bytes of the last read and nothing of the reads   *)
(* before it.                                                              *)
THEOREM StreamTypeCorrect == StreamSpec => []StreamTypeOK
  <1>1. StreamInductive => StreamTypeOK
    BY DEF StreamInductive, Place, Window, Fresh, Inductive, Bound, StreamTypeOK
  <1> QED
    BY <1>1, StreamInvariant, PTL

(* The recursion is bounded, and packets of a read without CRC error are   *)
(* handed over in order, in every read of the stream.                      *)
THEOREM StreamReads == StreamSpec => [](DepthBound /\ InOrder)
  <1>1. StreamInductive => DepthBound /\ InOrder
    BY FreshFollows, DepthFollows, OrderFollows DEF StreamInductive
  <1> QED
    BY <1>1, StreamInvariant, PTL

(* Before the first read the buffer is empty. *)
Scanned == Fresh \/ Complete

(* The comparison with the scan, read by read. *)
LEMMA ScannedStep ==
    ASSUME StreamInductive, Scanned, [StreamNext]_streamVars
    PROVE  Scanned'
  <1>1. CASE UNCHANGED vars
    <2>1. Fresh => Fresh'
      BY <1>1 DEF Fresh, Header, vars
    <2>2. CASE Complete /\ Inductive
      BY <1>1, <2>2, CompleteStep DEF Scanned
    <2>3. CASE Complete /\ Fresh
      <3>1. UNCHANGED <<buf, stack, acks, handled>>
        BY <1>1 DEF vars
      <3>2. Lossless'
        BY <2>3, <3>1, LosslessSame DEF Complete
      <3>3. NoError' /\ (\A h \in Header : Whole(h))' => Contained'
        BY <2>3, <3>1, ScanStays DEF Complete, NoError, Contained, Handled, Fresh
      <3> QED
        BY <3>2, <3>3 DEF Scanned, Complete
    <2> QED
      BY <2>1, <2>2, <2>3 DEF Scanned, StreamInductive
  <1>2. CASE Next /\ stack # << >>
    <2>1. Complete /\ Inductive
      BY <1>2 DEF Scanned, StreamInductive, Fresh
    <2> QED
      BY <1>2, <2>1, CompleteStep DEF Scanned
  <1>3. CASE Begun'
    <2>1. Begun' => Complete'
      BY CompleteBeginning, PTL
    <2> QED
      BY <1>3, <2>1 DEF Scanned
  <1> QED
    BY <1>1, <1>2, <1>3, ParserStep

(* The comparison holds in every read. *)
THEOREM ScannedInvariant == StreamSpec => []Scanned
  <1>1. StreamInit => Scanned
    BY EmptySeq DEF StreamInit, Scanned, Fresh, Header
  <1> QED
    BY <1>1, ScannedStep, StreamInvariant, PTL DEF StreamSpec

(* In every read of the stream, every packet the scan of its bytes         *)
(* delivers is handed over, and in a read without damage no other one.     *)
THEOREM StreamScanned == StreamSpec => [](NothingLost /\ NothingExtra)
  <1>1. Scanned => NothingLost /\ NothingExtra
    <2>1. ASSUME Header = {} PROVE Scan = {}
      BY <2>1 DEF Scan, Visited
    <2>2. Fresh => Handled = {}
      BY EmptySeq DEF Fresh, Handled
    <2> QED
      BY <2>1, <2>2, NothingFollows DEF Scanned, Fresh, NothingLost, NothingExtra
  <1> QED
    BY <1>1, ScannedInvariant, PTL

-----------------------------------------------------------------------------
(* The packets of a read of a flat stream. *)
LEMMA ReadFacts ==
    ASSUME StreamInductive, stack # << >>
    PROVE  /\ Bound
           /\ begin \in Nat /\ end \in Nat /\ buf.len = end - begin
           /\ buf.len \in Nat /\ buf.len <= MAX_SIZE
           /\ \A h \in Header : /\ h \in Nat /\ h <= buf.len - 2
                                /\ begin + h \in DOMAIN stream.declared
                                /\ buf.declared[h] = stream.declared[begin + h]
           /\ buf.intact = {h \in Header : begin + h \in stream.intact}
           /\ \A x \in DOMAIN stream.declared :
                  x >= begin /\ x - begin <= buf.len - 2 => x - begin \in Header
  <1>1. Bound /\ buf = Slice(stream, begin, end)
    BY DEF StreamInductive, Window, Fresh, Inductive
  <1>2. /\ stream \in Stream /\ stream.len \in Nat
        /\ end \in 0 .. stream.len /\ begin \in 0 .. end
        /\ DOMAIN stream.declared \subseteq 0 .. stream.len - 2
    BY StreamAssumption DEF StreamInductive, Place, Bytes
  <1> DEFINE H == {h \in 0 .. end - begin - 2 : h + begin \in DOMAIN stream.declared}
  <1>3. /\ buf.len = end - begin /\ buf.declared = [h \in H |-> stream.declared[h + begin]]
        /\ buf.intact = {h \in H : h + begin \in stream.intact}
    BY <1>1 DEF Slice
  <1>4. Header = H
    BY <1>3 DEF Header
  <1>5. begin \in Nat /\ end \in Nat /\ buf.len \in Nat /\ buf.len <= MAX_SIZE
    BY <1>1, <1>2, <1>3, SizeAssumption DEF Bound, TypeOK, IsBuffer
  <1>6. \A h \in Header : /\ h \in Nat /\ h <= buf.len - 2
                           /\ begin + h \in DOMAIN stream.declared
                           /\ buf.declared[h] = stream.declared[begin + h]
    <2> TAKE h \in Header
    <2>1. h \in 0 .. end - begin - 2 /\ h + begin \in DOMAIN stream.declared
      BY <1>4
    <2>2. h + begin = begin + h
      BY <1>5, <2>1
    <2>3. buf.declared[h] = stream.declared[h + begin]
      BY <1>3, <1>4
    <2> QED
      BY <1>3, <1>5, <2>1, <2>2, <2>3
  <1>7. \A h \in Header : h + begin = begin + h
    BY <1>5, <1>6
  <1>8. buf.intact = {h \in Header : begin + h \in stream.intact}
    BY <1>3, <1>4, <1>7
  <1>9. ASSUME NEW x \in DOMAIN stream.declared, x >= begin, x - begin <= buf.len - 2
        PROVE  x - begin \in Header
    <2>1. x \in Nat /\ x - begin \in 0 .. end - begin - 2 /\ (x - begin) + begin = x
      BY <1>2, <1>3, <1>5, <1>9
    <2> QED
      BY <1>4, <2>1
  <1> QED
    BY <1>1, <1>3, <1>5, <1>6, <1>8, <1>9

(* A flat stream: its packets do not overlap. *)
LEMMA FlatFacts ==
    ASSUME StreamInductive, Flat
    PROVE  /\ \A x \in DOMAIN stream.declared :
                  /\ x \in Nat /\ x \in stream.intact
                  /\ stream.declared[x] \in Nat
                  /\ stream.declared[x] >= packet_min_size
                  /\ stream.declared[x] <= MAX_SIZE
           /\ \A x, y \in DOMAIN stream.declared :
                  x < y => x + stream.declared[x] <= y
           /\ \A i, j \in Nat : \A x \in Inside(i, j) :
                  /\ x \in DOMAIN stream.declared /\ i <= x
                  /\ x + stream.declared[x] <= j /\ x <= j - 3
  <1>1. /\ stream \in Stream /\ stream.len \in Nat
        /\ DOMAIN stream.declared \subseteq 0 .. stream.len - 2
    BY StreamAssumption DEF StreamInductive, Place, Bytes
  <1>2. \A x \in DOMAIN stream.declared :
          /\ x \in Nat /\ x \in stream.intact
          /\ stream.declared[x] \in Nat
          /\ stream.declared[x] >= packet_min_size
          /\ stream.declared[x] <= MAX_SIZE
    BY <1>1, SizeAssumption DEF Flat
  <1>3. packet_min_size >= 3
    BY MinimumAssumption, SizeAssumption
  <1>4. \A i, j \in Nat : \A x \in Inside(i, j) :
          /\ x \in DOMAIN stream.declared /\ i <= x
          /\ x + stream.declared[x] <= j /\ x <= j - 3
    BY <1>2, <1>3, SizeAssumption DEF Inside
  <1> QED
    BY <1>2, <1>4 DEF Flat

(* What is found at a header that arrived with its packet, and without it. *)
LEMMA FoundSound ==
    ASSUME StreamInductive, Flat, stack # << >>, NEW h \in Header, NEW d \in Declared(h)
    PROVE  /\ Skips(h, d)
           /\ FALSE \in Verdict(h, d) => CutOff(h)
  <1> DEFINE n == stream.declared[begin + h]
  <1>1. /\ h \in Nat /\ begin \in Nat /\ end \in Nat /\ buf.len = end - begin
        /\ begin + h \in DOMAIN stream.declared /\ buf.declared[h] = n
    BY ReadFacts
  <1>2. n \in Nat /\ n >= packet_min_size /\ n <= MAX_SIZE
    BY <1>1, FlatFacts
  <1>3. \A g \in Header : g \in Nat /\ g <= buf.len - 2 /\ (g > h => g >= h + n)
    <2> TAKE g \in Header
    <2>1. g \in Nat /\ g <= buf.len - 2 /\ begin + g \in DOMAIN stream.declared
      BY ReadFacts
    <2>2. begin + h < begin + g => begin + h + n <= begin + g
      BY <1>1, <2>1, FlatFacts
    <2> HIDE DEF n
    <2> QED
      BY <1>1, <1>2, <2>1, <2>2
  <1>4. /\ packet_min_size \in Nat /\ LENGTH_END \in Nat /\ MAX_SIZE \in Nat
        /\ LENGTH_END >= 3 /\ packet_min_size >= LENGTH_END
    BY MinimumAssumption, SizeAssumption
  <1>5. begin + h \in Inside(begin, end) => h + n <= buf.len
    <2>1. begin + h \in Inside(begin, end) => begin + h + n <= end
      BY <1>1 DEF Inside
    <2> HIDE DEF n
    <2> QED
      BY <1>1, <1>2, <2>1
  <1>6. CASE h + n <= buf.len
    <2>1. d = n /\ Size(d) = n
      BY <1>1, <1>2, <1>4, <1>6 DEF Declared, Size
    <2>2. h \in buf.intact
      <3>1. begin + h \in stream.intact
        BY <1>1, FlatFacts
      <3> QED
        BY <3>1, ReadFacts
    <2>3. FALSE \notin Verdict(h, d)
      <3>1. d >= 3 /\ ~(d < 3) /\ h + Size(d) <= buf.len
        BY <1>2, <1>4, <1>6, <2>1
      <3>2. Verdict(h, d) = {h \in buf.intact}
        BY <3>1, Zenon DEF Verdict
      <3> QED
        BY <2>2, <3>2, Zenon
    <2> QED
      BY <1>3, <2>1, <2>3 DEF Skips
  <1>7. CASE h + n > buf.len
    <2>1. Last(h)
      BY <1>1, <1>2, <1>3, <1>7 DEF Last
    <2>2. CutOff(h)
      BY <1>1, <1>2, <1>5, <1>7, <2>1 DEF CutOff
    <2>3. Skips(h, d)
      BY <1>1, <1>3, <2>1 DEF Last, Skips
    <2> QED
      BY <2>2, <2>3
  <1>8. h + n <= buf.len \/ h + n > buf.len
    BY <1>1, <1>2
  <1> QED
    BY <1>6, <1>7, <1>8

(* Packets that are missing can still be found. *)
LEMMA MissingFacts ==
    ASSUME StreamInductive, Flat, Progress, stack # << >>
    PROVE  \A w \in Missing : /\ w \in Nat /\ w - begin \in Header /\ Ahead(Top, w)
                              /\ w \in Inside(begin, end)
  <1> TAKE w \in Missing
  <1>1. w \in Inside(begin, end) /\ Ahead(Top, w)
    BY DEF Progress
  <1>2. begin \in Nat /\ end \in Nat /\ buf.len = end - begin
    BY ReadFacts
  <1>3. w \in DOMAIN stream.declared /\ begin <= w /\ w <= end - 3
    BY <1>1, <1>2, FlatFacts
  <1>4. w \in Nat
    BY <1>3, FlatFacts
  <1>5. w - begin \in Header
    BY <1>2, <1>3, <1>4, ReadFacts
  <1> QED
    BY <1>1, <1>4, <1>5

-----------------------------------------------------------------------------
(* A step that hands nothing over keeps Progress when the new top still    *)
(* comes to all that is missing, and to nothing that was handed over.      *)
LEMMA ProgressStays ==
    ASSUME Progress, stack # << >>, stack' # << >>,
           UNCHANGED <<buf, stream, begin, end, whole, got>>,
           \A x \in Got : ~Ahead(Top, x) => ~Ahead(Top', x),
           \A x \in Missing : Ahead(Top, x) => Ahead(Top', x),
           Sound(Top'), Callees'
    PROVE  Progress'
  <1>1. /\ Got' = Got /\ Missing' = Missing /\ Header' = Header
        /\ Inside(begin, end)' = Inside(begin, end)
    BY DEF Got, Missing, Header, Inside
  <1>2. Ascending' /\ (\A g \in Got : g < end)'
    BY <1>1 DEF Progress, Ascending
  <1>3. Inner' /\ Behind'
    BY <1>1 DEF Progress, Inner, Behind, Ahead
  <1>4. Sound(Top)'
    BY DEF Sound, Skips, CutOff, Last, Verdict, Size, Inside, Header
  <1>5. (\A w \in Missing : stack # << >> /\ w \in Inside(begin, end) /\ Ahead(Top, w))'
    BY <1>1 DEF Progress, Ahead
  <1> QED
    BY <1>2, <1>3, <1>4, <1>5 DEF Progress

(* A return keeps it when nothing is missing. *)
LEMMA ProgressPopped ==
    ASSUME StreamInductive, Progress, NEW w, At(w), stack' = Popped, Missing = {},
           UNCHANGED <<buf, stream, begin, end, whole, got>>
    PROVE  Progress'
  <1>0. stack # << >> /\ Bound /\ begin \in Nat
    BY ReadFacts DEF At
  <1>1. /\ Len(stack) \in Nat /\ Len(stack') = Len(stack) - 1
        /\ \A i \in 1 .. Len(stack') : i < Len(stack) /\ stack'[i] = stack[i]
        /\ stack' # << >> => /\ Len(stack') \in 1 .. Len(stack)
                            /\ Len(stack') < Len(stack)
                            /\ Top' = stack[Len(stack')]
    BY <1>0, ShapePopped
  <1>2. CASE stack' = << >>
    <2>1. Got' = Got /\ Missing' = {}
      BY DEF Got, Missing
    <2> QED
      BY <1>2, <2>1 DEF Progress, Ascending
  <1>3. CASE stack' # << >>
    <2> DEFINE a == stack[Len(stack')]
    <2>1. Top' = a /\ Suspended(a) /\ FrameOK(Len(stack')) /\ a \in Act
      <3>1. Len(stack') \in 1 .. Len(stack) /\ Len(stack') < Len(stack)
        BY <1>1, <1>3
      <3>2. Suspended(a)
        BY <1>0, <3>1 DEF Progress, Callees
      <3>3. FrameOK(Len(stack'))
        BY <1>0, <3>1 DEF Bound, Frames
      <3>4. a \in Act
        BY <1>0, <3>1, ElementOfSeq DEF Bound, TypeOK, Act
      <3> QED
        BY <1>1, <1>3, <3>2, <3>3, <3>4
    <2>2. a.pc = "tail" => a.start \in Header /\ a.start \in Nat
      <3>1. a.pc = "tail" => a.start \in Header
        BY <2>1 DEF FrameOK
      <3> QED
        BY <3>1, <1>0, ReadFacts
    <2> HIDE DEF a
    <2>3. Sound(a)
      <3>1. \A g \in Header : g \in Nat
        BY <1>0, ReadFacts
      <3>2. a.pc = "tail" => Skips(a.start, a.declared)
        BY <2>1, <2>2, <3>1 DEF Suspended, Last, Skips
      <3> QED
        BY <2>1, <3>2 DEF Sound, Suspended
    <2>4. ASSUME NEW x \in Got PROVE ~Ahead(a, x)
      <3>1. CASE a.pc = "return"
        BY <3>1 DEF Ahead
      <3>2. CASE a.pc = "tail" /\ Last(a.start)
        <4>1. x \in Nat
          <5>1. got \in Seq(Nat)
            BY DEF StreamInductive, Place
          <5> QED
            BY <5>1, ElementOfSeq DEF Got
        <4>2. x >= begin => x - begin \in Header
          BY <1>0 DEF Progress, Inner
        <4>3. x >= begin => x - begin <= a.start
          BY <3>2, <4>2 DEF Last
        <4>4. x <= begin + a.start
          BY <1>0, <2>2, <3>2, <4>1, <4>3
        <4> QED
          BY <1>0, <2>2, <3>2, <4>1, <4>4 DEF Ahead
      <3> QED
        BY <2>1, <3>1, <3>2 DEF Suspended
    <2>5. Callees'
      <3>1. \A i \in 1 .. Len(stack') : i \in 1 .. Len(stack)
        BY <1>1
      <3>2. \A i \in 1 .. Len(stack') : Suspended(stack[i])
        BY <1>0, <1>1, <3>1 DEF Progress, Callees
      <3> QED
        BY <1>1, <3>2 DEF Callees, Suspended, Last, Header
    <2> QED
      BY <1>0, <1>3, <2>1, <2>3, <2>4, <2>5, ProgressStays
  <1> QED
    BY <1>2, <1>3

-----------------------------------------------------------------------------
(* Steps of the parser. *)
LEMMA ProgressFound ==
    ASSUME StreamInductive, Flat, Progress, Found,
           UNCHANGED <<buf, stream, begin, end, whole, got>>
    PROVE  Progress'
  <1>1. At("enter") /\ stack # << >> /\ Top.pc = "enter"
    BY DEF Found, At
  <1>2. Bound /\ begin \in Nat /\ (\A h \in Header : h \in Nat)
    BY <1>1, ReadFacts
  <1>3. Top \in Act
    BY <1>1, <1>2, TopFacts
  <1>4. /\ stack' # << >> /\ Len(stack') = Len(stack)
        /\ \A i \in 1 .. Len(stack) : i < Len(stack) => stack'[i] = stack[i]
        /\ Top'.pc = "check" /\ Top'.start \in Header
        /\ IsNext(Top'.start, Top.pos) /\ Top'.declared \in Declared(Top'.start)
    BY <1>2, ShapeFound
  <1>5. PICK h \in Header : h = Top'.start /\ h \in Nat /\ IsNext(h, Top.pos)
    BY <1>2, <1>4
  <1>6. Top.pos \in Nat
    BY <1>3 DEF Act
  <1>7. \A x \in Got : ~Ahead(Top, x) => ~Ahead(Top', x)
    <2>1. \A x \in Got : x \in Nat
      <3>1. got \in Seq(Nat)
        BY DEF StreamInductive, Place
      <3> QED
        BY <3>1, ElementOfSeq DEF Got
    <2>2. h >= Top.pos
      BY <1>5 DEF IsNext
    <2> QED
      BY <1>1, <1>2, <1>4, <1>5, <1>6, <2>1, <2>2 DEF Ahead
  <1>8. \A x \in Missing : Ahead(Top, x) => Ahead(Top', x)
    <2> TAKE x \in Missing
    <2> HAVE Ahead(Top, x)
    <2>1. x \in Nat /\ x - begin \in Header
      BY <1>1, MissingFacts
    <2>2. x >= begin + Top.pos
      BY <1>1 DEF Ahead
    <2>3. h <= x - begin
      BY <1>2, <1>5, <1>6, <2>1, <2>2 DEF IsNext
    <2> QED
      BY <1>2, <1>4, <1>5, <2>1, <2>3 DEF Ahead
  <1>9. Sound(Top')
    <2>1. Skips(Top'.start, Top'.declared)
      BY <1>1, <1>4, FoundSound
    <2>2. FALSE \in Verdict(Top'.start, Top'.declared) => CutOff(Top'.start)
      BY <1>1, <1>4, FoundSound
    <2> QED
      BY <2>1, <2>2 DEF Sound
  <1>10. Callees'
    BY <1>1, <1>4 DEF Progress, Callees, Suspended, Last, Header
  <1> QED
    BY <1>1, <1>4, <1>7, <1>8, <1>9, <1>10, ProgressStays

(* Progress when the top activation calls itself, ... *)
LEMMA ProgressCalled ==
    ASSUME StreamInductive, Progress, NEW w, At(w), NEW v \in {"tail", "return"},
           NEW p \in Nat, stack' = Call(v, p), v = "tail" => Last(Top.start),
           UNCHANGED <<buf, stream, begin, end, whole, got>>,
           \A x \in Got : ~Ahead(Top, x) => x < begin + p,
           \A x \in Missing : Ahead(Top, x) => x >= begin + p
    PROVE  Progress'
  <1>1. stack # << >> /\ Bound /\ begin \in Nat /\ v \in Pc
    BY ReadFacts DEF At, Pc
  <1>2. /\ stack' # << >> /\ Len(stack) \in Nat /\ Len(stack') = Len(stack) + 1
        /\ \A i \in 1 .. Len(stack) : i < Len(stack) => stack'[i] = stack[i]
        /\ stack'[Len(stack)].pc = v /\ stack'[Len(stack)].start = Top.start
        /\ Top'.pc = "enter" /\ Top'.pos = p
    BY <1>1, ShapeCalled
  <1>3. Sound(Top')
    BY <1>2 DEF Sound
  <1>4. \A x \in Got : x \in Nat
    <2>1. got \in Seq(Nat)
      BY DEF StreamInductive, Place
    <2> QED
      BY <2>1, ElementOfSeq DEF Got
  <1>5. \A x \in Got : ~Ahead(Top, x) => ~Ahead(Top', x)
    BY <1>1, <1>2, <1>4 DEF Ahead
  <1>6. \A x \in Missing : Ahead(Top, x) => Ahead(Top', x)
    BY <1>2 DEF Ahead
  <1>7. ASSUME NEW i \in 1 .. Len(stack'), i < Len(stack') PROVE Suspended(stack[i])'
    <2>1. CASE i < Len(stack)
      <3>1. i \in 1 .. Len(stack) /\ stack'[i] = stack[i]
        BY <1>2, <2>1
      <3>2. Suspended(stack[i])
        BY <1>1, <2>1, <3>1 DEF Progress, Callees
      <3> QED
        BY <3>1, <3>2 DEF Suspended, Last, Header
    <2>2. CASE i = Len(stack)
      BY <1>2, <2>2 DEF Suspended, Last, Header
    <2> QED
      BY <1>2, <1>7, <2>1, <2>2
  <1>8. Callees'
    BY <1>7 DEF Callees
  <1> QED
    BY <1>1, <1>2, <1>3, <1>5, <1>6, <1>8, ProgressStays

(* ... behind a CRC that is right, ... *)
LEMMA ProgressMoved ==
    ASSUME StreamInductive, Flat, Progress, CrcGood,
           UNCHANGED <<buf, stream, begin, end, whole, got>>
    PROVE  Progress'
  <1>1. At("check") /\ stack' = Goto("callback") /\ "callback" \in Pc
    BY DEF CrcGood, Pc
  <1>2. stack # << >> /\ Bound /\ Top.pc = "check"
    BY <1>1, ReadFacts DEF At
  <1>3. /\ stack' # << >> /\ Len(stack') = Len(stack)
        /\ \A i \in 1 .. Len(stack) : i < Len(stack) => stack'[i] = stack[i]
        /\ Top'.pc = "callback" /\ Top'.start = Top.start /\ Top'.declared = Top.declared
    BY <1>1, <1>2, ShapeMoved
  <1>4. Sound(Top')
    BY <1>2, <1>3 DEF Progress, Sound
  <1>5. \A x : Ahead(Top, x) <=> Ahead(Top', x)
    BY <1>2, <1>3 DEF Ahead
  <1>6. Callees'
    BY <1>2, <1>3 DEF Progress, Callees, Suspended, Last, Header
  <1> QED
    BY <1>2, <1>3, <1>4, <1>5, <1>6, ProgressStays

(* A CRC error: the packet is cut off, nothing is missing behind it. *)
LEMMA ProgressBad ==
    ASSUME StreamInductive, Flat, Progress, CrcBad,
           UNCHANGED <<buf, stream, begin, end, whole, got>>
    PROVE  Progress'
  <1>1. /\ At("check") /\ stack' = Call("tail", Top.start + 2)
        /\ FALSE \in Verdict(Top.start, Top.declared)
    BY DEF CrcBad, Resync
  <1>2. stack # << >> /\ Bound /\ Top.pc = "check" /\ begin \in Nat
    BY <1>1, ReadFacts DEF At
  <1>3. CutOff(Top.start)
    BY <1>1, <1>2 DEF Progress, Sound
  <1>4. Top.start \in Nat
    BY <1>1, <1>2, StartFacts
  <1>5. ASSUME NEW x \in Missing PROVE FALSE
    <2>1. x \in Nat /\ x - begin \in Header /\ Ahead(Top, x) /\ x \in Inside(begin, end)
      BY <1>2, MissingFacts
    <2>2. x >= begin + Top.start /\ x - begin <= Top.start
      BY <1>2, <1>3, <2>1 DEF Ahead, CutOff, Last
    <2>3. x = begin + Top.start
      BY <1>2, <1>4, <2>1, <2>2
    <2> QED
      BY <1>3, <2>1, <2>3 DEF CutOff
  <1>6. \A x \in Got : ~Ahead(Top, x) => x < begin + (Top.start + 2)
    <2>1. got \in Seq(Nat)
      BY DEF StreamInductive, Place
    <2>2. \A x \in Got : x \in Nat
      BY <2>1, ElementOfSeq DEF Got
    <2> QED
      BY <1>2, <1>4, <2>2 DEF Ahead
  <1>7. Last(Top.start) /\ Top.start + 2 \in Nat
    BY <1>3, <1>4 DEF CutOff
  <1> QED
    BY <1>1, <1>5, <1>6, <1>7, ProgressCalled

(* ... when there is more behind the packet, ... *)
LEMMA ProgressMore ==
    ASSUME StreamInductive, Flat, Progress, More,
           UNCHANGED <<buf, stream, begin, end, whole, got>>
    PROVE  Progress'
  <1> DEFINE p == Top.start + Size(Top.declared)
  <1>1. At("tail") /\ stack' = Call("return", p)
    BY DEF More, AfterFrame
  <1>2. stack # << >> /\ Bound /\ Top.pc = "tail" /\ begin \in Nat
    BY <1>1, ReadFacts DEF At
  <1>3. Top.start \in Nat /\ p \in Nat /\ p >= Top.start + 2
    BY <1>1, <1>2, StartFacts
  <1>4. \A g \in Header : g \in Nat /\ (g > Top.start => g >= p)
    BY <1>2, ReadFacts DEF Progress, Sound, Skips
  <1> HIDE DEF p
  <1>5. \A x \in Missing : Ahead(Top, x) => x >= begin + p
    <2> TAKE x \in Missing
    <2>1. x \in Nat /\ x - begin \in Header /\ Ahead(Top, x)
      BY <1>2, MissingFacts
    <2>2. x - begin > Top.start
      BY <1>2, <1>3, <2>1 DEF Ahead
    <2> QED
      BY <1>2, <1>3, <1>4, <2>1, <2>2
  <1>6. \A x \in Got : ~Ahead(Top, x) => x < begin + p
    <2>1. got \in Seq(Nat)
      BY DEF StreamInductive, Place
    <2>2. \A x \in Got : x \in Nat
      BY <2>1, ElementOfSeq DEF Got
    <2> QED
      BY <1>2, <1>3, <2>2 DEF Ahead
  <1> QED
    BY <1>1, <1>3, <1>5, <1>6, ProgressCalled

(* ... and when an activation returns. *)
LEMMA ProgressReturn ==
    ASSUME StreamInductive, Flat, Progress, NotFound \/ Return,
           UNCHANGED <<buf, stream, begin, end, whole, got>>
    PROVE  Progress'
  <1>1. PICK w : At(w) /\ stack' = Popped
    BY DEF NotFound, Return
  <1>2. stack # << >> /\ Bound /\ begin \in Nat
    BY <1>1, ReadFacts DEF At
  <1>3. ASSUME NEW x \in Missing PROVE FALSE
    <2>1. x \in Nat /\ x - begin \in Header /\ Ahead(Top, x)
      BY <1>2, MissingFacts
    <2>2. CASE NotFound
      <3>1. At("enter") /\ NoHeader(Top.pos) /\ Top.pc = "enter"
        BY <2>2 DEF NotFound, At
      <3>2. Top.pos \in Nat
        BY <1>2, <3>1, TopFacts DEF Act
      <3>3. x >= begin + Top.pos /\ x - begin < Top.pos
        BY <2>1, <3>1 DEF Ahead, NoHeader
      <3> QED
        BY <1>2, <2>1, <3>2, <3>3
    <2>3. CASE At("tail") /\ Top.declared >= buf.len - Top.start
      <3>1. Top.start \in Nat /\ Top.declared \in Nat /\ Top.pc = "tail"
        BY <1>2, <2>3, StartFacts DEF At
      <3>2. buf.len \in Nat /\ buf.len <= MAX_SIZE /\ x - begin <= buf.len - 2
        BY <1>2, <2>1, ReadFacts
      <3>3. x - begin > Top.start
        BY <1>2, <2>1, <3>1 DEF Ahead
      <3>4. x - begin >= Top.start + Size(Top.declared)
        BY <1>2, <2>1, <3>1, <3>3 DEF Progress, Sound, Skips
      <3>5. Size(Top.declared) >= buf.len - Top.start /\ Size(Top.declared) \in Nat
        BY <2>3, <3>1, <3>2, SizeAssumption DEF Size
      <3> QED
        BY <1>2, <2>1, <3>1, <3>2, <3>4, <3>5
    <2>4. CASE At("return")
      BY <2>1, <2>4 DEF At, Ahead
    <2> QED
      BY <2>2, <2>3, <2>4 DEF Return
  <1> QED
    BY <1>1, <1>3, ProgressPopped

(* The callback gets the packet the top activation is at. *)
LEMMA ProgressCallback ==
    ASSUME StreamInductive, Flat, Progress, HandOver
    PROVE  Progress'
  <1> DEFINE x == begin + Top.start
  <1>1. /\ At("callback") /\ stack' = Goto("tail") /\ "tail" \in Pc /\ got' = Append(got, x)
        /\ UNCHANGED <<buf, stream, begin, end, whole>>
    BY DEF HandOver, Callback, Pc
  <1>2. /\ stack # << >> /\ Bound /\ Top.pc = "callback" /\ begin \in Nat /\ end \in Nat
        /\ buf.len = end - begin
    BY <1>1, ReadFacts DEF At
  <1>3. Top.start \in Header /\ Top.start \in Nat /\ Top.start <= buf.len - 2
    <2>1. Top.start \in Header
      BY <1>1, <1>2, TopFacts DEF FrameOK
    <2> QED
      BY <1>2, <2>1, ReadFacts
  <1>4. /\ stack' # << >> /\ Len(stack') = Len(stack)
        /\ \A i \in 1 .. Len(stack) : i < Len(stack) => stack'[i] = stack[i]
        /\ Top'.pc = "tail" /\ Top'.start = Top.start /\ Top'.declared = Top.declared
    BY <1>1, <1>2, ShapeMoved
  <1>5. x \in Nat /\ x < end /\ x - begin = Top.start /\ x >= begin
    BY <1>2, <1>3
  <1>6. PICK y : y = x
    OBVIOUS
  <1>7. got \in Seq(Nat) /\ \A g \in Got : g \in Nat
    <2>1. got \in Seq(Nat)
      BY DEF StreamInductive, Place
    <2> QED
      BY <2>1, ElementOfSeq DEF Got
  <1>8. \A g \in Got : g < y
    BY <1>2, <1>3, <1>5, <1>6, <1>7 DEF Progress, Behind, Ahead
  <1> HIDE DEF x
  <1>9. /\ Len(got) \in Nat /\ Len(got') = Len(got) + 1
        /\ \A i \in 1 .. Len(got) : got'[i] = got[i]
        /\ got'[Len(got) + 1] = y
    BY <1>1, <1>5, <1>6, <1>7, Appended
  <1>10. Got' = Got \cup {y}
    BY <1>9 DEF Got
  <1>11. Ascending'
    <2>1. \A i \in 1 .. Len(got) : got[i] \in Got
      BY DEF Got
    <2>2. ASSUME NEW i \in 1 .. Len(got'), NEW j \in 1 .. Len(got'), i < j
          PROVE  got'[i] < got'[j]
      <3>1. i \in 1 .. Len(got) /\ got'[i] = got[i]
        BY <1>9, <2>2
      <3>2. CASE j = Len(got) + 1
        BY <1>8, <1>9, <2>1, <3>1, <3>2
      <3>3. CASE j \in 1 .. Len(got)
        BY <1>9, <2>2, <3>1, <3>3 DEF Progress, Ascending
      <3> QED
        BY <1>9, <3>2, <3>3
    <2> QED
      BY <2>2 DEF Ascending
  <1>12. (\A g \in Got : g < end)'
    BY <1>1, <1>5, <1>6, <1>10 DEF Progress
  <1>13. Inner'
    BY <1>1, <1>2, <1>3, <1>5, <1>6, <1>10 DEF Progress, Inner, Header
  <1>14. Behind'
    <2>1. \A g \in Got' : g <= y
      BY <1>5, <1>6, <1>7, <1>8, <1>10
    <2>2. \A g \in Got' : g \in Nat
      BY <1>5, <1>6, <1>7, <1>10
    <2>3. y = begin + Top.start /\ y \in Nat
      BY <1>5, <1>6 DEF x
    <2> QED
      BY <1>1, <1>4, <2>1, <2>2, <2>3 DEF Behind, Ahead
  <1>15. Sound(Top)'
    BY <1>1, <1>2, <1>4 DEF Progress, Sound, Skips, Header, Size
  <1>16. Callees'
    BY <1>1, <1>2, <1>4 DEF Progress, Callees, Suspended, Last, Header
  <1>17. ASSUME NEW w \in Missing' PROVE (w \in Inside(begin, end) /\ Ahead(Top, w))'
    <2>1. w \in Missing /\ w # y
      BY <1>1, <1>10 DEF Missing
    <2>2. w \in Nat /\ Ahead(Top, w) /\ w \in Inside(begin, end)
      BY <1>2, <2>1, MissingFacts
    <2>3. w > begin + Top.start
      BY <1>2, <1>3, <1>6, <2>1, <2>2 DEF Ahead, x
    <2> QED
      BY <1>1, <1>4, <2>2, <2>3 DEF Ahead, Inside
  <1> QED
    BY <1>4, <1>11, <1>12, <1>13, <1>14, <1>15, <1>16, <1>17 DEF Progress

(* A read begins behind all that was handed over, with nothing missing. *)
LEMMA ProgressRead ==
    ASSUME StreamInductive, Flat, Progress,
           NEW n \in Ends(stream), ReadLong(n) \/ ReadShort(n)
    PROVE  Progress'
  <1>1. /\ stack = << >> /\ stream' = stream /\ got' = got /\ end < n
        /\ end' = n /\ begin' = end /\ whole' = whole \cup Inside(end, n)
    BY DEF ReadLong, ReadShort, Waiting
  <1>2. /\ stream \in Stream /\ end \in Nat /\ n \in Nat
    <2>1. stream \in Stream /\ end \in 0 .. stream.len
      BY DEF StreamInductive, Place
    <2>2. stream.len \in Nat /\ stream.cuts \subseteq 1 .. stream.len
      BY <2>1, StreamAssumption DEF Bytes
    <2> QED
      BY <2>1, <2>2 DEF Ends
  <1>3. Missing = {} /\ Got' = Got
    BY <1>1 DEF Progress, Got
  <1>4. Missing' \subseteq Inside(end, n) /\ Inside(end, n) = Inside(begin, end)'
    BY <1>1, <1>3 DEF Missing, Inside
  <1>5. Ascending'
    BY <1>1 DEF Progress, Ascending
  <1>6. \A g \in Got : g \in Nat /\ g < end
    <2>1. got \in Seq(Nat)
      BY DEF StreamInductive, Place
    <2> QED
      BY <2>1, ElementOfSeq DEF Got, Progress
  <1>7. \A g \in Got' : g < end'
    BY <1>1, <1>2, <1>3, <1>6
  <1>8. CASE ReadLong(n)
    <2>1. /\ stack' = <<Activation(0)>> /\ stack' # << >> /\ Len(stack') = 1
          /\ Top'.pc = "enter" /\ Top'.pos = 0
      BY <1>8 DEF ReadLong, Activation, Top
    <2>2. Inner' /\ Behind'
      BY <1>1, <1>2, <1>3, <1>6, <2>1 DEF Inner, Behind, Ahead
    <2>3. Sound(Top)' /\ Callees'
      BY <2>1 DEF Sound, Callees
    <2>4. \A w \in Inside(end, n) : w >= end
      BY DEF Inside
    <2>5. ASSUME NEW w \in Missing' PROVE (w \in Inside(begin, end) /\ Ahead(Top, w))'
      BY <1>1, <1>2, <1>4, <2>1, <2>4 DEF Ahead
    <2> QED
      BY <1>5, <1>7, <2>1, <2>2, <2>3, <2>5 DEF Progress
  <1>9. CASE ReadShort(n)
    <2>1. stack' = << >> /\ n - end < packet_min_size
      BY <1>1, <1>2, <1>9, SizeAssumption DEF ReadShort, LongEnoughRead, vars
    <2>2. ASSUME NEW w \in Inside(end, n) PROVE FALSE
      <3>1. w \in DOMAIN stream.declared /\ end <= w /\ w + stream.declared[w] <= n
        BY DEF Inside
      <3>2. w \in Nat /\ stream.declared[w] \in Nat /\ stream.declared[w] >= packet_min_size
        BY <3>1, FlatFacts
      <3> QED
        BY <1>2, <2>1, <3>1, <3>2, SizeAssumption
    <2> QED
      BY <1>4, <1>5, <1>7, <2>1, <2>2 DEF Progress
  <1> QED
    BY <1>8, <1>9

(* Every step of a flat stream preserves it. *)
LEMMA ProgressStep ==
    ASSUME StreamInductive, Flat, Progress, [StreamNext]_streamVars
    PROVE  Progress'
  <1>1. CASE \E n \in Ends(stream) : ReadLong(n) \/ ReadShort(n)
    BY <1>1, ProgressRead
  <1>2. CASE Parse
    <2>1. UNCHANGED <<stream, begin, end, whole, got>>
      BY <1>2 DEF Parse
    <2>2. buf' = buf
      BY <1>2, BufferStays DEF Parse, Next
    <2>3. CASE CrcFault \/ Overflow
      <3>1. stack' = stack
        BY <2>3 DEF CrcFault, Overflow
      <3> QED
        BY <2>1, <2>2, <3>1
           DEF Progress, Ascending, Inner, Behind, Sound, Callees, Missing, Got, Ahead,
               Skips, CutOff, Last, Verdict, Size, Inside, Header, Suspended, Top
    <2> QED
      BY <1>2, <2>1, <2>2, <2>3, ProgressFound, ProgressMoved, ProgressBad, ProgressMore,
         ProgressReturn
         DEF Parse
  <1>3. CASE HandOver
    BY <1>3, ProgressCallback
  <1>4. CASE Finished \/ UNCHANGED streamVars
    <2>1. UNCHANGED streamVars
      BY <1>4 DEF Finished
    <2> QED
      BY <2>1
         DEF streamVars, vars, Progress, Ascending, Inner, Behind, Sound, Callees, Missing,
             Got, Ahead, Skips, CutOff, Last, Verdict, Size, Inside, Header, Suspended, Top
  <1> QED
    BY <1>1, <1>2, <1>3, <1>4 DEF StreamNext

(* A stream does not change. *)
LEMMA FlatStays == Flat' /\ [StreamNext]_streamVars => Flat
  BY DEF Flat, StreamNext, ReadLong, ReadShort, Parse, HandOver, Finished, streamVars

(* In a flat stream, what is not handed over yet is ahead. *)
THEOREM StreamProgress == StreamSpec => [](Flat => Progress)
  <1>1. StreamInit => (Flat => Progress)
    <2> SUFFICES ASSUME StreamInit PROVE Progress
      OBVIOUS
    <2>1. Got = {} /\ Missing = {}
      BY EmptySeq DEF StreamInit, Got, Missing
    <2> QED
      BY <2>1, EmptySeq DEF StreamInit, Progress, Ascending
  <1>2. StreamInductive /\ (Flat => Progress) /\ [StreamNext]_streamVars => (Flat => Progress)'
    BY FlatStays, ProgressStep
  <1> QED
    BY <1>1, <1>2, StreamInvariant, PTL DEF StreamSpec

(* What check_crc may die of in such a stream. *)
Killed == fault = "crc" => CutsLength /\ Stale \cap {0, 1} # {}

(* Only the rest of an earlier buffer in a length field that is cut off.   *)
LEMMA KilledStep ==
    ASSUME StreamInductive, Scanned, Flat, Killed, [StreamNext]_streamVars
    PROVE  Killed'
  <1>1. CASE fault = "crc"
    <2>1. UNCHANGED streamVars
      BY <1>1 DEF StreamNext, ReadLong, ReadShort, Waiting, Parse, HandOver, Finished,
                  Found, NotFound, CrcFault, CrcGood, Callback, CrcBad, More, Return,
                  Overflow, At
    <2> QED
      BY <2>1 DEF streamVars, vars, Killed, CutsLength
  <1>2. CASE CrcFault /\ Parse
    <2>1. /\ At("check") /\ Size(Top.declared) < 2 /\ stack # << >>
          /\ stream' = stream /\ end' = end
      BY <1>2 DEF CrcFault, At, Parse
    <2>2. Inductive /\ Bound /\ AllRead
      BY <2>1 DEF StreamInductive, Scanned, Fresh, Inductive, Complete, Lossless
    <2>3. Top.start \in Header /\ Top.declared \in Declared(Top.start)
      <3>1. /\ Top.pc = "check" /\ Top = stack[Len(stack)]
            /\ Len(stack) \in 1 .. Len(stack) /\ FrameOK(Len(stack))
        BY <2>1, <2>2, TopFacts
      <3> QED
        BY <2>2, <3>1 DEF FrameOK, AllRead, HasRead
    <2>4. Top.start \in Nat /\ Top.start + 2 <= buf.len /\ Top.declared \in Nat
      BY <2>1, <2>2, StartFacts
    <2>5. /\ begin \in Nat /\ end \in Nat /\ buf.len = end - begin /\ buf.len <= MAX_SIZE
          /\ begin + Top.start \in DOMAIN stream.declared
          /\ buf.declared[Top.start] = stream.declared[begin + Top.start]
      BY <2>1, <2>3, ReadFacts
    <2>6. Top.declared \in {0, 1}
      BY <2>1, <2>4, <2>5, SizeAssumption DEF Size
    <2>7. buf.declared[Top.start] \notin {0, 1}
      <3>1. stream.declared[begin + Top.start] >= packet_min_size
        BY <2>5, FlatFacts
      <3> QED
        BY <2>5, <3>1, MinimumAssumption, SizeAssumption
    <2>8. ~(Top.start + LENGTH_END <= buf.len) /\ Top.declared \in Stale
      BY <2>3, <2>6, <2>7 DEF Declared
    <2>9. begin + Top.start + 2 <= end /\ end < begin + Top.start + LENGTH_END
      BY <2>4, <2>5, <2>8, SizeAssumption
    <2> QED
      BY <2>1, <2>5, <2>6, <2>8, <2>9 DEF Killed, CutsLength
  <1>3. CASE fault # "crc" /\ ~(CrcFault /\ Parse)
    <2>1. fault' # "crc"
      BY <1>3 DEF StreamNext, ReadLong, ReadShort, Parse, HandOver, Finished, streamVars,
                  vars, Found, NotFound, CrcGood, Callback, CrcBad, More, Return, Overflow
    <2> QED
      BY <2>1 DEF Killed
  <1> QED
    BY <1>1, <1>2, <1>3

(* However a stream of undamaged packets is cut, the packets that arrive   *)
(* in one piece are handed over by a process that lives, and check_crc     *)
(* kills it only where a length field was cut off and 0 or 1 left over ... *)
THEOREM CutsCorrect == StreamSpec => []CutCostsOne
  <1>1. StreamInit => Killed
    BY DEF StreamInit, Killed
  <1>2. StreamInductive /\ Scanned /\ (Flat => Killed) /\ [StreamNext]_streamVars
           => (Flat => Killed)'
    BY FlatStays, KilledStep
  <1>3. (Flat => Progress) /\ (Flat => Killed) => CutCostsOne
    BY DEF Progress, Missing, Killed, CutCostsOne
  <1> QED
    BY <1>1, <1>2, <1>3, StreamInvariant, ScannedInvariant, StreamProgress, PTL
       DEF StreamSpec

(* ... and all that is handed over is handed over once, in the order sent. *)
THEOREM OnceCorrect == StreamSpec => []OnceInOrder
  <1>1. (Flat => Progress) => OnceInOrder
    BY DEF Progress, Ascending, OnceInOrder
  <1> QED
    BY <1>1, StreamProgress, PTL

-----------------------------------------------------------------------------
(* The budget of acknowledgements, read by read. *)
Budgeted == Fresh \/ (Inductive /\ Budget)

(* The budget is kept in every read. *)
LEMMA BudgetedStep ==
    ASSUME StreamInductive, Budgeted, [StreamNext]_streamVars
    PROVE  Budgeted'
  <1>1. CASE UNCHANGED vars
    <2>1. Fresh => Fresh'
      BY <1>1 DEF Fresh, Header, vars
    <2>2. Inductive /\ Budget => Inductive' /\ Budget'
      BY <1>1, InductiveStep, BudgetStep DEF Inductive
    <2> QED
      BY <2>1, <2>2 DEF Budgeted
  <1>2. CASE Next /\ stack # << >>
    <2>1. Inductive /\ Bound /\ Budget
      BY <1>2 DEF Budgeted, Fresh, Inductive
    <2> QED
      BY <1>2, <2>1, InductiveStep, BudgetStep DEF Budgeted
  <1>3. CASE Begun'
    <2>1. Begun' => Inductive' /\ Budget'
      BY Beginning, BudgetBeginning, PTL
    <2> QED
      BY <1>3, <2>1 DEF Budgeted
  <1> QED
    BY <1>1, <1>2, <1>3, ParserStep

(* In every read, no more acknowledgements than two to the power of the    *)
(* number of headers in it.                                                *)
THEOREM StreamAcks == StreamSpec => []AckBound
  <1>1. StreamInit => Budgeted
    BY EmptySeq DEF StreamInit, Budgeted, Fresh, Header
  <1>2. Budgeted => AckBound
    <2>1. ASSUME Fresh PROVE AckBound
      <3>1. Len(acks) = 0 /\ Cardinality(Header) = 0 /\ Most[0] = 0
        BY <2>1, EmptySeq, FS_EmptySet, MostDef DEF Fresh
      <3> QED
        BY <3>1 DEF AckBound
    <2> QED
      BY <2>1, BudgetFollows DEF Budgeted, Inductive
  <1> QED
    BY <1>1, <1>2, BudgetedStep, StreamInvariant, PTL DEF StreamSpec

(* handle_packet returns from every read, or the process dies of a length  *)
(* below two or of too many headers in it.                                 *)
THEOREM StreamReturns == StreamSpec => Returns
  <1>1. StreamInductive /\ Scanned /\ [StreamNext]_streamVars
           => [stack # << >> => Progresses]_<<stack, fault>>
    <2> SUFFICES ASSUME StreamInductive, Scanned, [StreamNext]_streamVars,
                        <<stack, fault>>' # <<stack, fault>>, stack # << >>
                 PROVE  Progresses
      OBVIOUS
    <2>1. Next
      <3>1. ~UNCHANGED vars
        BY DEF vars
      <3>2. ASSUME NEW n \in Ends(stream), ReadLong(n) PROVE FALSE
        BY <3>2 DEF ReadLong, Waiting
      <3> QED
        BY <3>1, <3>2, ParserStep
    <2>2. Inductive /\ AllRead
      BY DEF StreamInductive, Scanned, Fresh, Complete, Lossless
    <2> QED
      BY <2>1, <2>2, ReturnsStep
  <1> QED
    BY <1>1, StreamInvariant, ScannedInvariant, PTL DEF StreamSpec, Returns, Progresses
=============================================================================
