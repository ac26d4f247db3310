-------------------------- MODULE PacketParserProofs --------------------------
(***************************************************************************)
(* Proofs about PacketParser, for every buffer, whatever its packets       *)
(* declare and whatever the stack holds beyond them.                       *)
(*                                                                         *)
(* DepthBound follows from what is known of every activation (Frames): it  *)
(* sees at least one header fewer than its caller, its position is in the  *)
(* buffer, and it gets past its CRC check with a declared length of two at *)
(* least.                                                                  *)
(* InOrder follows from where the activations stand as long as there is no *)
(* CRC error (Straight): all but the top are about to return, and what has *)
(* been handed over lies before the packet the top is at.                  *)
(* NothingLost and NothingExtra compare the recursion with a scan of the   *)
(* buffer (Complete): a header the scan goes on to is acknowledged, or is  *)
(* the one the top activation is about to find, or an activation below     *)
(* still has to go on to it; and without damage the top activation is      *)
(* always at a place the scan comes to.                                    *)
(* AckBound and Returns count: each activation on the stack is given what  *)
(* it may still cost (AcksOf, StepsOf), the headers it sees deciding; a    *)
(* callee sees fewer than its caller, so every step spends of the total    *)
(* (WorkStep), and what is written and what is left fit into Most (Budget).*)
(* What the process may die of is on top: a length that was read below two *)
(* (AllRead), or more activations than headers (DepthBound).               *)
(***************************************************************************)
EXTENDS PacketParser, Recursion, SequenceTheorems, FiniteSetTheorems

Act == [pos : Nat, start : Nat \cup {-1}, declared : Nat, pc : Pc]

FrameOK(i) ==
    /\ i - 1 + Seen(stack[i].pos) <= Cardinality(Header)
    /\ stack[i].pos <= buf.len
    /\ stack[i].pc # "enter" =>
          stack[i].start \in Header /\ stack[i].pos <= stack[i].start
    /\ stack[i].pc \in {"callback", "tail", "return"} => Size(stack[i].declared) >= 2

Frames == \A i \in 1 .. Len(stack) : FrameOK(i)

Bound == TypeOK /\ Frames

Rows ==
    /\ \A i, j \in 1 .. Len(handled) : i < j => handled[i] < handled[j]
    /\ \A i \in 1 .. Len(handled) : acks[i][1] = handled[i]

Callers == \A i \in 1 .. Len(stack) : i < Len(stack) => stack[i].pc = "return"

Below(x)   == \A i \in 1 .. Len(handled) : handled[i] < x
Settled(k) == Len(acks) = Len(handled) + k

AtTop(a) ==
    /\ a.pc = "enter" => Below(a.pos)
    /\ a.pc \in {"check", "callback"} => Below(a.start)
    /\ a.pc = "tail" => Below(a.start + 1)
    /\ a.pc = "callback" => Settled(1) /\ acks[Len(handled) + 1][1] = a.start
    /\ a.pc # "callback" => Settled(0)

Straight ==
    /\ Rows /\ Callers
    /\ IF stack = << >> THEN Settled(0) ELSE AtTop(Top)

Inductive == Bound /\ (NoError => Straight)

-----------------------------------------------------------------------------
(* The buffer, and what the helpers return on it. *)
LEMMA BufferFacts ==
    ASSUME TypeOK
    PROVE  /\ buf.len \in Nat
           /\ \A h \in Header : h \in Nat /\ h <= buf.len - 2
           /\ \A h \in Header : Declared(h) \subseteq Nat
  <1>1. /\ buf.len \in packet_min_size .. MAX_SIZE
        /\ Header \subseteq 0 .. buf.len - 2
        /\ buf.declared \in [Header -> Nat]
    BY DEF TypeOK, IsBuffer, Bytes, Header
  <1>2. buf.len \in Nat
    BY <1>1, SizeAssumption
  <1>3. \A h \in Header : buf.declared[h] \in Nat
    BY <1>1
  <1>4. \A h \in Header : Declared(h) \subseteq Nat
    BY <1>3, SizeAssumption DEF Declared
  <1> QED
    BY <1>1, <1>2, <1>4

(* sizeof_packet returns a length that is not more than the declared one. *)
LEMMA SizeFacts ==
    ASSUME NEW d \in Nat
    PROVE  Size(d) \in Nat /\ Size(d) <= d
  BY SizeAssumption DEF Size

(* Headers seen from a position: fewer from one further on, and one fewer  *)
(* from behind the first.                                                  *)
LEMMA SeenFacts ==
    ASSUME TypeOK
    PROVE  /\ \A p \in Nat : Seen(p) \in Nat
           /\ \A p, q \in Nat : p <= q => Seen(q) <= Seen(p)
           /\ \A h \in Header : \A p \in Nat : p <= h => Seen(h + 1) + 1 <= Seen(p)
           /\ Seen(0) = Cardinality(Header)
  <1>1. Header \subseteq 0 .. buf.len - 2 /\ buf.len \in Nat
    BY BufferFacts
  <1>2. IsFiniteSet(Header) /\ \A h \in Header : h \in Nat
    <2>1. 0 \in Int /\ buf.len - 2 \in Int
      BY <1>1
    <2>2. IsFiniteSet(0 .. buf.len - 2)
      BY <2>1, FS_Interval, Zenon
    <2>3. IsFiniteSet(Header)
      BY <1>1, <2>2, FS_Subset, Zenon
    <2> QED
      BY <1>1, <2>3
  <1> DEFINE From(p) == {h \in Header : h >= p}
  <1>3. \A p : From(p) \subseteq Header
    OBVIOUS
  <1>3a. \A p : IsFiniteSet(From(p)) /\ Cardinality(From(p)) \in Nat
    <2> HIDE DEF From
    <2> QED
      BY <1>2, <1>3, FS_Subset, FS_CardinalityType
  <1>4. \A p : Seen(p) = Cardinality(From(p))
    BY DEF Seen
  <1>5. ASSUME NEW p \in Nat, NEW q \in Nat, p <= q PROVE Seen(q) <= Seen(p)
    <2>1. \A h \in Header : h >= q => h >= p
      BY <1>2, <1>5
    <2>2. From(q) \subseteq From(p)
      BY <2>1
    <2> HIDE DEF From
    <2> QED
      BY <1>3a, <2>2, <1>4, <2>1, FS_Subset
  <1>6. ASSUME NEW h \in Header, NEW p \in Nat, p <= h PROVE Seen(h + 1) + 1 <= Seen(p)
    <2>0. h \in Nat /\ ~(h >= h + 1) /\ h >= p /\ \A g \in Header : g >= h + 1 => g >= p
      BY <1>2, <1>6
    <2>1. h \notin From(h + 1) /\ From(h + 1) \cup {h} \subseteq From(p)
      BY <2>0
    <2> HIDE DEF From
    <2>2. Cardinality(From(h + 1) \cup {h}) = Cardinality(From(h + 1)) + 1
      BY <1>3a, <2>1, FS_AddElement
    <2>3. Cardinality(From(h + 1) \cup {h}) <= Cardinality(From(p))
      BY <1>3a, <2>1, FS_Subset
    <2> QED
      BY <1>4, <2>2, <2>3
  <1>7. From(0) = Header
    <2>1. \A h \in Header : h >= 0
      BY <1>2
    <2> QED
      BY <2>1
  <1> HIDE DEF From
  <1> QED
    BY <1>3a, <1>4, <1>5, <1>6, <1>7

(* A sequence without its last entry, ... *)
LEMMA PoppedProperties ==
    ASSUME NEW S, NEW s \in Seq(S), NEW n \in Nat, n <= Len(s)
    PROVE  /\ SubSeq(s, 1, n) \in Seq(S) /\ Len(SubSeq(s, 1, n)) = n
           /\ \A i \in 1 .. n : SubSeq(s, 1, n)[i] = s[i]
  <1>1. Len(s) \in Nat /\ \A i \in 1 .. n : s[i] \in S
    BY LenProperties, ElementOfSeq
  <1> QED
    BY <1>1, SubSeqProperties, Z3

(* ... with one entry more, ... *)
LEMMA Appended ==
    ASSUME NEW S, NEW s \in Seq(S), NEW a \in S
    PROVE  /\ Append(s, a) \in Seq(S) /\ Append(s, a) # << >>
           /\ Len(s) \in Nat /\ Len(Append(s, a)) = Len(s) + 1
           /\ \A i \in 1 .. Len(s) : Append(s, a)[i] = s[i]
           /\ Append(s, a)[Len(s) + 1] = a
  BY LenProperties, AppendProperties

(* ... and with another last entry. *)
LEMMA LastReplaced ==
    ASSUME NEW S, NEW s \in Seq(S), s # << >>, NEW a \in S
    PROVE  /\ [s EXCEPT ![Len(s)] = a] \in Seq(S)
           /\ [s EXCEPT ![Len(s)] = a] # << >>
           /\ Len([s EXCEPT ![Len(s)] = a]) = Len(s)
           /\ \A i \in 1 .. Len(s) : i < Len(s) => [s EXCEPT ![Len(s)] = a][i] = s[i]
           /\ [s EXCEPT ![Len(s)] = a][Len(s)] = a
  <1>1. Len(s) \in Nat /\ Len(s) \in 1 .. Len(s)
    BY EmptySeq
  <1>2. PICK n \in Nat : n = Len(s) /\ n \in 1 .. Len(s)
    BY <1>1
  <1>3. /\ [s EXCEPT ![n] = a] \in Seq(S) /\ Len([s EXCEPT ![n] = a]) = Len(s)
        /\ \A j \in 1 .. Len(s) : [s EXCEPT ![n] = a][j] = IF j = n THEN a ELSE s[j]
    BY <1>2, ExceptSeq
  <1>4. [s EXCEPT ![n] = a] # << >>
    BY <1>2, <1>3, EmptySeq
  <1> QED
    BY <1>2, <1>3, <1>4

(* The top activation. *)
LEMMA TopFacts ==
    ASSUME Bound, NEW w, At(w)
    PROVE  /\ stack \in Seq(Act) /\ stack # << >>
           /\ Len(stack) \in Nat /\ Len(stack) >= 1
           /\ Top \in Act /\ Top = stack[Len(stack)] /\ Top.pc = w
           /\ FrameOK(Len(stack))
  <1>1. stack \in Seq(Act) /\ stack # << >> /\ Top.pc = w
    BY DEF Bound, TypeOK, Act, At
  <1>2. Len(stack) \in Nat /\ Len(stack) >= 1
    BY <1>1, EmptySeq
  <1>3. Top \in Act
    BY <1>1, <1>2, ElementOfSeq DEF Top
  <1>4. FrameOK(Len(stack))
    BY <1>2 DEF Bound, Frames
  <1> QED
    BY <1>1, <1>2, <1>3, <1>4 DEF Top

(* The stack after Goto(v). *)
LEMMA GotoFacts ==
    ASSUME Bound, NEW w, At(w), NEW v \in Pc
    PROVE  /\ Goto(v) \in Seq(Act) /\ Goto(v) # << >> /\ Len(Goto(v)) = Len(stack)
           /\ \A i \in 1 .. Len(stack) : i < Len(stack) => Goto(v)[i] = stack[i]
           /\ Goto(v)[Len(stack)] = [Top EXCEPT !.pc = v]
           /\ [Top EXCEPT !.pc = v] \in Act
  <1>1. stack \in Seq(Act) /\ stack # << >> /\ Top \in Act /\ Top = stack[Len(stack)]
    BY TopFacts
  <1>2. [Top EXCEPT !.pc = v] \in Act
    BY <1>1 DEF Act
  <1>3. Goto(v) = [stack EXCEPT ![Len(stack)] = [Top EXCEPT !.pc = v]]
    BY <1>1 DEF Goto, Top
  <1> QED
    BY <1>1, <1>2, <1>3, LastReplaced

-----------------------------------------------------------------------------
(* How the activations survive a step. *)
LEMMA FrameSame ==
    ASSUME NEW i \in Nat, FrameOK(i), stack'[i] = stack[i], buf' = buf
    PROVE  FrameOK(i)'
  BY DEF FrameOK, Header, Size, Seen

(* What is known of the activations, when the top one goes on, ... *)
LEMMA FramesMoved ==
    ASSUME Bound, NEW w, At(w), w # "enter", NEW v \in Pc, v # "enter",
           v \in {"callback", "tail", "return"} => Size(Top.declared) >= 2,
           stack' = Goto(v), buf' = buf
    PROVE  stack' \in Seq(Act) /\ Frames'
  <1>1. /\ stack' \in Seq(Act) /\ Len(stack') = Len(stack) /\ Len(stack) \in Nat
        /\ \A i \in 1 .. Len(stack) : i < Len(stack) => stack'[i] = stack[i]
        /\ stack'[Len(stack)] = [Top EXCEPT !.pc = v]
    BY GotoFacts, TopFacts
  <1>2. Top \in Act /\ Top = stack[Len(stack)] /\ Top.pc = w /\ FrameOK(Len(stack))
    BY TopFacts
  <1>3. FrameOK(Len(stack))'
    <2>1. /\ stack'[Len(stack)].pos = Top.pos /\ stack'[Len(stack)].start = Top.start
          /\ stack'[Len(stack)].declared = Top.declared /\ stack'[Len(stack)].pc = v
      BY <1>1, <1>2 DEF Act
    <2> QED
      BY <1>1, <1>2, <2>1 DEF FrameOK, Header, Size, Seen
  <1>4. ASSUME NEW i \in 1 .. Len(stack') PROVE FrameOK(i)'
    <2>1. CASE i = Len(stack)
      BY <1>3, <1>1, <2>1
    <2>2. CASE i < Len(stack)
      <3>1. i \in Nat /\ i \in 1 .. Len(stack) /\ stack'[i] = stack[i]
        BY <1>1, <2>2
      <3>2. FrameOK(i)
        BY <3>1 DEF Bound, Frames
      <3> QED
        BY <3>1, <3>2, FrameSame
    <2> QED
      BY <1>1, <2>1, <2>2
  <1> QED
    BY <1>1, <1>4 DEF Frames

(* ... when it calls itself, ... *)
LEMMA FramesCalled ==
    ASSUME Bound, NEW w, At(w), w # "enter", NEW v \in {"tail", "return"},
           Size(Top.declared) >= 2,
           NEW p \in Nat, p <= buf.len, p >= Top.start + 2,
           stack' = Call(v, p), buf' = buf
    PROVE  stack' \in Seq(Act) /\ Frames'
  <1>0. PICK n \in Nat : n = Len(stack)
    BY TopFacts
  <1>1. /\ Goto(v) \in Seq(Act) /\ Len(Goto(v)) = n /\ n \in Nat /\ n >= 1
        /\ \A i \in 1 .. n : i < n => Goto(v)[i] = stack[i]
        /\ Goto(v)[n] = [Top EXCEPT !.pc = v]
    BY <1>0, GotoFacts, TopFacts DEF Pc
  <1>2. Activation(p) \in Act
    BY DEF Activation, Act, Pc
  <1>3. /\ stack' \in Seq(Act) /\ Len(stack') = n + 1
        /\ \A i \in 1 .. n : stack'[i] = Goto(v)[i]
        /\ stack'[n + 1] = Activation(p)
    BY <1>1, <1>2, Appended DEF Call
  <1>4. Top \in Act /\ Top = stack[n] /\ Top.pc = w /\ FrameOK(n)
    BY <1>0, TopFacts
  <1>5. FrameOK(n)'
    <2>1. /\ stack'[n].pos = Top.pos /\ stack'[n].start = Top.start
          /\ stack'[n].declared = Top.declared /\ stack'[n].pc = v
      <3>1. stack'[n] = [Top EXCEPT !.pc = v]
        BY <1>1, <1>3
      <3> QED
        BY <3>1, <1>4 DEF Act
    <2> QED
      BY <1>1, <1>4, <2>1 DEF FrameOK, Header, Size, Seen
  <1>6. FrameOK(n + 1)'
    <2>1. stack'[n + 1].pos = p /\ stack'[n + 1].pc = "enter"
      BY <1>3 DEF Activation
    <2>2. /\ n - 1 + Seen(Top.pos) <= Cardinality(Header)
          /\ Top.pos <= Top.start /\ Top.start \in Header
      BY <1>4 DEF FrameOK
    <2>3. Top.pos \in Nat /\ Top.start \in Nat
      BY <1>4, <2>2, BufferFacts DEF Bound, Act
    <2>4. /\ Seen(p) \in Nat /\ Seen(Top.start + 1) \in Nat /\ Seen(Top.pos) \in Nat
          /\ Seen(p) <= Seen(Top.start + 1) /\ Seen(Top.start + 1) + 1 <= Seen(Top.pos)
          /\ Cardinality(Header) \in Nat
      <3>1. Top.start + 1 \in Nat /\ Top.start + 1 <= p
        BY <2>3
      <3> QED
        BY <2>2, <2>3, <3>1, SeenFacts DEF Bound
    <2>5. n + Seen(p) <= Cardinality(Header)
      BY <1>1, <2>2, <2>4
    <2>6. Seen(p)' = Seen(p) /\ Header' = Header
      BY DEF Seen, Header
    <2>7. n + 1 - 1 = n
      BY <1>1
    <2> QED
      BY <2>1, <2>5, <2>6, <2>7 DEF FrameOK
  <1>7. ASSUME NEW i \in 1 .. Len(stack') PROVE FrameOK(i)'
    <2>1. CASE i = n
      BY <1>5, <2>1
    <2>2. CASE i = n + 1
      BY <1>6, <2>2
    <2>3. CASE i < n
      <3>1. i \in Nat /\ i \in 1 .. n /\ stack'[i] = stack[i]
        BY <1>1, <1>3, <2>3
      <3>2. FrameOK(i)
        BY <1>0, <3>1 DEF Bound, Frames
      <3> QED
        BY <3>1, <3>2, FrameSame
    <2> QED
      BY <1>1, <1>3, <2>1, <2>2, <2>3
  <1> QED
    BY <1>3, <1>7 DEF Frames

(* ... when it returns, ... *)
LEMMA FramesPopped ==
    ASSUME Bound, NEW w, At(w), stack' = Popped, buf' = buf
    PROVE  stack' \in Seq(Act) /\ Frames'
  <1>1. stack \in Seq(Act) /\ Len(stack) \in Nat /\ Len(stack) - 1 \in Nat
        /\ Len(stack) - 1 <= Len(stack)
    BY TopFacts
  <1>2. /\ stack' \in Seq(Act) /\ Len(stack') = Len(stack) - 1
        /\ \A i \in 1 .. Len(stack) - 1 : stack'[i] = stack[i]
    BY <1>1, PoppedProperties DEF Popped
  <1>3. ASSUME NEW i \in 1 .. Len(stack') PROVE FrameOK(i)'
    <2>1. i \in Nat /\ i \in 1 .. Len(stack) /\ stack'[i] = stack[i]
      BY <1>1, <1>2
    <2>2. FrameOK(i)
      BY <2>1 DEF Bound, Frames
    <2> QED
      BY <2>1, <2>2, FrameSame
  <1> QED
    BY <1>2, <1>3 DEF Frames

(* ... and when it has found a header. *)
LEMMA FramesFound ==
    ASSUME Bound, Found
    PROVE  stack' \in Seq(Act) /\ Frames'
  <1>0. /\ stack \in Seq(Act) /\ stack # << >> /\ Top \in Act
        /\ Top = stack[Len(stack)] /\ FrameOK(Len(stack)) /\ Len(stack) \in Nat
    BY TopFacts DEF Found
  <1> DEFINE Entered(h, d) ==
               stack' = [stack EXCEPT ![Len(stack)] =
                           [@ EXCEPT !.start = h, !.declared = d, !.pc = "check"]]
  <1>1. PICK h \in Header : IsNext(h, Top.pos) /\ \E d \in Declared(h) : Entered(h, d)
    BY DEF Found
  <1>2. PICK d \in Declared(h) : Entered(h, d)
    BY <1>1
  <1>3. h \in Nat /\ d \in Nat /\ h >= Top.pos
    BY <1>1, BufferFacts DEF Bound, IsNext
  <1> DEFINE a == [Top EXCEPT !.start = h, !.declared = d, !.pc = "check"]
  <1>4. a \in Act /\ a.pos = Top.pos /\ a.start = h /\ a.pc = "check"
    BY <1>0, <1>3 DEF Act, Pc
  <1>5. stack' = [stack EXCEPT ![Len(stack)] = a]
    BY <1>2, <1>0
  <1> HIDE DEF a
  <1>6. PICK n \in Nat : n = Len(stack)
    BY <1>0
  <1>7. /\ stack' \in Seq(Act) /\ Len(stack') = n
        /\ \A i \in 1 .. n : i < n => stack'[i] = stack[i]
        /\ stack'[n] = a
    BY <1>0, <1>4, <1>5, <1>6, LastReplaced
  <1>8. buf' = buf
    BY DEF Found
  <1>9. FrameOK(n)'
    <2>1. stack'[n].pos = Top.pos /\ stack'[n].start = h /\ stack'[n].pc = "check"
      BY <1>4, <1>7
    <2>2. FrameOK(n) /\ Top = stack[n]
      BY <1>0, <1>6
    <2> QED
      BY <1>1, <1>3, <1>8, <2>1, <2>2 DEF FrameOK, Header, Seen
  <1>10. ASSUME NEW i \in 1 .. Len(stack') PROVE FrameOK(i)'
    <2>1. CASE i = n
      BY <1>9, <2>1
    <2>2. CASE i < n
      <3>1. i \in Nat /\ i \in 1 .. n /\ stack'[i] = stack[i]
        BY <1>7, <2>2
      <3>2. FrameOK(i)
        BY <1>6, <3>1 DEF Bound, Frames
      <3> QED
        BY <1>8, <3>1, <3>2, FrameSame
    <2> QED
      BY <1>7, <2>1, <2>2
  <1> QED
    BY <1>7, <1>10 DEF Frames

(* The header of the top activation is in the buffer. *)
LEMMA StartFacts ==
    ASSUME Bound, NEW w, At(w), w # "enter"
    PROVE  /\ Top.start \in Nat /\ Top.start + 2 <= buf.len
           /\ Top.declared \in Nat /\ Size(Top.declared) \in Nat
           /\ Size(Top.declared) <= Top.declared
           /\ w \in {"callback", "tail", "return"} => Size(Top.declared) >= 2
  <1>1. Top \in Act /\ Top = stack[Len(stack)] /\ Top.pc = w /\ FrameOK(Len(stack))
    BY TopFacts
  <1>2. Top.start \in Header
    BY <1>1 DEF FrameOK
  <1>3. Top.start \in Nat /\ Top.start <= buf.len - 2 /\ buf.len \in Nat
    BY <1>2, BufferFacts DEF Bound
  <1>4. Top.declared \in Nat
    BY <1>1 DEF Act
  <1>5. Size(Top.declared) \in Nat /\ Size(Top.declared) <= Top.declared
    BY <1>4, SizeFacts
  <1>6. w \in {"callback", "tail", "return"} => Size(Top.declared) >= 2
    BY <1>1 DEF FrameOK
  <1>7. Top.start + 2 <= buf.len
    BY <1>3
  <1> QED
    BY <1>3, <1>4, <1>5, <1>6, <1>7

(* Types and activations are preserved by every step. *)
LEMMA BoundStep ==
    ASSUME Bound, [Next]_vars
    PROVE  Bound'
  <1> DEFINE Codes  == {"SUCCESS", "CRC_ERROR"}
             Faults == {"none", "crc", "stack"}
             Rest   == /\ buf' = buf /\ acks' \in Seq(Nat \X Codes)
                       /\ handled' \in Seq(Nat) /\ fault' \in Faults
  <1>0. /\ IsBuffer(buf) /\ acks \in Seq(Nat \X Codes)
        /\ handled \in Seq(Nat) /\ fault \in Faults /\ stack \in Seq(Act)
    BY DEF Bound, TypeOK, Act
  <1>a. ASSUME Rest, stack' \in Seq(Act), Frames' PROVE Bound'
    BY <1>0, <1>a DEF Bound, TypeOK, Act, IsBuffer, Bytes
  <1>1. CASE Found
    <2>1. Rest
      BY <1>0, <1>1 DEF Found
    <2> QED
      BY <1>1, <1>a, <2>1, FramesFound
  <1>2. CASE NotFound
    <2>1. Rest
      BY <1>0, <1>2 DEF NotFound
    <2>2. stack' \in Seq(Act) /\ Frames'
      BY <1>2, FramesPopped DEF NotFound
    <2> QED
      BY <1>a, <2>1, <2>2
  <1>3. CASE CrcFault \/ Overflow
    <2>1. Rest
      BY <1>0, <1>3 DEF CrcFault, Overflow
    <2>2. Frames'
      BY <1>3 DEF CrcFault, Overflow, Bound, Frames, FrameOK, Header, Size, Seen
    <2> QED
      BY <1>0, <1>3, <1>a, <2>1, <2>2 DEF CrcFault, Overflow
  <1>4. CASE CrcGood
    <2>1. At("check") /\ Size(Top.declared) >= 2 /\ stack' = Goto("callback") /\ buf' = buf
      BY <1>4 DEF CrcGood
    <2>2. <<Top.start, "SUCCESS">> \in Nat \X Codes
      BY <2>1, StartFacts
    <2>3. Rest
      BY <1>0, <1>4, <2>2, AppendProperties DEF CrcGood
    <2>4. stack' \in Seq(Act) /\ Frames'
      BY <2>1, FramesMoved DEF Pc
    <2> QED
      BY <1>a, <2>3, <2>4
  <1>5. CASE Callback
    <2>1. At("callback") /\ stack' = Goto("tail") /\ buf' = buf
      BY <1>5 DEF Callback
    <2>2. Top.start \in Nat /\ Size(Top.declared) >= 2
      BY <2>1, StartFacts
    <2>3. Rest
      BY <1>0, <1>5, <2>2, AppendProperties DEF Callback
    <2>4. stack' \in Seq(Act) /\ Frames'
      BY <2>1, <2>2, FramesMoved DEF Pc
    <2> QED
      BY <1>a, <2>3, <2>4
  <1>6. CASE CrcBad
    <2>1. /\ At("check") /\ Size(Top.declared) >= 2 /\ buf' = buf
          /\ stack' = Call("tail", Top.start + 2)
      BY <1>6 DEF CrcBad, Resync
    <2>2. Top.start \in Nat /\ Top.start + 2 \in Nat /\ Top.start + 2 <= buf.len
      BY <2>1, StartFacts
    <2>3. <<Top.start, "CRC_ERROR">> \in Nat \X Codes
      BY <2>2
    <2>4. Rest
      BY <1>0, <1>6, <2>3, AppendProperties DEF CrcBad
    <2>5. stack' \in Seq(Act) /\ Frames'
      BY <2>1, <2>2, FramesCalled
    <2> QED
      BY <1>a, <2>4, <2>5
  <1>7. CASE More
    <2>1. /\ At("tail") /\ Top.declared < buf.len - Top.start /\ buf' = buf
          /\ stack' = Call("return", Top.start + Size(Top.declared))
      BY <1>7 DEF More, AfterFrame
    <2> DEFINE p == Top.start + Size(Top.declared)
    <2>2. Size(Top.declared) >= 2 /\ p \in Nat /\ p <= buf.len /\ p >= Top.start + 2
      BY <2>1, StartFacts, BufferFacts DEF Bound
    <2>3. Rest
      BY <1>0, <1>7 DEF More
    <2>4. stack' \in Seq(Act) /\ Frames'
      BY <2>1, <2>2, FramesCalled
    <2> QED
      BY <1>a, <2>3, <2>4
  <1>8. CASE Return
    <2>1. PICK w : At(w)
      BY <1>8 DEF Return
    <2>2. Rest
      BY <1>0, <1>8 DEF Return
    <2>3. stack' \in Seq(Act) /\ Frames'
      BY <1>8, <2>1, FramesPopped DEF Return
    <2> QED
      BY <1>a, <2>2, <2>3
  <1>9. CASE UNCHANGED vars
    BY <1>9 DEF vars, Bound, TypeOK, Frames, FrameOK, Header, Size, Seen
  <1>10. CASE Done
    BY <1>9, <1>10 DEF Done
  <1> QED
    BY <1>1, <1>2, <1>3, <1>4, <1>5, <1>6, <1>7, <1>8, <1>9, <1>10 DEF Next

-----------------------------------------------------------------------------
(* What the moves of the top activation leave of Callers, and the new top. *)
LEMMA TopMoved ==
    ASSUME Bound, Callers, NEW w, At(w), NEW v \in Pc, stack' = Goto(v)
    PROVE  Callers' /\ stack' # << >> /\ Top' = [Top EXCEPT !.pc = v]
  <1>1. PICK n \in Nat : n = Len(stack) /\ n >= 1
    BY TopFacts
  <1>2. /\ stack' # << >> /\ Len(stack') = n
        /\ \A i \in 1 .. n : i < n => stack'[i] = stack[i]
        /\ stack'[n] = [Top EXCEPT !.pc = v]
    BY <1>1, GotoFacts
  <1> QED
    BY <1>1, <1>2 DEF Callers, Top

(* The same when it calls itself for what is behind a packet, ... *)
LEMMA TopCalled ==
    ASSUME Bound, Callers, NEW w, At(w), NEW p \in Nat, stack' = Call("return", p)
    PROVE  Callers' /\ stack' # << >> /\ Top' = Activation(p)
  <1>1. PICK n \in Nat : n = Len(stack) /\ n >= 1
    BY TopFacts
  <1>2. /\ Goto("return") \in Seq(Act) /\ Len(Goto("return")) = n
        /\ \A i \in 1 .. n : i < n => Goto("return")[i] = stack[i]
        /\ Goto("return")[n] = [Top EXCEPT !.pc = "return"]
        /\ [Top EXCEPT !.pc = "return"].pc = "return"
    BY <1>1, GotoFacts, TopFacts DEF Pc, Act
  <1>3. Activation(p) \in Act
    BY DEF Activation, Act, Pc
  <1>4. /\ stack' # << >> /\ Len(stack') = n + 1
        /\ \A i \in 1 .. n : stack'[i] = Goto("return")[i]
        /\ stack'[n + 1] = Activation(p)
    BY <1>2, <1>3, Appended DEF Call
  <1>5. ASSUME NEW i \in 1 .. n PROVE stack'[i].pc = "return"
    <2>1. CASE i = n
      BY <1>2, <1>4, <2>1
    <2>2. CASE i < n
      BY <1>1, <1>2, <1>4, <2>2 DEF Callers
    <2> QED
      BY <2>1, <2>2
  <1> QED
    BY <1>4, <1>5 DEF Callers, Top

(* ... when it returns, ... *)
LEMMA TopPopped ==
    ASSUME Bound, Callers, NEW w, At(w), stack' = Popped
    PROVE  Callers' /\ (stack' # << >> => Top'.pc = "return")
  <1>1. PICK n \in Nat : n = Len(stack) /\ n >= 1 /\ n - 1 \in Nat
    BY TopFacts
  <1>2. /\ stack' \in Seq(Act) /\ Len(stack') = n - 1
        /\ \A i \in 1 .. n - 1 : stack'[i] = stack[i]
    BY <1>1, TopFacts, PoppedProperties DEF Popped
  <1>3. \A i \in 1 .. n - 1 : stack'[i].pc = "return"
    BY <1>1, <1>2 DEF Callers
  <1>4. stack' # << >> => n - 1 \in 1 .. n - 1
    BY <1>1, <1>2, EmptySeq
  <1> QED
    BY <1>1, <1>2, <1>3, <1>4 DEF Callers, Top

(* ... and when it has found a header. *)
LEMMA TopFound ==
    ASSUME Bound, Callers, Found
    PROVE  /\ Callers' /\ stack' # << >> /\ Top'.pc = "check"
           /\ Top'.start \in Nat /\ Top'.start >= Top.pos
  <1>0. /\ stack \in Seq(Act) /\ stack # << >> /\ Top \in Act
        /\ Top = stack[Len(stack)] /\ Len(stack) \in Nat
    BY TopFacts DEF Found
  <1> DEFINE Entered(h, d) ==
               stack' = [stack EXCEPT ![Len(stack)] =
                           [@ EXCEPT !.start = h, !.declared = d, !.pc = "check"]]
  <1>1. PICK h \in Header : IsNext(h, Top.pos) /\ \E d \in Declared(h) : Entered(h, d)
    BY DEF Found
  <1>2. PICK d \in Declared(h) : Entered(h, d)
    BY <1>1
  <1>3. h \in Nat /\ d \in Nat /\ h >= Top.pos
    BY <1>1, BufferFacts DEF Bound, IsNext
  <1> DEFINE a == [Top EXCEPT !.start = h, !.declared = d, !.pc = "check"]
  <1>4. a \in Act /\ a.start = h /\ a.pc = "check"
    BY <1>0, <1>3 DEF Act, Pc
  <1>5. stack' = [stack EXCEPT ![Len(stack)] = a]
    BY <1>2, <1>0
  <1>b. PICK b \in Act : b = a
    BY <1>4
  <1> HIDE DEF a
  <1>6. PICK n \in Nat : n = Len(stack)
    BY <1>0
  <1>7. /\ stack' # << >> /\ Len(stack') = n
        /\ \A i \in 1 .. n : i < n => stack'[i] = stack[i]
        /\ stack'[n] = a
    BY <1>0, <1>4, <1>5, <1>6, LastReplaced
  <1>8. Callers' /\ Top' = b
    BY <1>6, <1>7, <1>b DEF Callers, Top
  <1> QED
    BY <1>3, <1>4, <1>7, <1>8, <1>b

-----------------------------------------------------------------------------
(* An acknowledgement is never taken back. *)
LEMMA NoErrorBefore ==
    ASSUME Bound, [Next]_vars, NoError'
    PROVE  NoError /\ ~CrcBad
  <1> DEFINE Codes == {"SUCCESS", "CRC_ERROR"}
  <1>0. acks \in Seq(Nat \X Codes)
    BY DEF Bound, TypeOK
  <1>1. ASSUME NEW c \in Codes, NEW w, At(w), w # "enter",
               acks' = Append(acks, <<Top.start, c>>)
        PROVE  NoError /\ c = "SUCCESS"
    <2>1. <<Top.start, c>> \in Nat \X Codes
      BY <1>1, StartFacts
    <2>2. /\ Len(acks) \in Nat /\ Len(acks') = Len(acks) + 1
          /\ \A i \in 1 .. Len(acks) : acks'[i] = acks[i]
          /\ acks'[Len(acks) + 1] = <<Top.start, c>>
      BY <1>0, <1>1, <2>1, Appended
    <2>3. \A i \in 1 .. Len(acks) : acks[i][2] = "SUCCESS"
      BY <2>2 DEF NoError
    <2>4. acks'[Len(acks) + 1][2] = "SUCCESS"
      BY <2>2 DEF NoError
    <2> QED
      BY <2>2, <2>3, <2>4 DEF NoError
  <1>2. CrcGood => NoError
    BY <1>1 DEF CrcGood
  <1>4. UNCHANGED acks => NoError
    BY DEF NoError
  <1>5. UNCHANGED acks \/ CrcGood \/ CrcBad
    BY DEF Next, Found, NotFound, CrcFault, Callback, More, Return, Overflow, Done, vars
  <1>6. ~CrcBad
    BY <1>1 DEF CrcBad
  <1> QED
    BY <1>2, <1>4, <1>5, <1>6

(* Order is preserved by every step, as long as there is no CRC error. *)
LEMMA StraightStep ==
    ASSUME Bound, Straight, [Next]_vars, ~CrcBad
    PROVE  Straight'
  <1> DEFINE Codes == {"SUCCESS", "CRC_ERROR"}
  <1>0. /\ acks \in Seq(Nat \X Codes) /\ handled \in Seq(Nat)
        /\ Len(acks) \in Nat /\ Len(handled) \in Nat
        /\ \A i \in 1 .. Len(handled) : handled[i] \in Nat
    BY LenProperties, ElementOfSeq DEF Bound, TypeOK
  <1>a. Callers /\ Rows
    BY DEF Straight
  <1>b. ASSUME NEW w, At(w) PROVE AtTop(Top) /\ Top.pc = w /\ Top \in Act
    BY <1>b, TopFacts DEF Straight
  <1>1. CASE Found
    <2>1. At("enter") /\ UNCHANGED <<acks, handled>>
      BY <1>1 DEF Found
    <2>2. Below(Top.pos) /\ Settled(0) /\ Top.pos \in Nat
      BY <1>b, <2>1 DEF AtTop, Act
    <2>3. /\ Callers' /\ stack' # << >> /\ Top'.pc = "check"
          /\ Top'.start \in Nat /\ Top'.start >= Top.pos
      BY <1>1, <1>a, TopFound
    <2>4. Below(Top'.start)
      BY <1>0, <2>2, <2>3 DEF Below
    <2>5. AtTop(Top)'
      BY <2>1, <2>2, <2>3, <2>4 DEF AtTop, Below, Settled
    <2> QED
      BY <1>a, <2>1, <2>3, <2>5 DEF Straight, Rows
  <1>2. ASSUME NEW w, At(w), w # "callback", stack' = Popped, UNCHANGED <<acks, handled>>
        PROVE  Straight'
    <2>1. Settled(0)
      BY <1>2, <1>b DEF AtTop
    <2>2. Callers' /\ (stack' # << >> => Top'.pc = "return")
      BY <1>2, <1>a, TopPopped
    <2>3. stack' # << >> => AtTop(Top)'
      BY <1>2, <2>1, <2>2 DEF AtTop, Settled
    <2> QED
      BY <1>2, <1>a, <2>1, <2>2, <2>3 DEF Straight, Rows, Settled
  <1>3. CASE NotFound
    BY <1>2, <1>3 DEF NotFound
  <1>4. CASE Return
    BY <1>2, <1>4 DEF Return
  <1>5. CASE UNCHANGED <<stack, acks, handled>>
    BY <1>5 DEF Straight, Rows, Callers, AtTop, Below, Settled, Top
  <1>6. CASE CrcGood
    <2>1. /\ At("check") /\ stack' = Goto("callback") /\ handled' = handled
          /\ acks' = Append(acks, <<Top.start, "SUCCESS">>)
      BY <1>6 DEF CrcGood
    <2>2. Below(Top.start) /\ Settled(0) /\ Top \in Act
      BY <1>b, <2>1 DEF AtTop
    <2>3. Callers' /\ stack' # << >> /\ Top' = [Top EXCEPT !.pc = "callback"]
      BY <1>a, <2>1, TopMoved DEF Pc
    <2>4. <<Top.start, "SUCCESS">> \in Nat \X Codes
      BY <2>1, StartFacts
    <2>5. /\ Len(acks') = Len(acks) + 1
          /\ \A i \in 1 .. Len(acks) : acks'[i] = acks[i]
          /\ acks'[Len(acks) + 1] = <<Top.start, "SUCCESS">>
      BY <1>0, <2>1, <2>4, Appended
    <2>6. Rows'
      BY <1>0, <1>a, <2>1, <2>2, <2>5 DEF Rows, Settled
    <2>7. Top'.pc = "callback" /\ Top'.start = Top.start
      BY <2>2, <2>3 DEF Act
    <2>8. Settled(1)' /\ acks'[Len(handled) + 1][1] = Top.start
      BY <1>0, <2>1, <2>2, <2>5 DEF Settled
    <2>9. AtTop(Top)'
      BY <2>1, <2>2, <2>7, <2>8 DEF AtTop, Below
    <2> QED
      BY <2>3, <2>6, <2>9 DEF Straight
  <1>7. CASE Callback
    <2>1. /\ At("callback") /\ stack' = Goto("tail") /\ acks' = acks
          /\ handled' = Append(handled, Top.start)
      BY <1>7 DEF Callback
    <2>2. /\ Below(Top.start) /\ Settled(1) /\ acks[Len(handled) + 1][1] = Top.start
          /\ Top \in Act
      BY <1>b, <2>1 DEF AtTop
    <2>3. Callers' /\ stack' # << >> /\ Top' = [Top EXCEPT !.pc = "tail"]
      BY <1>a, <2>1, TopMoved DEF Pc
    <2>4. Top.start \in Nat
      BY <2>1, StartFacts
    <2>5. /\ Len(handled') = Len(handled) + 1
          /\ \A i \in 1 .. Len(handled) : handled'[i] = handled[i]
          /\ handled'[Len(handled) + 1] = Top.start
      BY <1>0, <2>1, <2>4, Appended
    <2>6. Rows'
      <3>1. ASSUME NEW i \in 1 .. Len(handled'), NEW j \in 1 .. Len(handled'), i < j
            PROVE  handled'[i] < handled'[j]
        <4>1. i \in 1 .. Len(handled) /\ handled'[i] = handled[i]
          BY <1>0, <2>5, <3>1
        <4>2. CASE j = Len(handled) + 1
          BY <2>2, <2>5, <4>1, <4>2 DEF Below
        <4>3. CASE j \in 1 .. Len(handled)
          BY <1>a, <2>5, <3>1, <4>1, <4>3 DEF Rows
        <4> QED
          BY <1>0, <2>5, <4>2, <4>3
      <3>2. ASSUME NEW i \in 1 .. Len(handled') PROVE acks'[i][1] = handled'[i]
        <4>1. CASE i = Len(handled) + 1
          BY <2>1, <2>2, <2>5, <4>1
        <4>2. CASE i \in 1 .. Len(handled)
          BY <1>a, <2>1, <2>5, <4>2 DEF Rows
        <4> QED
          BY <1>0, <2>5, <4>1, <4>2
      <3> QED
        BY <3>1, <3>2 DEF Rows
    <2>7. Top'.pc = "tail" /\ Top'.start = Top.start
      BY <2>2, <2>3 DEF Act
    <2>8. Below(Top.start + 1)'
      <3>1. \A i \in 1 .. Len(handled') : handled'[i] < Top.start + 1
        <4>1. ASSUME NEW i \in 1 .. Len(handled)
              PROVE  handled'[i] \in Nat /\ handled'[i] < Top.start
          BY <1>0, <2>2, <2>5 DEF Below
        <4>2. ASSUME NEW i \in 1 .. Len(handled'), i \notin 1 .. Len(handled)
              PROVE  i = Len(handled) + 1 /\ Top.start < Top.start + 1
          BY <1>0, <2>4, <2>5, <4>2
        <4>3. ASSUME NEW i \in 1 .. Len(handled), handled'[i] < Top.start
              PROVE  handled'[i] < Top.start + 1
          BY <2>4, <4>1, <4>3
        <4> QED
          BY <2>5, <4>1, <4>2, <4>3
      <3> QED
        BY <2>7, <3>1 DEF Below
    <2>9. Settled(0)'
      BY <1>0, <2>1, <2>2, <2>5 DEF Settled
    <2>10. AtTop(Top)'
      BY <2>7, <2>8, <2>9 DEF AtTop
    <2> QED
      BY <2>3, <2>6, <2>10 DEF Straight
  <1>8. CASE More
    <2> DEFINE p == Top.start + Size(Top.declared)
    <2>1. At("tail") /\ stack' = Call("return", p) /\ UNCHANGED <<acks, handled>>
      BY <1>8 DEF More, AfterFrame
    <2>2. Below(Top.start + 1) /\ Settled(0) /\ Top \in Act
      BY <1>b, <2>1 DEF AtTop
    <2>3. PICK q \in Nat : q = p /\ q >= Top.start + 1 /\ Top.start \in Nat
      BY <2>1, StartFacts
    <2>4. Callers' /\ stack' # << >> /\ Top' = Activation(q)
      BY <1>a, <2>1, <2>3, TopCalled
    <2>5. Top'.pc = "enter" /\ Top'.pos = q
      BY <2>4 DEF Activation
    <2>6. Below(q)
      BY <1>0, <2>2, <2>3 DEF Below
    <2>7. AtTop(Top)'
      BY <2>1, <2>2, <2>5, <2>6 DEF AtTop, Below, Settled
    <2> QED
      BY <1>a, <2>1, <2>4, <2>7 DEF Straight, Rows
  <1> QED
    BY <1>1, <1>3, <1>4, <1>5, <1>6, <1>7, <1>8 DEF Next, CrcFault, Overflow, Done, vars

-----------------------------------------------------------------------------
(* Where a buffer is begun. *)
Begun == /\ IsBuffer(buf) /\ stack = <<Activation(0)>>
         /\ acks = << >> /\ handled = << >> /\ fault = "none"

(* A buffer begins in the invariant, ... *)
LEMMA Beginning == Begun => Inductive
  <1> SUFFICES ASSUME Begun PROVE Inductive
    OBVIOUS
  <1>1. Activation(0) \in Act /\ Activation(0).pos = 0 /\ Activation(0).pc = "enter"
    BY DEF Activation, Act, Pc
  <1>2. stack \in Seq(Act) /\ Len(stack) = 1 /\ stack[1] = Activation(0)
    BY <1>1 DEF Begun
  <1>3. TypeOK
    BY <1>2, EmptySeq DEF Begun, TypeOK, Act
  <1>4. Frames
    BY <1>1, <1>2, <1>3, BufferFacts, SeenFacts DEF Frames, FrameOK
  <1>5. Straight
    BY <1>1, <1>2, EmptySeq
       DEF Begun, Straight, Rows, Callers, AtTop, Below, Settled, Top
  <1> QED
    BY <1>3, <1>4, <1>5 DEF Inductive, Bound

(* ... which every step preserves. *)
LEMMA InductiveStep == Inductive /\ [Next]_vars => Inductive'
  BY BoundStep, NoErrorBefore, StraightStep DEF Inductive

(* The inductive invariant holds in every reachable state. *)
THEOREM InductiveInvariant == Spec => []Inductive
  <1>1. Init => Inductive
    BY Beginning, BufferAssumption DEF Init, Begun
  <1> QED
    BY <1>1, InductiveStep, PTL DEF Spec

(* Every variable keeps its type. *)
THEOREM TypeCorrect == Spec => []TypeOK
  <1>1. Inductive => TypeOK
    BY DEF Inductive, Bound
  <1> QED
    BY <1>1, InductiveInvariant, PTL

(* The top activation sees a header fewer per level than the first. *)
LEMMA DepthFollows == Inductive => DepthBound
  <1> SUFFICES ASSUME Bound PROVE Len(stack) <= Cardinality(Header) + 1
    BY DEF Inductive, DepthBound
  <1>1. stack \in Seq(Act) /\ Len(stack) \in Nat
    BY LenProperties DEF Bound, TypeOK, Act
  <1>2. Cardinality(Header) \in Nat /\ \A p \in Nat : Seen(p) \in Nat
    BY SeenFacts DEF Bound
  <1>3. CASE Len(stack) > 0
    <2>1. Len(stack) \in 1 .. Len(stack)
      BY <1>1, <1>3
    <2>2. FrameOK(Len(stack)) /\ stack[Len(stack)] \in Act
      BY <1>1, <2>1, ElementOfSeq DEF Bound, Frames
    <2>3. Seen(stack[Len(stack)].pos) \in Nat
      BY <1>2, <2>2 DEF Act
    <2> QED
      BY <1>1, <1>2, <2>2, <2>3 DEF FrameOK
  <1> QED
    BY <1>1, <1>2, <1>3

(* In a read of n headers handle_packet calls itself n times at most       *)
(* before it returns.                                                      *)
THEOREM DepthCorrect == Spec => []DepthBound
  BY DepthFollows, InductiveInvariant, PTL

(* Without a CRC error Straight says more than the order. *)
LEMMA OrderFollows == Inductive => InOrder
  <1> SUFFICES ASSUME Bound, Straight
               PROVE  /\ \A i, j \in 1 .. Len(handled) : i < j => handled[i] < handled[j]
                      /\ Len(handled) <= Len(acks)
                      /\ \A i \in 1 .. Len(handled) : acks[i][1] = handled[i]
    BY DEF Inductive, InOrder
  <1>1. Len(acks) \in Nat /\ Len(handled) \in Nat
    BY LenProperties DEF Bound, TypeOK
  <1>2. Settled(0) \/ Settled(1)
    BY DEF Straight, AtTop
  <1> QED
    BY <1>1, <1>2 DEF Straight, Rows, Settled

(* Without a CRC error, packets are handed over in order, once each, and   *)
(* acknowledged before.                                                    *)
THEOREM OrderCorrect == Spec => []InOrder
  BY OrderFollows, InductiveInvariant, PTL

-----------------------------------------------------------------------------
(* The stack after a move, a call and a return of the top activation. *)
LEMMA ShapeMoved ==
    ASSUME Bound, NEW w, At(w), NEW v \in Pc, stack' = Goto(v)
    PROVE  /\ stack' # << >> /\ Len(stack') = Len(stack)
           /\ \A i \in 1 .. Len(stack) : i < Len(stack) => stack'[i] = stack[i]
           /\ Top'.pc = v /\ Top'.start = Top.start /\ Top'.declared = Top.declared
  <1>1. /\ stack' # << >> /\ Len(stack') = Len(stack)
        /\ \A i \in 1 .. Len(stack) : i < Len(stack) => stack'[i] = stack[i]
        /\ Top' = [Top EXCEPT !.pc = v] /\ Top \in Act
    BY GotoFacts, TopFacts DEF Top
  <1> QED
    BY <1>1 DEF Act

(* The same when it calls itself, ... *)
LEMMA ShapeCalled ==
    ASSUME Bound, NEW w, At(w), NEW v \in Pc, NEW p \in Nat, stack' = Call(v, p)
    PROVE  /\ stack' # << >> /\ Len(stack) \in Nat /\ Len(stack') = Len(stack) + 1
           /\ \A i \in 1 .. Len(stack) : i < Len(stack) => stack'[i] = stack[i]
           /\ stack'[Len(stack)].pc = v /\ stack'[Len(stack)].start = Top.start
           /\ stack'[Len(stack)].declared = Top.declared
           /\ Top'.pc = "enter" /\ Top'.pos = p
  <1>1. PICK n \in Nat : n = Len(stack) /\ n >= 1
    BY TopFacts
  <1>2. /\ Goto(v) \in Seq(Act) /\ Len(Goto(v)) = n /\ Top \in Act
        /\ \A i \in 1 .. n : i < n => Goto(v)[i] = stack[i]
        /\ Goto(v)[n] = [Top EXCEPT !.pc = v]
    BY <1>1, GotoFacts, TopFacts
  <1>3. Activation(p) \in Act /\ Activation(p).pc = "enter" /\ Activation(p).pos = p
    BY DEF Activation, Act, Pc
  <1>4. /\ stack' # << >> /\ Len(stack') = n + 1
        /\ \A i \in 1 .. n : stack'[i] = Goto(v)[i]
        /\ stack'[n + 1] = Activation(p)
    BY <1>2, <1>3, Appended DEF Call
  <1>5. /\ stack'[n].pc = v /\ stack'[n].start = Top.start
        /\ stack'[n].declared = Top.declared
    <2>1. stack'[n] = [Top EXCEPT !.pc = v]
      BY <1>1, <1>2, <1>4
    <2> QED
      BY <1>2, <2>1 DEF Act
  <1>6. Top' = Activation(p)
    BY <1>4 DEF Top
  <1> QED
    BY <1>1, <1>2, <1>3, <1>4, <1>5, <1>6

(* ... when it returns, ... *)
LEMMA ShapePopped ==
    ASSUME Bound, NEW w, At(w), stack' = Popped
    PROVE  /\ Len(stack) \in Nat /\ Len(stack') = Len(stack) - 1
           /\ \A i \in 1 .. Len(stack') : i < Len(stack) /\ stack'[i] = stack[i]
           /\ stack' # << >> => /\ Len(stack') \in 1 .. Len(stack)
                               /\ Len(stack') < Len(stack)
                               /\ Top' = stack[Len(stack')]
  <1>1. PICK n \in Nat : n = Len(stack) /\ n >= 1 /\ n - 1 \in Nat
    BY TopFacts
  <1>2. /\ stack' \in Seq(Act) /\ Len(stack') = n - 1
        /\ \A i \in 1 .. n - 1 : stack'[i] = stack[i]
    BY <1>1, TopFacts, PoppedProperties DEF Popped
  <1>3. stack' # << >> => n - 1 \in 1 .. n - 1
    BY <1>1, <1>2, EmptySeq
  <1> QED
    BY <1>1, <1>2, <1>3 DEF Top

(* ... and when it has found a header. *)
LEMMA ShapeFound ==
    ASSUME Bound, Found
    PROVE  /\ stack' # << >> /\ Len(stack') = Len(stack)
           /\ \A i \in 1 .. Len(stack) : i < Len(stack) => stack'[i] = stack[i]
           /\ Top'.pc = "check" /\ Top'.start \in Header
           /\ IsNext(Top'.start, Top.pos) /\ Top'.declared \in Declared(Top'.start)
  <1>0. /\ stack \in Seq(Act) /\ stack # << >> /\ Top \in Act
        /\ Top = stack[Len(stack)] /\ Len(stack) \in Nat
    BY TopFacts DEF Found
  <1> DEFINE Entered(h, d) ==
               stack' = [stack EXCEPT ![Len(stack)] =
                           [@ EXCEPT !.start = h, !.declared = d, !.pc = "check"]]
  <1>1. PICK h \in Header : IsNext(h, Top.pos) /\ \E d \in Declared(h) : Entered(h, d)
    BY DEF Found
  <1>2. PICK d \in Declared(h) : Entered(h, d)
    BY <1>1
  <1>3. h \in Nat /\ d \in Nat
    BY BufferFacts DEF Bound
  <1> DEFINE a == [Top EXCEPT !.start = h, !.declared = d, !.pc = "check"]
  <1>4. a \in Act /\ a.start = h /\ a.pc = "check" /\ a.declared = d
    BY <1>0, <1>3 DEF Act, Pc
  <1>5. stack' = [stack EXCEPT ![Len(stack)] = a]
    BY <1>2, <1>0
  <1> HIDE DEF a
  <1>6. /\ stack' # << >> /\ Len(stack') = Len(stack)
        /\ \A i \in 1 .. Len(stack) : i < Len(stack) => stack'[i] = stack[i]
        /\ stack'[Len(stack)] = a
    BY <1>0, <1>4, <1>5, LastReplaced
  <1>7. Top' = a
    BY <1>6 DEF Top
  <1> QED
    BY <1>1, <1>2, <1>4, <1>6, <1>7

-----------------------------------------------------------------------------
(* What the scan of the reference knows: what has been acknowledged.       *)
Acked == {acks[i][1] : i \in 1 .. Len(acks)}

(* The first header from p on has been, or is being, looked at. *)
Came(p) ==
    \/ Reaches(Acked, p)
    \/ stack # << >> /\ Top.pc = "enter" /\ Top.pos = p
    \/ stack # << >> /\ Top.pc = "check" /\ IsNext(Top.start, p)

(* An activation still has to go on behind the good packet at h. *)
Waits(h) == \E i \in 1 .. Len(stack) :
               stack[i].pc \in {"callback", "tail"} /\ stack[i].start = h

HasRead(a) == a.pc # "enter" => a.declared \in Declared(a.start)
AllRead == \A i \in 1 .. Len(stack) : HasRead(stack[i])

Continued == \A h \in Acked : Whole(h) => Came(Onward(h)) \/ (Good(h) /\ Waits(h))

Delivered ==
    \A h \in Acked : Whole(h) /\ Good(h) =>
        h \in Handled \/ (stack # << >> /\ Top.pc = "callback" /\ Top.start = h)

Lossless == AllRead /\ Came(0) /\ Continued /\ Delivered

(* Where the top activation stands in a buffer of whole packets. *)
InScan(a) ==
    /\ a.pc = "enter" => Reaches(Visited, a.pos)
    /\ a.pc = "check" => a.start \in Visited
    /\ a.pc \in {"callback", "tail"} => a.start \in Scan

Contained == /\ Handled \subseteq Scan
             /\ stack # << >> => InScan(Top)

Complete == Lossless /\ (NoError /\ (\A h \in Header : Whole(h)) => Contained)

(* The buffer stays, and with it what the scan makes of it. *)
LEMMA ScanStays ==
    ASSUME buf' = buf
    PROVE  /\ Header' = Header /\ Visited' = Visited /\ Scan' = Scan
           /\ \A h : (Whole(h)' <=> Whole(h)) /\ (Good(h)' <=> Good(h))
           /\ \A h : Onward(h)' = Onward(h)
  BY DEF Header, Visited, Scan, Closed, Reaches, IsNext, Whole, Good, Onward, Verdict, Size

(* The scan is closed under its own rules. *)
LEMMA VisitedClosed == Closed(Visited)
  <1>1. ASSUME NEW g \in Header, IsNext(g, 0) PROVE g \in Visited
    BY <1>1 DEF Visited, Closed, Reaches
  <1>2. ASSUME NEW h \in Visited, Whole(h), NEW g \in Header, IsNext(g, Onward(h))
        PROVE  g \in Visited
    <2>1. ASSUME NEW S \in SUBSET Header, Closed(S) PROVE g \in S
      <3>1. h \in S
        BY <2>1 DEF Visited
      <3> QED
        BY <1>2, <2>1, <3>1 DEF Closed, Reaches
    <2> QED
      BY <2>1 DEF Visited
  <1> QED
    BY <1>1, <1>2 DEF Closed, Reaches

(* There is one verdict on a packet that is all there. *)
LEMMA VerdictFacts ==
    ASSUME NEW h, NEW d, h + Size(d) <= buf.len
    PROVE  ~(TRUE \in Verdict(h, d) /\ FALSE \in Verdict(h, d))
  <1>1. CASE d < 3
    <2>1. Verdict(h, d) = {FALSE}
      BY <1>1, Zenon DEF Verdict
    <2> QED
      BY <2>1, Zenon
  <1>2. CASE ~(d < 3)
    <2>1. Verdict(h, d) = {h \in buf.intact}
      BY <1>2, Zenon DEF Verdict
    <2>2. h \in buf.intact => FALSE \notin Verdict(h, d)
      BY <2>1
    <2>3. h \notin buf.intact => TRUE \notin Verdict(h, d)
      BY <2>1
    <2> QED
      BY <2>2, <2>3
  <1> QED
    BY <1>1, <1>2

(* The packet the top activation is at. *)
LEMMA PacketFacts ==
    ASSUME Bound, AllRead, NEW w, At(w), w # "enter"
    PROVE  /\ Top.start \in Header /\ Top.start \in Nat /\ Top.declared \in Nat
           /\ Whole(Top.start) => /\ Top.declared = buf.declared[Top.start]
                                  /\ TRUE \in Verdict(Top.start, Top.declared)
                                       => Good(Top.start)
                                  /\ FALSE \in Verdict(Top.start, Top.declared)
                                       => ~Good(Top.start)
  <1>1. /\ Len(stack) \in Nat /\ Len(stack) >= 1 /\ Top = stack[Len(stack)] /\ Top.pc = w
        /\ FrameOK(Len(stack))
    BY TopFacts
  <1>2. Top.start \in Header /\ Top.start \in Nat /\ Top.declared \in Nat
    BY <1>1, StartFacts DEF FrameOK
  <1>3. Top.declared \in Declared(Top.start)
    BY <1>1 DEF AllRead, HasRead
  <1>4. Whole(Top.start) => Top.declared = buf.declared[Top.start]
    BY <1>3 DEF Declared, Whole
  <1>5. ASSUME Whole(Top.start)
        PROVE  /\ TRUE \in Verdict(Top.start, Top.declared) => Good(Top.start)
               /\ FALSE \in Verdict(Top.start, Top.declared) => ~Good(Top.start)
    <2>1. Top.start + Size(Top.declared) <= buf.len
      BY <1>4, <1>5 DEF Whole
    <2>2. Good(Top.start) <=> TRUE \in Verdict(Top.start, Top.declared)
      BY <1>4, <1>5 DEF Good
    <2> QED
      BY <2>1, <2>2, VerdictFacts
  <1> QED
    BY <1>2, <1>4, <1>5

(* An acknowledgement is one of the top activation's header, ... *)
LEMMA AckedGrows ==
    ASSUME Bound, NEW w, At(w), w # "enter", NEW c \in {"SUCCESS", "CRC_ERROR"},
           acks' = Append(acks, <<Top.start, c>>)
    PROVE  Acked' = Acked \cup {Top.start}
  <1>1. /\ acks \in Seq(Nat \X {"SUCCESS", "CRC_ERROR"})
        /\ <<Top.start, c>> \in Nat \X {"SUCCESS", "CRC_ERROR"}
    BY StartFacts DEF Bound, TypeOK
  <1>2. /\ Len(acks) \in Nat /\ Len(acks') = Len(acks) + 1
        /\ \A i \in 1 .. Len(acks) : acks'[i] = acks[i]
        /\ acks'[Len(acks) + 1] = <<Top.start, c>>
    BY <1>1, Appended
  <1>3. <<Top.start, c>>[1] = Top.start
    OBVIOUS
  <1> QED
    BY <1>2, <1>3 DEF Acked

(* ... and a packet handed over is that header's. *)
LEMMA HandledGrows ==
    ASSUME Bound, At("callback"), handled' = Append(handled, Top.start)
    PROVE  Handled' = Handled \cup {Top.start}
  <1>1. handled \in Seq(Nat) /\ Top.start \in Nat
    BY StartFacts DEF Bound, TypeOK
  <1>2. /\ Len(handled) \in Nat /\ Len(handled') = Len(handled) + 1
        /\ \A i \in 1 .. Len(handled) : handled'[i] = handled[i]
        /\ handled'[Len(handled) + 1] = Top.start
    BY <1>1, Appended
  <1> QED
    BY <1>2 DEF Handled

(* What came stays ... *)
LEMMA CameReached ==
    ASSUME buf' = buf, NEW p, \A g \in Header : IsNext(g, p) => g \in Acked'
    PROVE  Came(p)'
  BY DEF Came, Reaches, IsNext, Header

(* What the scan has come to stays come to when the top header is          *)
(* acknowledged, ...                                                       *)
LEMMA CameChecked ==
    ASSUME Bound, Top.pc = "check", buf' = buf, Acked' = Acked \cup {Top.start},
           NEW p, Came(p)
    PROVE  Came(p)'
  <1>1. \A h \in Header : h \in Nat
    BY BufferFacts DEF Bound
  <1>2. CASE Reaches(Acked, p)
    BY <1>2, CameReached DEF Reaches
  <1>3. CASE IsNext(Top.start, p)
    <2>1. ASSUME NEW g \in Header, IsNext(g, p) PROVE g = Top.start
      BY <1>1, <1>3, <2>1 DEF IsNext
    <2> QED
      BY <2>1, CameReached
  <1> QED
    BY <1>2, <1>3 DEF Came

(* ... and so does what is behind a packet. *)
LEMMA CameOnward ==
    ASSUME buf' = buf, NEW h, NEW q, q = Onward(h), Came(q)'
    PROVE  Came(Onward(h))'
  <1>1. Onward(h)' = q
    BY ScanStays
  <1> QED
    BY <1>1 DEF Came, Reaches, IsNext

(* ... and so does what waits, ... *)
LEMMA WaitsStays ==
    ASSUME Len(stack) \in Nat, Len(stack') \in Nat, Len(stack') >= Len(stack) - 1,
           \A i \in 1 .. Len(stack) : i < Len(stack) => stack'[i] = stack[i],
           NEW h, Waits(h), Top.pc \notin {"callback", "tail"} \/ Top.start # h
    PROVE  Waits(h)'
  <1>1. PICK i \in 1 .. Len(stack) :
               stack[i].pc \in {"callback", "tail"} /\ stack[i].start = h
    BY DEF Waits
  <1>2. i # Len(stack)
    BY <1>1 DEF Top
  <1>3. i \in 1 .. Len(stack') /\ stack'[i] = stack[i]
    BY <1>2
  <1> QED
    BY <1>1, <1>3 DEF Waits

(* Lengths that were read stay read, ... *)
LEMMA ReadStays ==
    ASSUME AllRead, buf' = buf,
           \A i \in 1 .. Len(stack') :
              (i \in 1 .. Len(stack) /\ stack'[i] = stack[i]) \/ HasRead(stack'[i])
    PROVE  AllRead'
  <1>1. \A i \in 1 .. Len(stack') : HasRead(stack'[i])
    BY DEF AllRead
  <1> QED
    BY <1>1 DEF AllRead, HasRead, Declared

(* ... through a call, too. *)
LEMMA ReadCalled ==
    ASSUME Bound, AllRead, NEW w, At(w), w # "enter", buf' = buf,
           Len(stack) \in Nat, Len(stack) >= 1, Len(stack') = Len(stack) + 1,
           \A i \in 1 .. Len(stack) : i < Len(stack) => stack'[i] = stack[i],
           stack'[Len(stack)].start = Top.start,
           stack'[Len(stack)].declared = Top.declared, Top'.pc = "enter"
    PROVE  AllRead'
  <1>1. Top.pc = w /\ Top = stack[Len(stack)]
    BY TopFacts
  <1>2. HasRead(stack'[Len(stack)])
    BY <1>1 DEF AllRead, HasRead
  <1>3. HasRead(stack'[Len(stack) + 1])
    BY DEF HasRead, Top
  <1>4. ASSUME NEW i \in 1 .. Len(stack')
        PROVE  i < Len(stack) \/ i = Len(stack) \/ i = Len(stack) + 1
    OBVIOUS
  <1> QED
    BY <1>2, <1>3, <1>4, ReadStays

(* ... so a step that acknowledges nothing loses nothing, if what came     *)
(* still has, what waits still does, and what is at the callback gets there. *)
LEMMA LosslessStays ==
    ASSUME Lossless, AllRead', buf' = buf, Acked' = Acked, Handled \subseteq Handled',
           \A p : Came(p) => Came(p)',
           \A h : Whole(h) /\ Good(h) /\ Waits(h) => Waits(h)' \/ Came(Onward(h))',
           (stack # << >> /\ Top.pc = "callback") =>
              Top.start \in Handled'
    PROVE  Lossless'
  <1>1. Came(0)'
    BY DEF Lossless
  <1>2. ASSUME NEW h \in Acked', Whole(h)'
        PROVE  Came(Onward(h))' \/ (Good(h)' /\ Waits(h)')
    <2>1. h \in Acked /\ Whole(h) /\ (Good(h)' <=> Good(h))
      BY <1>2, ScanStays
    <2>2. CASE Came(Onward(h))
      <3>1. PICK q : q = Onward(h)
        OBVIOUS
      <3>2. Came(q)
        BY <2>2, <3>1
      <3> QED
        BY <3>1, <3>2, CameOnward
    <2>3. CASE Good(h) /\ Waits(h)
      BY <2>1, <2>3
    <2> QED
      BY <2>1, <2>2, <2>3 DEF Lossless, Continued
  <1>3. Delivered'
    BY ScanStays DEF Lossless, Delivered
  <1> QED
    BY <1>1, <1>2, <1>3 DEF Lossless, Continued

(* Lossless behind each action: a header is found, ... *)
LEMMA LosslessFound ==
    ASSUME Bound, Lossless, Found
    PROVE  Lossless'
  <1>1. At("enter") /\ stack # << >> /\ Top.pc = "enter" /\ UNCHANGED <<buf, acks, handled>>
    BY DEF Found, At
  <1>2. /\ stack' # << >> /\ Len(stack') = Len(stack) /\ Len(stack) \in Nat
        /\ \A i \in 1 .. Len(stack) : i < Len(stack) => stack'[i] = stack[i]
        /\ Top'.pc = "check" /\ IsNext(Top'.start, Top.pos)
        /\ Top'.declared \in Declared(Top'.start)
    BY <1>1, ShapeFound, TopFacts
  <1>3. AllRead'
    <2>1. ASSUME NEW i \in 1 .. Len(stack'), ~(i < Len(stack)) PROVE HasRead(stack'[i])
      BY <1>2, <2>1 DEF HasRead, Top
    <2> QED
      BY <1>1, <1>2, <2>1, ReadStays DEF Lossless
  <1>4. ASSUME NEW p, Came(p) PROVE Came(p)'
    <2>1. CASE Reaches(Acked, p)
      BY <1>1, <2>1, CameReached DEF Reaches, Acked
    <2>2. CASE Top.pos = p
      BY <1>1, <1>2, <2>2 DEF Came, IsNext, Header
    <2> QED
      BY <1>1, <1>4, <2>1, <2>2 DEF Came
  <1>5. ASSUME NEW h, Waits(h) PROVE Waits(h)'
    BY <1>1, <1>2, <1>5, WaitsStays
  <1> QED
    BY <1>1, <1>3, <1>4, <1>5, LosslessStays DEF Acked, Handled

(* ... its CRC is right, ... *)
LEMMA LosslessGood ==
    ASSUME Bound, Lossless, CrcGood
    PROVE  Lossless'
  <1>1. /\ At("check") /\ stack # << >> /\ Top.pc = "check" /\ UNCHANGED <<buf, handled>>
        /\ stack' = Goto("callback") /\ TRUE \in Verdict(Top.start, Top.declared)
        /\ acks' = Append(acks, <<Top.start, "SUCCESS">>)
    BY DEF CrcGood, At
  <1>2. /\ stack' # << >> /\ Len(stack') = Len(stack) /\ Len(stack) \in Nat
        /\ Len(stack) >= 1
        /\ \A i \in 1 .. Len(stack) : i < Len(stack) => stack'[i] = stack[i]
        /\ Top'.pc = "callback" /\ Top'.start = Top.start
        /\ Top'.declared = Top.declared
    BY <1>1, ShapeMoved, TopFacts DEF Pc
  <1>3. Acked' = Acked \cup {Top.start}
    BY <1>1, AckedGrows
  <1>4. AllRead'
    <2>1. HasRead(Top)
      BY <1>2 DEF Lossless, AllRead, Top
    <2>2. ASSUME NEW i \in 1 .. Len(stack'), ~(i < Len(stack)) PROVE HasRead(stack'[i])
      <3>1. stack'[i] = Top'
        BY <1>2, <2>2 DEF Top
      <3> QED
        BY <1>1, <1>2, <2>1, <3>1 DEF HasRead
    <2> QED
      BY <1>1, <1>2, <2>2, ReadStays DEF Lossless
  <1>5. ASSUME NEW p, Came(p) PROVE Came(p)'
    BY <1>1, <1>3, <1>5, CameChecked
  <1>6. ASSUME NEW h \in Acked', Whole(h)'
        PROVE  Came(Onward(h))' \/ (Good(h)' /\ Waits(h)')
    <2>1. Whole(h) /\ (Good(h)' <=> Good(h))
      BY <1>1, <1>6, ScanStays
    <2>2. CASE h = Top.start
      <3>1. Good(h)
        BY <1>1, <2>1, <2>2, PacketFacts DEF Lossless
      <3>2. Waits(h)'
        <4>1. Len(stack') \in 1 .. Len(stack')
          BY <1>2
        <4> QED
          BY <1>2, <2>2, <4>1 DEF Waits, Top
      <3> QED
        BY <2>1, <3>1, <3>2
    <2>3. CASE h \in Acked /\ Came(Onward(h))
      <3>1. PICK q : q = Onward(h)
        OBVIOUS
      <3>2. Came(q)
        BY <2>3, <3>1
      <3> QED
        BY <1>1, <1>5, <3>1, <3>2, CameOnward
    <2>4. CASE h \in Acked /\ Good(h) /\ Waits(h)
      BY <1>1, <1>2, <2>1, <2>4, WaitsStays
    <2> QED
      BY <1>3, <2>1, <2>2, <2>3, <2>4 DEF Lossless, Continued
  <1>7. Delivered'
    BY <1>1, <1>2, <1>3, ScanStays DEF Lossless, Delivered, Handled
  <1> QED
    BY <1>4, <1>5, <1>6, <1>7 DEF Lossless, Continued

(* ... or wrong, ... *)
LEMMA LosslessBad ==
    ASSUME Bound, Lossless, CrcBad
    PROVE  Lossless'
  <1>1. /\ At("check") /\ stack # << >> /\ Top.pc = "check" /\ UNCHANGED <<buf, handled>>
        /\ stack' = Call("tail", Top.start + 2)
        /\ FALSE \in Verdict(Top.start, Top.declared)
        /\ acks' = Append(acks, <<Top.start, "CRC_ERROR">>)
    BY DEF CrcBad, At, Resync
  <1>2. /\ Top.start + 2 \in Nat
        /\ Whole(Top.start) => ~Good(Top.start)
    <2>1. Top.start \in Nat
      BY <1>1, StartFacts
    <2>2. AllRead
      BY DEF Lossless
    <2>3. Whole(Top.start) =>
            (FALSE \in Verdict(Top.start, Top.declared) => ~Good(Top.start))
      BY <1>1, <2>2, PacketFacts
    <2> QED
      BY <1>1, <2>1, <2>3
  <1>3. /\ stack' # << >> /\ Len(stack) \in Nat /\ Len(stack) >= 1
        /\ Len(stack') = Len(stack) + 1
        /\ \A i \in 1 .. Len(stack) : i < Len(stack) => stack'[i] = stack[i]
        /\ stack'[Len(stack)].start = Top.start
        /\ stack'[Len(stack)].declared = Top.declared
        /\ Top'.pc = "enter" /\ Top'.pos = Top.start + 2
    BY <1>1, <1>2, ShapeCalled, TopFacts DEF Pc
  <1>4. Acked' = Acked \cup {Top.start}
    BY <1>1, AckedGrows
  <1>5. AllRead'
    BY <1>1, <1>3, ReadCalled DEF Lossless
  <1>6. ASSUME NEW p, Came(p) PROVE Came(p)'
    BY <1>1, <1>4, <1>6, CameChecked
  <1>7. ASSUME NEW h \in Acked', Whole(h)'
        PROVE  Came(Onward(h))' \/ (Good(h)' /\ Waits(h)')
    <2>1. Whole(h) /\ (Good(h)' <=> Good(h))
      BY <1>1, <1>7, ScanStays
    <2>2. CASE h = Top.start
      <3>1. PICK q : q = Onward(h)
        OBVIOUS
      <3>2. q = Top.start + 2
        BY <1>2, <2>1, <2>2, <3>1 DEF Onward
      <3>3. Came(q)'
        BY <1>3, <3>2 DEF Came
      <3> QED
        BY <1>1, <3>1, <3>3, CameOnward
    <2>3. CASE h \in Acked /\ Came(Onward(h))
      <3>1. PICK q : q = Onward(h)
        OBVIOUS
      <3>2. Came(q)
        BY <2>3, <3>1
      <3> QED
        BY <1>1, <1>6, <3>1, <3>2, CameOnward
    <2>4. CASE h \in Acked /\ Good(h) /\ Waits(h)
      BY <1>1, <1>3, <2>1, <2>4, WaitsStays
    <2> QED
      BY <1>4, <2>1, <2>2, <2>3, <2>4 DEF Lossless, Continued
  <1>8. Delivered'
    BY <1>1, <1>2, <1>4, ScanStays DEF Lossless, Delivered, Handled
  <1> QED
    BY <1>5, <1>6, <1>7, <1>8 DEF Lossless, Continued

(* ... its packet is handed over, ... *)
LEMMA LosslessCallback ==
    ASSUME Bound, Lossless, Callback
    PROVE  Lossless'
  <1>1. /\ At("callback") /\ stack # << >> /\ Top.pc = "callback" /\ UNCHANGED <<buf, acks>>
        /\ stack' = Goto("tail") /\ handled' = Append(handled, Top.start)
    BY DEF Callback, At
  <1>2. /\ stack' # << >> /\ Len(stack') = Len(stack) /\ Len(stack) \in Nat
        /\ Len(stack) >= 1
        /\ \A i \in 1 .. Len(stack) : i < Len(stack) => stack'[i] = stack[i]
        /\ Top'.pc = "tail" /\ Top'.start = Top.start
        /\ Top'.declared = Top.declared
    BY <1>1, ShapeMoved, TopFacts DEF Pc
  <1>3. Handled' = Handled \cup {Top.start}
    BY <1>1, HandledGrows
  <1>4. AllRead'
    <2>1. HasRead(Top)
      BY <1>2 DEF Lossless, AllRead, Top
    <2>2. ASSUME NEW i \in 1 .. Len(stack'), ~(i < Len(stack)) PROVE HasRead(stack'[i])
      <3>1. stack'[i] = Top'
        BY <1>2, <2>2 DEF Top
      <3> QED
        BY <1>1, <1>2, <2>1, <3>1 DEF HasRead
    <2> QED
      BY <1>1, <1>2, <2>2, ReadStays DEF Lossless
  <1>5. ASSUME NEW p, Came(p) PROVE Came(p)'
    BY <1>1, <1>5, CameReached DEF Came, Reaches, Acked
  <1>6. ASSUME NEW h, Waits(h) PROVE Waits(h)'
    <2>1. CASE h = Top.start
      <3>1. Len(stack') \in 1 .. Len(stack')
        BY <1>2
      <3> QED
        BY <1>2, <2>1, <3>1 DEF Waits, Top
    <2>2. CASE h # Top.start
      BY <1>2, <1>6, <2>2, WaitsStays
    <2> QED
      BY <2>1, <2>2
  <1> QED
    BY <1>1, <1>3, <1>4, <1>5, <1>6, LosslessStays DEF Acked

(* ... there is more behind it, ... *)
LEMMA LosslessMore ==
    ASSUME Bound, Lossless, More
    PROVE  Lossless'
  <1> DEFINE p == Top.start + Size(Top.declared)
  <1>1. /\ At("tail") /\ stack # << >> /\ Top.pc = "tail" /\ UNCHANGED <<buf, acks, handled>>
        /\ stack' = Call("return", p)
    BY DEF More, At, AfterFrame
  <1>2. /\ p \in Nat
        /\ Whole(Top.start) /\ Good(Top.start) => Onward(Top.start) = p
    <2>1. p \in Nat
      BY <1>1, StartFacts
    <2> QED
      BY <1>1, <2>1, PacketFacts DEF Lossless, Onward
  <1> HIDE DEF p
  <1>3. /\ stack' # << >> /\ Len(stack) \in Nat /\ Len(stack) >= 1
        /\ Len(stack') = Len(stack) + 1
        /\ \A i \in 1 .. Len(stack) : i < Len(stack) => stack'[i] = stack[i]
        /\ stack'[Len(stack)].start = Top.start
        /\ stack'[Len(stack)].declared = Top.declared
        /\ Top'.pc = "enter" /\ Top'.pos = p
    BY <1>1, <1>2, ShapeCalled, TopFacts DEF Pc
  <1>4. AllRead'
    BY <1>1, <1>3, ReadCalled DEF Lossless
  <1>5. ASSUME NEW q, Came(q) PROVE Came(q)'
    BY <1>1, <1>5, CameReached DEF Came, Reaches, Acked
  <1>6. ASSUME NEW h, Whole(h), Good(h), Waits(h) PROVE Waits(h)' \/ Came(Onward(h))'
    <2>1. CASE h = Top.start
      <3>1. PICK q : q = Onward(h)
        OBVIOUS
      <3>2. Came(q)'
        BY <1>2, <1>3, <1>6, <2>1, <3>1 DEF Came
      <3> QED
        BY <1>1, <3>1, <3>2, CameOnward
    <2>2. CASE h # Top.start
      BY <1>3, <1>6, <2>2, WaitsStays
    <2> QED
      BY <2>1, <2>2
  <1> QED
    BY <1>1, <1>4, <1>5, <1>6, LosslessStays DEF Acked, Handled

(* Where an activation returns there is nothing left behind it. *)
LEMMA LosslessReturn ==
    ASSUME Bound, Lossless, NotFound \/ Return
    PROVE  Lossless'
  <1>1. PICK w : /\ At(w) /\ stack # << >> /\ Top.pc = w /\ stack' = Popped
                 /\ UNCHANGED <<buf, acks, handled>> /\ w \in {"enter", "tail", "return"}
    BY DEF NotFound, Return, At
  <1>2. /\ Len(stack) \in Nat /\ Len(stack) >= 1 /\ Len(stack') = Len(stack) - 1
        /\ \A i \in 1 .. Len(stack') : i < Len(stack) /\ stack'[i] = stack[i]
    BY <1>1, ShapePopped, TopFacts
  <1>3. AllRead'
    BY <1>1, <1>2, ReadStays DEF Lossless
  <1>4. ASSUME NEW p, Came(p) PROVE Came(p)'
    <2>1. CASE Reaches(Acked, p)
      BY <1>1, <2>1, CameReached DEF Reaches, Acked
    <2>2. CASE Top.pc = "enter" /\ Top.pos = p
      <3>1. NoHeader(p)
        BY <1>1, <2>2 DEF NotFound, Return, At
      <3>2. p \in Nat /\ \A h \in Header : h \in Nat
        BY <1>1, <2>2, TopFacts, BufferFacts DEF Act, Bound
      <3> QED
        BY <1>1, <3>1, <3>2, CameReached DEF NoHeader, IsNext
    <2> QED
      BY <1>1, <1>4, <2>1, <2>2 DEF Came
  <1>5. ASSUME NEW h, Whole(h), Good(h), Waits(h) PROVE Waits(h)' \/ Came(Onward(h))'
    <2>1. CASE w = "tail" /\ h = Top.start
      <3>1. /\ Top.start \in Nat /\ Top.declared \in Nat
            /\ Top.declared >= buf.len - Top.start
            /\ Onward(h) = Top.start + Size(Top.declared)
        <4>1. At("tail") /\ Top.pc = "tail"
          BY <1>1, <2>1
        <4>2. Top.declared >= buf.len - Top.start
          BY <4>1 DEF NotFound, Return, At
        <4> QED
          BY <1>5, <2>1, <4>1, <4>2, PacketFacts DEF Lossless, Onward
      <3>2. buf.len \in Nat /\ buf.len <= MAX_SIZE
        BY SizeAssumption DEF Bound, TypeOK, IsBuffer
      <3>3. PICK q \in Nat : q = Onward(h) /\ q >= buf.len
        <4>1. /\ Size(Top.declared) \in Nat
              /\ Top.start + Size(Top.declared) >= buf.len
          BY <3>1, <3>2, SizeAssumption DEF Size
        <4> QED
          BY <3>1, <4>1
      <3>4. \A g \in Header : g \in Nat /\ g <= buf.len - 2
        BY BufferFacts DEF Bound
      <3>5. Came(q)'
        BY <1>1, <3>2, <3>3, <3>4, CameReached DEF IsNext
      <3> QED
        BY <1>1, <3>3, <3>5, CameOnward
    <2>2. CASE w # "tail" \/ h # Top.start
      <3>1. \A i \in 1 .. Len(stack) : i < Len(stack) => stack'[i] = stack[i]
        BY <1>2
      <3>2. Top.pc \notin {"callback", "tail"} \/ Top.start # h
        BY <1>1, <2>2
      <3> QED
        BY <1>2, <1>5, <3>1, <3>2, WaitsStays
    <2> QED
      BY <2>1, <2>2
  <1> QED
    BY <1>1, <1>3, <1>4, <1>5, LosslessStays DEF Acked, Handled

(* Steps that move nothing, ... *)
LEMMA LosslessSame ==
    ASSUME Lossless, UNCHANGED <<buf, stack, acks, handled>>
    PROVE  Lossless'
  <1>1. AllRead'
    BY DEF Lossless, AllRead, HasRead, Declared
  <1>2. ASSUME NEW p, Came(p) PROVE Came(p)'
    BY <1>2 DEF Came, Reaches, IsNext, Header, Acked, Top
  <1>3. ASSUME NEW h \in Acked', Whole(h)'
        PROVE  Came(Onward(h))' \/ (Good(h)' /\ Waits(h)')
    <2>1. h \in Acked /\ Whole(h) /\ (Good(h)' <=> Good(h)) /\ (Waits(h)' <=> Waits(h))
      BY <1>3, ScanStays DEF Acked, Waits
    <2>2. PICK q : q = Onward(h)
      OBVIOUS
    <2>3. Came(Onward(h)) => Came(Onward(h))'
      BY <1>2, <2>2, CameOnward
    <2> QED
      BY <2>1, <2>3 DEF Lossless, Continued
  <1>4. Delivered'
    BY ScanStays DEF Lossless, Delivered, Handled, Acked, Top
  <1> QED
    BY <1>1, <1>2, <1>3, <1>4 DEF Lossless, Continued

(* ... and so every step. *)
LEMMA LosslessStep ==
    ASSUME Bound, Lossless, [Next]_vars
    PROVE  Lossless'
  BY LosslessSame, LosslessFound, LosslessGood, LosslessBad, LosslessCallback,
     LosslessMore, LosslessReturn
     DEF Next, CrcFault, Overflow, Done, vars

(* Without a CRC error, in a buffer of whole packets. *)
LEMMA ContainedStep ==
    ASSUME Bound, Callers, AllRead, \A h \in Header : Whole(h), Contained,
           [Next]_vars, ~CrcBad
    PROVE  Contained'
  <1>1. CASE Found
    <2>1. /\ At("enter") /\ stack # << >> /\ Top.pc = "enter"
          /\ UNCHANGED <<buf, handled>>
      BY <1>1 DEF Found, At
    <2>2. /\ Top'.pc = "check" /\ Top'.start \in Header /\ IsNext(Top'.start, Top.pos)
      BY <1>1, ShapeFound
    <2>3. Top'.start \in Visited
      BY <2>1, <2>2 DEF Contained, InScan, Reaches
    <2> QED
      BY <2>1, <2>2, <2>3, ScanStays DEF Contained, InScan, Handled
  <1>2. CASE NotFound \/ Return
    <2>1. PICK w : /\ At(w) /\ stack' = Popped /\ UNCHANGED <<buf, handled>>
      BY <1>2 DEF NotFound, Return
    <2>2. stack' # << >> => Top'.pc = "return"
      BY <2>1, TopPopped
    <2> QED
      BY <2>1, <2>2, ScanStays DEF Contained, InScan, Handled
  <1>3. CASE CrcGood
    <2>1. /\ At("check") /\ stack # << >> /\ Top.pc = "check" /\ UNCHANGED <<buf, handled>>
          /\ stack' = Goto("callback") /\ TRUE \in Verdict(Top.start, Top.declared)
      BY <1>3 DEF CrcGood, At
    <2>2. Top'.pc = "callback" /\ Top'.start = Top.start
      BY <2>1, ShapeMoved DEF Pc
    <2>3. Top.start \in Visited /\ Whole(Top.start) /\ Good(Top.start)
      BY <2>1, PacketFacts DEF Contained, InScan
    <2>4. Top.start \in Scan
      BY <2>3 DEF Scan
    <2> QED
      BY <2>1, <2>2, <2>4, ScanStays DEF Contained, InScan, Handled
  <1>4. CASE Callback
    <2>1. /\ At("callback") /\ stack # << >> /\ Top.pc = "callback" /\ buf' = buf
          /\ stack' = Goto("tail") /\ handled' = Append(handled, Top.start)
      BY <1>4 DEF Callback, At
    <2>2. Top'.pc = "tail" /\ Top'.start = Top.start
      BY <2>1, ShapeMoved DEF Pc
    <2>3. Top.start \in Scan /\ Handled' = Handled \cup {Top.start}
      BY <2>1, HandledGrows DEF Contained, InScan
    <2> QED
      BY <2>1, <2>2, <2>3, ScanStays DEF Contained, InScan
  <1>5. CASE More
    <2> DEFINE p == Top.start + Size(Top.declared)
    <2>1. /\ At("tail") /\ stack # << >> /\ Top.pc = "tail" /\ UNCHANGED <<buf, handled>>
          /\ stack' = Call("return", p)
      BY <1>5 DEF More, At, AfterFrame
    <2>2. Top.start \in Scan
      BY <2>1 DEF Contained, InScan
    <2>3. /\ p \in Nat /\ Top.start \in Visited /\ Whole(Top.start)
          /\ Onward(Top.start) = p
      <3>1. p \in Nat
        BY <2>1, StartFacts
      <3> QED
        BY <2>1, <2>2, <3>1, PacketFacts DEF Scan, Onward
    <2>4. Reaches(Visited, p)
      BY <2>3, VisitedClosed DEF Closed
    <2> HIDE DEF p
    <2>5. Top'.pc = "enter" /\ Top'.pos = p
      BY <2>1, <2>3, ShapeCalled DEF Pc
    <2>6. Reaches(Visited, Top.pos)'
      BY <2>1, <2>4, <2>5, ScanStays DEF Reaches, IsNext
    <2> QED
      BY <2>1, <2>5, <2>6, ScanStays DEF Contained, InScan, Handled
  <1>6. CASE UNCHANGED <<buf, stack, handled>>
    BY <1>6, ScanStays DEF Contained, InScan, Reaches, IsNext, Handled, Top
  <1> QED
    BY <1>1, <1>2, <1>3, <1>4, <1>5, <1>6 DEF Next, CrcFault, Overflow, Done, vars

(* The whole comparison with the scan is preserved, ... *)
LEMMA CompleteStep ==
    ASSUME Inductive, Complete, [Next]_vars
    PROVE  Complete'
  <1>1. Bound /\ Lossless /\ Lossless'
    BY LosslessStep DEF Inductive, Complete
  <1>2. ASSUME NoError', (\A h \in Header : Whole(h))' PROVE Contained'
    <2>1. NoError /\ ~CrcBad /\ Callers
      BY <1>1, <1>2, NoErrorBefore DEF Inductive, Straight
    <2>2. buf' = buf
      BY DEF Next, Found, NotFound, CrcFault, CrcGood, Callback, CrcBad, More, Return,
             Overflow, Done, vars
    <2>3. \A h \in Header : Whole(h)
      BY <1>2, <2>2, ScanStays
    <2> QED
      BY <1>1, <2>1, <2>3, ContainedStep DEF Complete, Lossless
  <1> QED
    BY <1>1, <1>2 DEF Complete

(* ... holds where a buffer begins, ... *)
LEMMA CompleteBeginning == Begun => Complete
  <1> SUFFICES ASSUME Begun PROVE Complete
    OBVIOUS
  <1>1. /\ stack # << >> /\ Len(stack) = 1 /\ stack[1] = Activation(0) /\ Top = stack[1]
        /\ Top.pc = "enter" /\ Top.pos = 0
    BY DEF Begun, Activation, Top
  <1>2. Acked = {} /\ Handled = {}
    BY EmptySeq DEF Begun, Acked, Handled
  <1>3. Lossless
    BY <1>1, <1>2 DEF Lossless, AllRead, HasRead, Came, Continued, Delivered
  <1>4. Contained
    BY <1>1, <1>2, VisitedClosed DEF Contained, InScan, Closed
  <1> QED
    BY <1>3, <1>4 DEF Complete

(* ... and, when the stack is empty, says that nothing was lost, ... *)
LEMMA NothingLeft == Complete => NothingLost
  <1> SUFFICES ASSUME Complete, stack = << >> PROVE Scan \subseteq Handled
    BY DEF NothingLost, Over
  <1> DEFINE S == Acked \cap Header
  <1>1. ~(\E h : Waits(h))
    BY EmptySeq DEF Waits
  <1>2. \A p : Came(p) => Reaches(S, p)
    BY DEF Came, Reaches, IsNext
  <1>3. Closed(S)
    BY <1>1, <1>2 DEF Complete, Lossless, Continued, Closed
  <1>4. ASSUME NEW h \in Scan PROVE h \in Handled
    <2>1. h \in S /\ Whole(h) /\ Good(h)
      BY <1>3 DEF Scan, Visited
    <2> QED
      BY <2>1 DEF Complete, Lossless, Delivered
  <1> QED
    BY <1>4

(* ... and nothing made up. *)
LEMMA NothingFollows == Complete => NothingLost /\ NothingExtra
  BY NothingLeft DEF Complete, Contained, NothingExtra

(* What the recursion still has to do is what the scan has left to do.     *)
THEOREM CompleteInvariant == Spec => []Complete
  <1>1. Init => Complete
    BY CompleteBeginning, BufferAssumption DEF Init, Begun
  <1> QED
    BY <1>1, CompleteStep, InductiveInvariant, PTL DEF Spec

(* Every packet the scan delivers has been handed over when handle_packet  *)
(* returns, however damaged the ones around it are.                        *)
THEOREM LostCorrect == Spec => []NothingLost
  BY NothingFollows, CompleteInvariant, PTL

(* In a buffer of whole packets and without a CRC error nothing else is.   *)
THEOREM ExtraCorrect == Spec => []NothingExtra
  BY NothingFollows, CompleteInvariant, PTL

-----------------------------------------------------------------------------
(* Most is the function its recursion describes, ... *)
LEMMA MostDef ==
    /\ Most \in [Nat -> Nat]
    /\ Most[0] = 0
    /\ \A n \in Nat : Most[n + 1] = 2 * Most[n] + 1
  <1> DEFINE next == [n \in Nat |-> [m \in Nat |-> 2 * m + 1]]
  <1>1. next \in [Nat -> [Nat -> Nat]] /\ \A n \in Nat, m \in Nat : next[n][m] = 2 * m + 1
    OBVIOUS
  <1> HIDE DEF next
  <1>2. PICK f : Follows(f, Nat, 0, next)
    BY <1>1, RecursionExists
  <1>3. f \in [Nat -> Nat] /\ f[0] = 0 /\ \A n \in Nat : f[n + 1] = 2 * f[n] + 1
    BY <1>1, <1>2 DEF Follows
  <1>4. f = [n \in Nat |-> IF n = 0 THEN 0 ELSE 2 * f[n - 1] + 1]
    <2> SUFFICES ASSUME NEW n \in Nat PROVE f[n] = IF n = 0 THEN 0 ELSE 2 * f[n - 1] + 1
      BY <1>3
    <2>1. CASE n = 0
      BY <1>3, <2>1
    <2>2. CASE n # 0
      <3>1. n - 1 \in Nat /\ (n - 1) + 1 = n
        BY <2>2
      <3> QED
        BY <1>3, <2>2, <3>1
    <2> QED
      BY <2>1, <2>2
  <1>5. Most = [n \in Nat |-> IF n = 0 THEN 0 ELSE 2 * Most[n - 1] + 1]
    BY <1>4, Zenon DEF Most
  <1> DEFINE Q == Most
  <1>6. Q = [n \in Nat |-> IF n = 0 THEN 0 ELSE 2 * Q[n - 1] + 1]
    BY <1>5
  <1> HIDE DEF Q
  <1>7. Q[0] = 0
    BY <1>6
  <1>8. ASSUME NEW n \in Nat PROVE Q[n + 1] = 2 * Q[n] + 1
    <2>1. n + 1 \in Nat /\ n + 1 # 0 /\ (n + 1) - 1 = n
      OBVIOUS
    <2>2. Q[n + 1] = IF n + 1 = 0 THEN 0 ELSE 2 * Q[(n + 1) - 1] + 1
      BY <1>6, <2>1
    <2> QED
      BY <2>1, <2>2
  <1>9. \A n \in Nat : Q[n] \in Nat
    <2> DEFINE T == {n \in Nat : Q[n] \in Nat}
    <2>1. 0 \in T
      BY <1>7
    <2>2. ASSUME NEW n \in Nat, n \in T PROVE n + 1 \in T
      BY <1>8, <2>2
    <2> HIDE DEF T
    <2>3. Nat \subseteq T
      BY <2>1, <2>2, Induct
    <2> QED
      BY <2>3 DEF T
  <1>10. Q \in [Nat -> Nat]
    BY <1>6, <1>9
  <1> QED
    BY <1>7, <1>8, <1>10 DEF Q

(* ... and grows. *)
LEMMA MostGrows ==
    ASSUME NEW m \in Nat, NEW n \in Nat, m <= n
    PROVE  Most[m] \in Nat /\ Most[n] \in Nat /\ Most[m] <= Most[n]
  <1>1. \A k \in Nat : Most[k] \in Nat
    BY MostDef
  <1> DEFINE T == {d \in Nat : Most[m] <= Most[m + d]}
  <1>2. 0 \in T
    BY <1>1
  <1>3. ASSUME NEW d \in Nat, d \in T PROVE d + 1 \in T
    <2>1. m + d \in Nat /\ m + (d + 1) = (m + d) + 1
      OBVIOUS
    <2>2. Most[m + (d + 1)] = 2 * Most[m + d] + 1
      BY <2>1, MostDef
    <2>3. Most[m] \in Nat /\ Most[m + d] \in Nat /\ Most[m] <= Most[m + d]
      BY <1>1, <1>3, <2>1
    <2> QED
      BY <2>2, <2>3
  <1> HIDE DEF T
  <1>4. n - m \in T
    BY <1>2, <1>3, Induct
  <1>5. m + (n - m) = n
    OBVIOUS
  <1> QED
    BY <1>1, <1>4, <1>5 DEF T

(* A total exists: it is the last of the partial ones. *)
Partial(t, c) ==
    /\ t \in [0 .. Len(c) -> Nat]
    /\ t[0] = 0
    /\ \A k \in 1 .. Len(c) : t[k] = t[k - 1] + c[k]

(* There is one for every sequence of numbers. *)
LEMMA TotalIs ==
    ASSUME NEW c \in Seq(Nat)
    PROVE  \E t : Partial(t, c) /\ Total(c) = t[Len(c)]
  <1> DEFINE N == Len(c)
             next == [n \in Nat |-> [x \in Nat |-> IF n + 1 <= N THEN x + c[n + 1] ELSE x]]
  <1>1. N \in Nat /\ \A k \in 1 .. N : c[k] \in Nat
    BY LenProperties, ElementOfSeq
  <1> HIDE DEF N
  <1>2. next \in [Nat -> [Nat -> Nat]]
    BY <1>1
  <1>3. \A n \in Nat, x \in Nat : next[n][x] = IF n + 1 <= N THEN x + c[n + 1] ELSE x
    OBVIOUS
  <1> HIDE DEF next
  <1>4. PICK f : Follows(f, Nat, 0, next)
    BY <1>2, RecursionExists
  <1>5. f \in [Nat -> Nat] /\ f[0] = 0 /\ \A n \in Nat : f[n + 1] = next[n][f[n]]
    BY <1>4 DEF Follows
  <1>6. \A k \in 1 .. N : f[k] = f[k - 1] + c[k]
    <2> SUFFICES ASSUME NEW k \in 1 .. N PROVE f[k] = f[k - 1] + c[k]
      OBVIOUS
    <2>0. k \in Nat /\ k - 1 \in Nat /\ (k - 1) + 1 = k /\ k <= N
      BY <1>1
    <2>1. f[k - 1] \in Nat
      BY <1>5, <2>0
    <2>2. f[k] = next[k - 1][f[k - 1]]
      BY <1>5, <2>0
    <2>3. next[k - 1][f[k - 1]] = f[k - 1] + c[k]
      BY <1>3, <2>0, <2>1
    <2> QED
      BY <2>2, <2>3
  <1> DEFINE step(h, k) == IF k = 0 THEN 0 ELSE h[k - 1] + c[k]
             g == [k \in 0 .. N |-> f[k]]
  <1>7. g = [k \in 0 .. N |-> step(g, k)]
    <2> SUFFICES ASSUME NEW k \in 0 .. N PROVE f[k] = step(g, k)
      OBVIOUS
    <2>1. k # 0 => k \in 1 .. N /\ k - 1 \in 0 .. N
      BY <1>1
    <2> QED
      BY <1>5, <1>6, <2>1
  <1> DEFINE t == CHOOSE h : h = [k \in 0 .. N |-> step(h, k)]
  <1>8. t = [k \in 0 .. N |-> step(t, k)]
    <2> HIDE DEF g
    <2> QED
      BY <1>7, Zenon
  <1>9. Total(c) = t[N]
    BY DEF Total, N
  <1> HIDE DEF t
  <1>10. t[0] = 0 /\ \A k \in 1 .. N : t[k] = t[k - 1] + c[k]
    BY <1>1, <1>8
  <1>11. \A k \in 0 .. N : t[k] \in Nat
    <2> DEFINE T == {k \in Nat : k <= N => t[k] \in Nat}
    <2>1. 0 \in T
      BY <1>10
    <2>2. ASSUME NEW k \in Nat, k \in T PROVE k + 1 \in T
      <3> SUFFICES ASSUME k + 1 <= N PROVE t[k + 1] \in Nat
        OBVIOUS
      <3>1. k + 1 \in 1 .. N /\ (k + 1) - 1 = k
        BY <1>1
      <3>2. t[k + 1] = t[k] + c[k + 1]
        BY <1>10, <3>1
      <3> QED
        BY <1>1, <2>2, <3>1, <3>2
    <2> HIDE DEF T
    <2>3. Nat \subseteq T
      BY <2>1, <2>2, Induct
    <2> QED
      BY <1>1, <2>3 DEF T
  <1>12. t \in [0 .. N -> Nat]
    BY <1>8, <1>11
  <1>13. Partial(t, c)
    BY <1>10, <1>12 DEF Partial, N
  <1> QED
    BY <1>9, <1>13 DEF N

(* The total of nothing. *)
LEMMA TotalEmpty == Total(<< >>) = 0
  <1>1. << >> \in Seq(Nat) /\ Len(<< >>) = 0
    BY EmptySeq
  <1>2. PICK t : Partial(t, << >>) /\ Total(<< >>) = t[Len(<< >>)]
    BY <1>1, TotalIs
  <1> QED
    BY <1>1, <1>2 DEF Partial

(* One term more adds itself. *)
LEMMA TotalAppend ==
    ASSUME NEW c \in Seq(Nat), NEW x \in Nat
    PROVE  Total(c) \in Nat /\ Total(Append(c, x)) = Total(c) + x
  <1>1. /\ Append(c, x) \in Seq(Nat) /\ Len(c) \in Nat /\ Len(Append(c, x)) = Len(c) + 1
        /\ \A i \in 1 .. Len(c) : Append(c, x)[i] = c[i]
        /\ Append(c, x)[Len(c) + 1] = x
    BY AppendProperties, LenProperties
  <1>2. PICK t : Partial(t, c) /\ Total(c) = t[Len(c)]
    BY TotalIs
  <1> DEFINE d == Append(c, x)
  <1>3. PICK u : Partial(u, d) /\ Total(d) = u[Len(d)]
    BY <1>1, TotalIs
  <1> HIDE DEF d
  <1>4. t[0] = 0 /\ u[0] = 0 /\ t[Len(c)] \in Nat
    BY <1>1, <1>2, <1>3 DEF Partial
  <1>5. \A k \in 1 .. Len(c) : t[k] = t[k - 1] + c[k] /\ u[k] = u[k - 1] + c[k]
    BY <1>1, <1>2, <1>3 DEF Partial, d
  <1> DEFINE T == {k \in Nat : k <= Len(c) => u[k] = t[k]}
  <1>6. 0 \in T
    BY <1>4
  <1>7. ASSUME NEW k \in Nat, k \in T PROVE k + 1 \in T
    <2> SUFFICES ASSUME k + 1 <= Len(c) PROVE u[k + 1] = t[k + 1]
      OBVIOUS
    <2>1. k + 1 \in 1 .. Len(c) /\ (k + 1) - 1 = k /\ u[k] = t[k]
      BY <1>1, <1>7
    <2> QED
      BY <1>5, <2>1
  <1> HIDE DEF T
  <1>8. u[Len(c)] = t[Len(c)]
    <2>1. Len(c) \in T
      BY <1>1, <1>6, <1>7, Induct
    <2> QED
      BY <1>1, <2>1 DEF T
  <1>9. u[Len(c) + 1] = u[Len(c)] + x
    <2>1. Len(c) + 1 \in 1 .. Len(d) /\ (Len(c) + 1) - 1 = Len(c)
      BY <1>1 DEF d
    <2>2. u[Len(c) + 1] = u[(Len(c) + 1) - 1] + d[Len(c) + 1]
      BY <1>3, <2>1 DEF Partial
    <2> QED
      BY <1>1, <2>1, <2>2 DEF d
  <1> QED
    BY <1>1, <1>2, <1>3, <1>4, <1>8, <1>9 DEF d

-----------------------------------------------------------------------------
(* What is left to do, on the stack: the cost of each activation, and of   *)
(* all.                                                                    *)
acksOf  == [a \in Act |-> AcksOf(a)]
stepsOf == [a \in Act |-> StepsOf(a)]
Costs(f, s) == [i \in 1 .. Len(s) |-> f[s[i]]]

(* The costs of a stack with one more activation. *)
LEMMA CostsAppend ==
    ASSUME NEW f \in [Act -> Nat], NEW s \in Seq(Act), NEW a \in Act
    PROVE  /\ Total(Costs(f, s)) \in Nat
           /\ Total(Costs(f, Append(s, a))) = Total(Costs(f, s)) + f[a]
  <1>1. /\ Len(s) \in Nat /\ \A i \in 1 .. Len(s) : s[i] \in Act
        /\ Len(Append(s, a)) = Len(s) + 1
        /\ \A i \in 1 .. Len(s) : Append(s, a)[i] = s[i]
        /\ Append(s, a)[Len(s) + 1] = a
    BY Appended, ElementOfSeq
  <1> DEFINE c == Costs(f, s)
  <1>2. c \in Seq(Nat) /\ Len(c) = Len(s) /\ \A i \in 1 .. Len(s) : c[i] = f[s[i]]
    BY <1>1, IsASeq DEF Costs
  <1> HIDE DEF c
  <1>3. f[a] \in Nat
    OBVIOUS
  <1>4. /\ Append(c, f[a]) \in Seq(Nat) /\ Len(Append(c, f[a])) = Len(s) + 1
        /\ \A i \in 1 .. Len(s) : Append(c, f[a])[i] = c[i]
        /\ Append(c, f[a])[Len(s) + 1] = f[a]
    BY <1>2, <1>3, AppendProperties
  <1>5. Append(c, f[a]) = [i \in 1 .. Len(s) + 1 |-> Append(c, f[a])[i]]
    BY <1>4, LenProperties
  <1>6. \A i \in 1 .. Len(s) + 1 : Append(c, f[a])[i] = f[Append(s, a)[i]]
    <2> SUFFICES ASSUME NEW i \in 1 .. Len(s) + 1
                 PROVE  Append(c, f[a])[i] = f[Append(s, a)[i]]
      OBVIOUS
    <2>1. CASE i \in 1 .. Len(s)
      BY <1>1, <1>2, <1>4, <2>1
    <2>2. CASE i = Len(s) + 1
      BY <1>1, <1>4, <2>2
    <2>3. i \in 1 .. Len(s) \/ i = Len(s) + 1
      BY <1>1
    <2> QED
      BY <2>1, <2>2, <2>3
  <1>7. Costs(f, Append(s, a)) = Append(c, f[a])
    BY <1>1, <1>5, <1>6 DEF Costs
  <1> QED
    BY <1>2, <1>3, <1>7, TotalAppend DEF c

(* The stack, and the stack with another top. *)
LEMMA StackIs ==
    ASSUME NEW s \in Seq(Act), s # << >>, NEW a \in Act
    PROVE  /\ SubSeq(s, 1, Len(s) - 1) \in Seq(Act)
           /\ s[Len(s)] \in Act
           /\ s = Append(SubSeq(s, 1, Len(s) - 1), s[Len(s)])
           /\ [s EXCEPT ![Len(s)] = a] = Append(SubSeq(s, 1, Len(s) - 1), a)
  <1>1. Len(s) \in Nat /\ Len(s) >= 1 /\ Len(s) - 1 \in Nat /\ s[Len(s)] \in Act
    BY EmptySeq, LenProperties, ElementOfSeq
  <1> DEFINE p == SubSeq(s, 1, Len(s) - 1)
  <1>2. p \in Seq(Act) /\ Len(p) = Len(s) - 1 /\ \A i \in 1 .. Len(s) - 1 : p[i] = s[i]
    <2> DEFINE n == Len(s) - 1
    <2>1. n \in Nat /\ n <= Len(s)
      BY <1>1
    <2> HIDE DEF n
    <2>2. /\ SubSeq(s, 1, n) \in Seq(Act) /\ Len(SubSeq(s, 1, n)) = n
          /\ \A i \in 1 .. n : SubSeq(s, 1, n)[i] = s[i]
      BY <2>1, PoppedProperties
    <2> QED
      BY <2>2 DEF n
  <1> HIDE DEF p
  <1>3. ASSUME NEW b \in Act
        PROVE  /\ Append(p, b) \in Seq(Act) /\ Len(Append(p, b)) = Len(s)
               /\ \A i \in 1 .. Len(s) - 1 : Append(p, b)[i] = s[i]
               /\ Append(p, b)[Len(s)] = b
    BY <1>1, <1>2, <1>3, Appended
  <1>4. s = Append(p, s[Len(s)])
    <2>1. Append(p, s[Len(s)]) \in Seq(Act) /\ Len(Append(p, s[Len(s)])) = Len(s)
      BY <1>1, <1>3
    <2>2. \A i \in 1 .. Len(s) : s[i] = Append(p, s[Len(s)])[i]
      BY <1>1, <1>3
    <2> QED
      BY <2>1, <2>2, SeqEqual
  <1>5. [s EXCEPT ![Len(s)] = a] = Append(p, a)
    <2> DEFINE r == [s EXCEPT ![Len(s)] = a]
    <2>1. r \in Seq(Act) /\ Len(r) = Len(s)
      BY LastReplaced
    <2>2. (\A i \in 1 .. Len(s) : i < Len(s) => r[i] = s[i]) /\ r[Len(s)] = a
      BY LastReplaced
    <2> HIDE DEF r
    <2>3. \A i \in 1 .. Len(s) : r[i] = Append(p, a)[i]
      BY <1>1, <1>3, <2>2
    <2>4. r = Append(p, a)
      BY <1>3, <2>1, <2>3, SeqEqual
    <2> QED
      BY <2>4 DEF r
  <1> QED
    BY <1>1, <1>2, <1>4, <1>5 DEF p

(* Costs are numbers. *)
LEMMA CostTypes ==
    ASSUME TypeOK
    PROVE  acksOf \in [Act -> Nat] /\ stepsOf \in [Act -> Nat]
  <1>1. ASSUME NEW a \in Act PROVE AcksOf(a) \in Nat /\ StepsOf(a) \in Nat
    <2>1. a.pos \in Nat /\ a.start + 1 \in Nat /\ a.pc \in Pc
      BY DEF Act
    <2>2. Most[Seen(a.pos)] \in Nat /\ Most[Seen(a.start + 1)] \in Nat
      BY <2>1, SeenFacts, MostDef
    <2>3. CASE a.pc = "enter"
      BY <2>2, <2>3 DEF AcksOf, StepsOf
    <2>4. CASE a.pc = "check"
      BY <2>2, <2>4 DEF AcksOf, StepsOf
    <2>5. CASE a.pc = "callback"
      BY <2>2, <2>5 DEF AcksOf, StepsOf
    <2>6. CASE a.pc = "tail"
      BY <2>2, <2>6 DEF AcksOf, StepsOf
    <2>7. CASE a.pc = "return"
      BY <2>2, <2>7 DEF AcksOf, StepsOf
    <2> QED
      BY <2>1, <2>3, <2>4, <2>5, <2>6, <2>7 DEF Pc
  <1> QED
    BY <1>1 DEF acksOf, stepsOf

(* The two totals of the specification, before a step and behind it. *)
Totals == AcksLeft = Total(Costs(acksOf, stack)) /\ StepsLeft = Total(Costs(stepsOf, stack))

(* They are the totals of the costs. *)
LEMMA TotalsHold == stack \in Seq(Act) => Totals
  <1> SUFFICES ASSUME stack \in Seq(Act) PROVE Totals
    OBVIOUS
  <1>1. \A i \in 1 .. Len(stack) : stack[i] \in Act
    BY ElementOfSeq
  <1>2. \A i \in 1 .. Len(stack) : /\ acksOf[stack[i]] = AcksOf(stack[i])
                                   /\ stepsOf[stack[i]] = StepsOf(stack[i])
    BY <1>1 DEF acksOf, stepsOf
  <1> QED
    BY <1>2 DEF Totals, AcksLeft, StepsLeft, Costs

(* Costs are the same behind a step: the buffer is. *)
LEMMA LeftNext ==
    ASSUME stack \in Seq(Act), stack' \in Seq(Act), buf' = buf
    PROVE  /\ AcksLeft = Total(Costs(acksOf, stack)) /\ StepsLeft = Total(Costs(stepsOf, stack))
           /\ AcksLeft' = Total(Costs(acksOf, stack')) /\ StepsLeft' = Total(Costs(stepsOf, stack'))
  <1>1. Totals /\ Totals'
    <2>1. (stack \in Seq(Act))' /\ stack \in Seq(Act)
      OBVIOUS
    <2> QED
      BY <2>1, TotalsHold, PTL
  <1>2. acksOf' = acksOf /\ stepsOf' = stepsOf
    BY DEF acksOf, stepsOf, AcksOf, StepsOf, Seen, Header
  <1> QED
    BY <1>1, <1>2 DEF Totals

(* What a step leaves: k acknowledgements fewer, and less steps. *)
Spends(k) == AcksLeft' + k <= AcksLeft /\ StepsLeft' < StepsLeft

(* Before the step, and after each kind of it. *)
LEMMA LeftFacts ==
    ASSUME Bound, NEW w, At(w), buf' = buf, NEW k \in Nat
    PROVE  /\ \A b \in Act :
                 /\ stack' = [stack EXCEPT ![Len(stack)] = b]
                 /\ AcksOf(b) + k <= AcksOf(Top) /\ StepsOf(b) < StepsOf(Top)
                 => Spends(k)
           /\ \A b, c \in Act :
                 /\ stack' = Append([stack EXCEPT ![Len(stack)] = b], c)
                 /\ AcksOf(b) + AcksOf(c) + k <= AcksOf(Top)
                 /\ StepsOf(b) + StepsOf(c) < StepsOf(Top)
                 => Spends(k)
           /\ stack' = Popped /\ StepsOf(Top) > 0 => Spends(0)
  <1>1. /\ stack \in Seq(Act) /\ stack # << >> /\ Top \in Act
        /\ acksOf \in [Act -> Nat] /\ stepsOf \in [Act -> Nat]
    BY TopFacts, CostTypes DEF Bound
  <1>2. \A a \in Act : /\ acksOf[a] = AcksOf(a) /\ stepsOf[a] = StepsOf(a)
                        /\ AcksOf(a) \in Nat /\ StepsOf(a) \in Nat
    <2>1. \A a \in Act : acksOf[a] = AcksOf(a) /\ stepsOf[a] = StepsOf(a)
      BY DEF acksOf, stepsOf
    <2> QED
      BY <1>1, <2>1
  <1> DEFINE p  == Popped
             tA == Total(Costs(acksOf, p))
             tS == Total(Costs(stepsOf, p))
  <1>3. p \in Seq(Act) /\ stack = Append(p, Top)
    BY <1>1, StackIs DEF Popped, Top
  <1>4. \A b \in Act : [stack EXCEPT ![Len(stack)] = b] = Append(p, b)
    BY <1>1, StackIs DEF Popped
  <1> HIDE DEF p
  <1>5. ASSUME NEW q \in Seq(Act), NEW b \in Act
        PROVE  /\ Append(q, b) \in Seq(Act)
               /\ Total(Costs(acksOf, q)) \in Nat /\ Total(Costs(stepsOf, q)) \in Nat
               /\ Total(Costs(acksOf, Append(q, b))) = Total(Costs(acksOf, q)) + AcksOf(b)
               /\ Total(Costs(stepsOf, Append(q, b))) = Total(Costs(stepsOf, q)) + StepsOf(b)
    <2>1. Append(q, b) \in Seq(Act)
      BY Appended
    <2>2. /\ Total(Costs(acksOf, q)) \in Nat
          /\ Total(Costs(acksOf, Append(q, b))) = Total(Costs(acksOf, q)) + acksOf[b]
      BY <1>1, CostsAppend
    <2>3. /\ Total(Costs(stepsOf, q)) \in Nat
          /\ Total(Costs(stepsOf, Append(q, b))) = Total(Costs(stepsOf, q)) + stepsOf[b]
      BY <1>1, CostsAppend
    <2> QED
      BY <1>2, <2>1, <2>2, <2>3
  <1>5a. tA \in Nat /\ tS \in Nat
    BY <1>1, <1>3, <1>5
  <1>5b. \A b \in Act : /\ Append(p, b) \in Seq(Act)
                        /\ Total(Costs(acksOf, Append(p, b))) = tA + AcksOf(b)
                        /\ Total(Costs(stepsOf, Append(p, b))) = tS + StepsOf(b)
    BY <1>3, <1>5
  <1>6. ASSUME NEW b \in Act, NEW c \in Act
        PROVE  /\ Append(Append(p, b), c) \in Seq(Act)
               /\ Total(Costs(acksOf, Append(Append(p, b), c))) = (tA + AcksOf(b)) + AcksOf(c)
               /\ Total(Costs(stepsOf, Append(Append(p, b), c))) = (tS + StepsOf(b)) + StepsOf(c)
    <2> DEFINE q == Append(p, b)
    <2>1. /\ q \in Seq(Act) /\ Total(Costs(acksOf, q)) = tA + AcksOf(b)
          /\ Total(Costs(stepsOf, q)) = tS + StepsOf(b)
      BY <1>5b
    <2> HIDE DEF q
    <2>2. /\ Append(q, c) \in Seq(Act)
          /\ Total(Costs(acksOf, Append(q, c))) = Total(Costs(acksOf, q)) + AcksOf(c)
          /\ Total(Costs(stepsOf, Append(q, c))) = Total(Costs(stepsOf, q)) + StepsOf(c)
      BY <2>1, <1>5
    <2>3. /\ Append(q, c) \in Seq(Act)
          /\ Total(Costs(acksOf, Append(q, c))) = (tA + AcksOf(b)) + AcksOf(c)
          /\ Total(Costs(stepsOf, Append(q, c))) = (tS + StepsOf(b)) + StepsOf(c)
      BY <2>1, <2>2
    <2> QED
      BY <2>3 DEF q
  <1> HIDE DEF tA, tS
  <1>7. stack' \in Seq(Act) => /\ AcksLeft = tA + AcksOf(Top)
                               /\ StepsLeft = tS + StepsOf(Top)
                               /\ AcksLeft' = Total(Costs(acksOf, stack'))
                               /\ StepsLeft' = Total(Costs(stepsOf, stack'))
    BY <1>1, <1>3, <1>5b, LeftNext
  <1>8. ASSUME NEW b \in Act, stack' = [stack EXCEPT ![Len(stack)] = b],
               AcksOf(b) + k <= AcksOf(Top), StepsOf(b) < StepsOf(Top)
        PROVE  Spends(k)
    <2>1. /\ AcksLeft = tA + AcksOf(Top) /\ StepsLeft = tS + StepsOf(Top)
          /\ AcksLeft' = tA + AcksOf(b) /\ StepsLeft' = tS + StepsOf(b)
      BY <1>4, <1>5b, <1>7, <1>8
    <2>2. /\ AcksOf(b) \in Nat /\ AcksOf(Top) \in Nat /\ StepsOf(b) \in Nat
          /\ StepsOf(Top) \in Nat
      BY <1>1, <1>2
    <2> QED
      BY <1>5a, <1>8, <2>1, <2>2 DEF Spends
  <1>9. ASSUME NEW b \in Act, NEW c \in Act,
               stack' = Append([stack EXCEPT ![Len(stack)] = b], c),
               AcksOf(b) + AcksOf(c) + k <= AcksOf(Top),
               StepsOf(b) + StepsOf(c) < StepsOf(Top)
        PROVE  Spends(k)
    <2>1. /\ AcksLeft = tA + AcksOf(Top) /\ StepsLeft = tS + StepsOf(Top)
          /\ AcksLeft' = (tA + AcksOf(b)) + AcksOf(c)
          /\ StepsLeft' = (tS + StepsOf(b)) + StepsOf(c)
      BY <1>4, <1>6, <1>7, <1>9
    <2>2. /\ AcksOf(b) \in Nat /\ AcksOf(Top) \in Nat /\ StepsOf(b) \in Nat
          /\ StepsOf(Top) \in Nat /\ AcksOf(c) \in Nat /\ StepsOf(c) \in Nat
      BY <1>1, <1>2
    <2>3. AcksLeft' + k <= AcksLeft
      <3> HIDE DEF Spends
      <3>1. AcksOf(b) + AcksOf(c) + k <= AcksOf(Top)
        BY <1>9
      <3>2. \A t, x, y, z \in Nat : x + y + k <= z => ((t + x) + y) + k <= t + z
        OBVIOUS
      <3>3. ((tA + AcksOf(b)) + AcksOf(c)) + k <= tA + AcksOf(Top)
        BY <1>5a, <2>2, <3>1, <3>2
      <3> QED
        BY <2>1, <3>3
    <2>4. StepsLeft' < StepsLeft
      <3>1. \A t, x, y, z \in Nat : x + y < z => (t + x) + y < t + z
        OBVIOUS
      <3>2. (tS + StepsOf(b)) + StepsOf(c) < tS + StepsOf(Top)
        BY <1>5a, <1>9, <2>2, <3>1
      <3> QED
        BY <2>1, <3>2
    <2> QED
      BY <2>3, <2>4 DEF Spends
  <1>10. ASSUME stack' = Popped, StepsOf(Top) > 0 PROVE Spends(0)
    <2>1. /\ AcksLeft = tA + AcksOf(Top) /\ StepsLeft = tS + StepsOf(Top)
          /\ AcksLeft' = tA /\ StepsLeft' = tS
      BY <1>3, <1>7, <1>10 DEF tA, tS, p
    <2>2. AcksOf(Top) \in Nat /\ StepsOf(Top) \in Nat
      BY <1>1, <1>2
    <2> QED
      BY <1>5a, <1>10, <2>1, <2>2 DEF Spends
  <1> QED
    BY <1>8, <1>9, <1>10

(* What each activation may still cost, by where it is. *)
LEMMA CostOf ==
    ASSUME TypeOK, NEW a \in Act
    PROVE  /\ Most[Seen(a.start + 1)] \in Nat /\ Most[Seen(a.pos)] \in Nat
           /\ a.pc = "enter" => /\ AcksOf(a) = Most[Seen(a.pos)]
                                /\ StepsOf(a) = 5 * Most[Seen(a.pos)] + 1
           /\ a.pc = "check" => /\ AcksOf(a) = 2 * Most[Seen(a.start + 1)] + 1
                                /\ StepsOf(a) = 10 * Most[Seen(a.start + 1)] + 5
           /\ a.pc = "callback" => /\ AcksOf(a) = Most[Seen(a.start + 1)]
                                   /\ StepsOf(a) = 5 * Most[Seen(a.start + 1)] + 4
           /\ a.pc = "tail" => /\ AcksOf(a) = Most[Seen(a.start + 1)]
                               /\ StepsOf(a) = 5 * Most[Seen(a.start + 1)] + 3
           /\ a.pc = "return" => AcksOf(a) = 0 /\ StepsOf(a) = 1
  <1>1. a.pos \in Nat /\ a.start + 1 \in Nat
    BY DEF Act
  <1>2. Most[Seen(a.pos)] \in Nat /\ Most[Seen(a.start + 1)] \in Nat
    BY <1>1, SeenFacts, MostDef
  <1>3. CASE a.pc = "enter"
    BY <1>2, <1>3 DEF AcksOf, StepsOf
  <1>4. CASE a.pc = "check"
    BY <1>2, <1>4 DEF AcksOf, StepsOf
  <1>5. CASE a.pc = "callback"
    BY <1>2, <1>5 DEF AcksOf, StepsOf
  <1>6. CASE a.pc = "tail"
    BY <1>2, <1>6 DEF AcksOf, StepsOf
  <1>7. CASE a.pc = "return"
    BY <1>2, <1>7 DEF AcksOf, StepsOf
  <1> QED
    BY <1>2, <1>3, <1>4, <1>5, <1>6, <1>7

(* The activation a call starts sees less than its caller. *)
LEMMA CalleeCost ==
    ASSUME TypeOK, NEW p \in Nat, NEW q \in Nat, p <= q
    PROVE  /\ Activation(q) \in Act
           /\ AcksOf(Activation(q)) \in Nat
           /\ AcksOf(Activation(q)) <= Most[Seen(p)]
           /\ StepsOf(Activation(q)) = 5 * AcksOf(Activation(q)) + 1
  <1>1. Activation(q) \in Act /\ Activation(q).pc = "enter" /\ Activation(q).pos = q
    BY DEF Activation, Act, Pc
  <1>2. Seen(q) \in Nat /\ Seen(p) \in Nat /\ Seen(q) <= Seen(p)
    BY SeenFacts
  <1>3. Most[Seen(q)] \in Nat /\ Most[Seen(q)] <= Most[Seen(p)]
    BY <1>2, MostGrows
  <1> QED
    BY <1>1, <1>3, CostOf

(* Every step spends of what was left. *)
LEMMA WorkStep ==
    ASSUME Bound, [Next]_vars
    PROVE  /\ buf' = buf
           /\ \/ UNCHANGED <<stack, acks>>
              \/ \E k \in Nat : Len(acks') = Len(acks) + k /\ Spends(k)
  <1> DEFINE M == Most[Seen(Top.start + 1)]
             Spent == \E k \in Nat : Len(acks') = Len(acks) + k /\ Spends(k)
  <1>0. /\ TypeOK /\ Len(acks) \in Nat
        /\ \A x : Len(Append(acks, x)) = Len(acks) + 1
    <2>1. TypeOK /\ acks \in Seq(Nat \X {"SUCCESS", "CRC_ERROR"})
      BY DEF Bound, TypeOK
    <2>2. Len(acks) \in Nat
      BY <2>1, LenProperties
    <2>3. ASSUME NEW x PROVE Len(Append(acks, x)) = Len(acks) + 1
      BY <2>1
    <2> QED
      BY <2>1, <2>2, <2>3
  <1>a. ASSUME NEW w, At(w)
        PROVE  /\ Top \in Act /\ Top.pc = w /\ M \in Nat
               /\ \A v \in Pc : /\ [Top EXCEPT !.pc = v] \in Act
                                /\ [Top EXCEPT !.pc = v].pc = v
                                /\ [Top EXCEPT !.pc = v].start = Top.start
                                /\ Goto(v) = [stack EXCEPT ![Len(stack)] = [Top EXCEPT !.pc = v]]
    <2>1. Top \in Act /\ Top.pc = w
      BY <1>a, TopFacts
    <2>2. \A v \in Pc : [Top EXCEPT !.pc = v] \in Act /\ [Top EXCEPT !.pc = v].pc = v
                        /\ [Top EXCEPT !.pc = v].start = Top.start
      BY <2>1 DEF Act
    <2>3. \A v \in Pc : Goto(v) = [stack EXCEPT ![Len(stack)] = [Top EXCEPT !.pc = v]]
      BY DEF Goto, Top
    <2> QED
      BY <1>0, <2>1, <2>2, <2>3, CostOf
  <1>1. CASE Found
    <2>1. At("enter") /\ buf' = buf /\ acks' = acks
      BY <1>1 DEF Found
    <2>1a. PICK h \in Header : /\ IsNext(h, Top.pos)
                              /\ \E d \in Declared(h) :
                                   stack' = [stack EXCEPT ![Len(stack)] =
                                     [@ EXCEPT !.start = h, !.declared = d, !.pc = "check"]]
      BY <1>1 DEF Found
    <2>2. PICK d \in Declared(h) :
            stack' = [stack EXCEPT ![Len(stack)] =
                  [@ EXCEPT !.start = h, !.declared = d, !.pc = "check"]]
      BY <2>1a
    <2> DEFINE b == [Top EXCEPT !.start = h, !.declared = d, !.pc = "check"]
    <2>3. stack' = [stack EXCEPT ![Len(stack)] = b]
      BY <2>2 DEF Top
    <2>4. h \in Nat /\ d \in Nat
      BY <2>1a, <2>2, <1>0, BufferFacts
    <2>5. b \in Act /\ b.pc = "check" /\ b.start = h
      BY <1>a, <2>1, <2>4 DEF Act, Pc
    <2> HIDE DEF b
    <2>6. Seen(h + 1) + 1 <= Seen(Top.pos) /\ Seen(h + 1) \in Nat /\ Seen(Top.pos) \in Nat
      <3>1. Top.pos \in Nat /\ Top.pos <= h
        BY <1>a, <2>1, <2>1a DEF Act, IsNext
      <3> QED
        BY <1>0, <2>1a, <2>4, <3>1, SeenFacts
    <2>7. 2 * Most[Seen(h + 1)] + 1 <= Most[Seen(Top.pos)]
      BY <2>6, MostGrows, MostDef
    <2>8. /\ AcksOf(b) = 2 * Most[Seen(h + 1)] + 1 /\ StepsOf(b) = 10 * Most[Seen(h + 1)] + 5
          /\ AcksOf(Top) = Most[Seen(Top.pos)] /\ StepsOf(Top) = 5 * Most[Seen(Top.pos)] + 1
          /\ Most[Seen(h + 1)] \in Nat /\ Most[Seen(Top.pos)] \in Nat
      BY <1>0, <1>a, <2>1, <2>5, CostOf
    <2>9. AcksOf(b) + 0 <= AcksOf(Top) /\ StepsOf(b) < StepsOf(Top)
      BY <2>7, <2>8
    <2>10. Spends(0)
      BY <2>1, <2>3, <2>5, <2>9, LeftFacts
    <2> QED
      BY <1>0, <2>1, <2>10
  <1>2. CASE NotFound
    <2>1. At("enter") /\ buf' = buf /\ acks' = acks /\ stack' = Popped
      BY <1>2 DEF NotFound
    <2>2. StepsOf(Top) > 0
      BY <1>0, <1>a, <2>1, CostOf
    <2>3. Spends(0)
      BY <2>1, <2>2, LeftFacts
    <2> QED
      BY <1>0, <2>1, <2>3
  <1>3. CASE CrcFault \/ Overflow
    BY <1>3 DEF CrcFault, Overflow
  <1>4. CASE CrcGood
    <2>1. At("check") /\ buf' = buf /\ stack' = Goto("callback") /\ Len(acks') = Len(acks) + 1
      BY <1>0, <1>4 DEF CrcGood
    <2> DEFINE b == [Top EXCEPT !.pc = "callback"]
    <2>2. /\ b \in Act /\ b.pc = "callback" /\ b.start = Top.start
          /\ stack' = [stack EXCEPT ![Len(stack)] = b]
      BY <1>a, <2>1 DEF Pc
    <2> HIDE DEF b
    <2>3. /\ M \in Nat /\ AcksOf(b) = M /\ StepsOf(b) = 5 * M + 4
          /\ AcksOf(Top) = 2 * M + 1 /\ StepsOf(Top) = 10 * M + 5
      BY <1>0, <1>a, <2>1, <2>2, CostOf
    <2>4. AcksOf(b) + 1 <= AcksOf(Top) /\ StepsOf(b) < StepsOf(Top)
      BY <2>3
    <2>5. Spends(1)
      BY <2>1, <2>2, <2>4, LeftFacts
    <2> QED
      BY <2>1, <2>5
  <1>5. CASE Callback
    <2>1. At("callback") /\ buf' = buf /\ stack' = Goto("tail") /\ acks' = acks
      BY <1>5 DEF Callback
    <2> DEFINE b == [Top EXCEPT !.pc = "tail"]
    <2>2. /\ b \in Act /\ b.pc = "tail" /\ b.start = Top.start
          /\ stack' = [stack EXCEPT ![Len(stack)] = b]
      BY <1>a, <2>1 DEF Pc
    <2> HIDE DEF b
    <2>3. /\ M \in Nat /\ AcksOf(b) = M /\ StepsOf(b) = 5 * M + 3
          /\ AcksOf(Top) = M /\ StepsOf(Top) = 5 * M + 4
      BY <1>0, <1>a, <2>1, <2>2, CostOf
    <2>4. AcksOf(b) + 0 <= AcksOf(Top) /\ StepsOf(b) < StepsOf(Top)
      BY <2>3
    <2>5. Spends(0)
      BY <2>1, <2>2, <2>4, LeftFacts
    <2> QED
      BY <1>0, <2>1, <2>5
  <1>6. CASE CrcBad
    <2>1. /\ At("check") /\ buf' = buf /\ Len(acks') = Len(acks) + 1
          /\ stack' = Append(Goto("tail"), Activation(Top.start + 2))
      BY <1>0, <1>6 DEF CrcBad, Resync, Call
    <2> DEFINE b == [Top EXCEPT !.pc = "tail"]
               c == Activation(Top.start + 2)
    <2>2. /\ b \in Act /\ b.pc = "tail" /\ b.start = Top.start
          /\ stack' = Append([stack EXCEPT ![Len(stack)] = b], c)
      BY <1>a, <2>1 DEF Pc
    <2> HIDE DEF b
    <2>3. Top.start + 1 \in Nat /\ Top.start + 2 \in Nat /\ Top.start + 1 <= Top.start + 2
      BY <1>a, <2>1 DEF Act
    <2>4. c \in Act /\ AcksOf(c) \in Nat /\ AcksOf(c) <= M /\ StepsOf(c) = 5 * AcksOf(c) + 1
      BY <1>0, <2>3, CalleeCost
    <2> HIDE DEF c
    <2>5. /\ M \in Nat /\ AcksOf(b) = M /\ StepsOf(b) = 5 * M + 3
          /\ AcksOf(Top) = 2 * M + 1 /\ StepsOf(Top) = 10 * M + 5
      BY <1>0, <1>a, <2>1, <2>2, CostOf
    <2>6. AcksOf(b) + AcksOf(c) + 1 <= AcksOf(Top) /\ StepsOf(b) + StepsOf(c) < StepsOf(Top)
      <3> HIDE DEF M
      <3> QED
        BY <2>4, <2>5
    <2>7. Spends(1)
      BY <2>1, <2>2, <2>4, <2>6, LeftFacts
    <2> QED
      BY <2>1, <2>7
  <1>7. CASE More
    <2>1. /\ At("tail") /\ buf' = buf /\ acks' = acks
          /\ stack' = Append(Goto("return"), Activation(Top.start + Size(Top.declared)))
      BY <1>7 DEF More, AfterFrame, Call
    <2> DEFINE b == [Top EXCEPT !.pc = "return"]
               c == Activation(Top.start + Size(Top.declared))
    <2>2. /\ b \in Act /\ b.pc = "return"
          /\ stack' = Append([stack EXCEPT ![Len(stack)] = b], c)
      BY <1>a, <2>1 DEF Pc
    <2> HIDE DEF b
    <2>3. /\ Top.start + 1 \in Nat /\ Top.start + Size(Top.declared) \in Nat
          /\ Top.start + 1 <= Top.start + Size(Top.declared)
      BY <2>1, StartFacts
    <2>4. c \in Act /\ AcksOf(c) \in Nat /\ AcksOf(c) <= M /\ StepsOf(c) = 5 * AcksOf(c) + 1
      BY <1>0, <2>3, CalleeCost
    <2> HIDE DEF c
    <2>5. /\ M \in Nat /\ AcksOf(b) = 0 /\ StepsOf(b) = 1
          /\ AcksOf(Top) = M /\ StepsOf(Top) = 5 * M + 3
      BY <1>0, <1>a, <2>1, <2>2, CostOf
    <2>6. AcksOf(b) + AcksOf(c) + 0 <= AcksOf(Top) /\ StepsOf(b) + StepsOf(c) < StepsOf(Top)
      <3> HIDE DEF M
      <3> QED
        BY <2>4, <2>5
    <2>7. Spends(0)
      BY <2>1, <2>2, <2>4, <2>6, LeftFacts
    <2> QED
      BY <1>0, <2>1, <2>7
  <1>8. CASE Return
    <2>1. PICK w \in {"tail", "return"} : At(w)
      BY <1>8 DEF Return
    <2>2. buf' = buf /\ acks' = acks /\ stack' = Popped
      BY <1>8 DEF Return
    <2>3. StepsOf(Top) > 0
      BY <1>0, <1>a, <2>1, CostOf
    <2>4. Spends(0)
      BY <2>1, <2>2, <2>3, LeftFacts
    <2> QED
      BY <1>0, <2>2, <2>4
  <1>9. CASE Done \/ UNCHANGED vars
    BY <1>9 DEF Done, vars
  <1> QED
    BY <1>1, <1>2, <1>3, <1>4, <1>5, <1>6, <1>7, <1>8, <1>9 DEF Next

-----------------------------------------------------------------------------
(* What was written and what is left to write fit into the bound. *)
Budget == AcksLeft \in Nat /\ Len(acks) + AcksLeft <= Most[Cardinality(Header)]

(* A buffer begins with the whole budget, ... *)
LEMMA BudgetBeginning == Begun => Budget
  <1> SUFFICES ASSUME Begun PROVE Budget
    OBVIOUS
  <1>1. TypeOK /\ stack = <<Activation(0)>> /\ Len(acks) = 0
    BY Beginning, EmptySeq DEF Inductive, Bound, Begun
  <1>2. Activation(0) \in Act /\ Activation(0).pc = "enter" /\ Activation(0).pos = 0
    BY DEF Activation, Act, Pc
  <1>3. << >> \in Seq(Act) /\ stack = Append(<< >>, Activation(0)) /\ stack \in Seq(Act)
    BY <1>1, <1>2, EmptySeq
  <1>4. Costs(acksOf, << >>) = << >>
    BY EmptySeq DEF Costs
  <1>5. Total(Costs(acksOf, stack)) = 0 + acksOf[Activation(0)]
    BY <1>1, <1>2, <1>3, <1>4, CostTypes, CostsAppend, TotalEmpty
  <1>6. acksOf[Activation(0)] = Most[Seen(0)] /\ Most[Seen(0)] \in Nat
    BY <1>1, <1>2, CostOf DEF acksOf
  <1>7. AcksLeft = Most[Seen(0)]
    BY <1>3, <1>5, <1>6, TotalsHold DEF Totals
  <1> QED
    BY <1>1, <1>6, <1>7, SeenFacts DEF Budget

(* What is left is a number. *)
LEMMA LeftType == Bound => AcksLeft \in Nat /\ StepsLeft \in Nat
  <1> SUFFICES ASSUME Bound PROVE AcksLeft \in Nat /\ StepsLeft \in Nat
    OBVIOUS
  <1>1. stack \in Seq(Act) /\ acksOf \in [Act -> Nat] /\ stepsOf \in [Act -> Nat]
    BY CostTypes DEF Bound, TypeOK, Act
  <1>2. Activation(0) \in Act
    BY DEF Activation, Act, Pc
  <1> QED
    BY <1>1, <1>2, TotalsHold, CostsAppend DEF Totals

(* ... no step exceeds it, ... *)
LEMMA BudgetStep == Bound /\ Budget /\ [Next]_vars => Budget'
  <1> SUFFICES ASSUME Bound, Budget, [Next]_vars PROVE Budget'
    OBVIOUS
  <1>1. AcksLeft' \in Nat
    <2>1. Bound'
      BY BoundStep
    <2>2. (AcksLeft \in Nat /\ StepsLeft \in Nat)'
      BY <2>1, LeftType, PTL
    <2> QED
      BY <2>2
  <1>2. buf' = buf /\ Header' = Header
    BY WorkStep DEF Header
  <1>3. Len(acks) \in Nat /\ Most[Cardinality(Header)] \in Nat
    <2>1. TypeOK
      BY DEF Bound
    <2>2. acks \in Seq(Nat \X {"SUCCESS", "CRC_ERROR"})
      BY <2>1 DEF TypeOK
    <2> QED
      BY <2>1, <2>2, LenProperties, SeenFacts, MostDef
  <1>4. CASE UNCHANGED <<stack, acks>>
    <2>1. AcksLeft' = AcksLeft
      BY <1>2, <1>4 DEF AcksLeft, AcksOf, Seen, Header
    <2> QED
      BY <1>2, <1>4, <2>1 DEF Budget
  <1>5. ASSUME NEW k \in Nat, Len(acks') = Len(acks) + k, Spends(k) PROVE Budget'
    <2>1. AcksLeft' + k <= AcksLeft /\ AcksLeft \in Nat
      BY <1>5 DEF Spends, Budget
    <2>2. Len(acks) + AcksLeft <= Most[Cardinality(Header)]
      BY DEF Budget
    <2>3. Len(acks') + AcksLeft' <= Most[Cardinality(Header)]
      <3>1. \A n, x, y, z \in Nat : y + k <= x /\ n + x <= z => (n + k) + y <= z
        OBVIOUS
      <3>2. (Len(acks) + k) + AcksLeft' <= Most[Cardinality(Header)]
        BY <1>1, <1>3, <2>1, <2>2, <3>1
      <3> QED
        BY <1>5, <3>2
    <2> QED
      BY <1>1, <1>2, <2>3 DEF Budget
  <1> QED
    BY <1>4, <1>5, WorkStep

(* ... and what was written was in it. *)
LEMMA BudgetFollows == Bound /\ Budget => AckBound
  <1> SUFFICES ASSUME Bound, Budget PROVE AckBound
    OBVIOUS
  <1>1. TypeOK /\ acks \in Seq(Nat \X {"SUCCESS", "CRC_ERROR"})
    BY DEF Bound, TypeOK
  <1>2. Len(acks) \in Nat /\ Most[Cardinality(Header)] \in Nat
    BY <1>1, LenProperties, SeenFacts, MostDef
  <1> QED
    BY <1>2 DEF Budget, AckBound

(* handle_packet writes no more acknowledgements than two to the power of  *)
(* the number of headers in the read, whatever they declare.               *)
THEOREM AcksCorrect == Spec => []AckBound
  <1>1. Init => Budget
    BY BudgetBeginning, BufferAssumption DEF Init, Begun
  <1>2. Inductive => Bound
    BY DEF Inductive
  <1> QED
    BY <1>1, <1>2, BudgetStep, BudgetFollows, InductiveInvariant, PTL DEF Spec

(* A step leaves fewer to come, or the process dies of what Returns says. *)
Progresses == \/ StepsLeft' < StepsLeft
              \/ fault' = "crc" /\ Lethal
              \/ fault' = "stack" /\ Crowded

LEMMA ReturnsStep ==
    ASSUME Inductive, AllRead, [Next]_vars, stack # << >>,
           <<stack, fault>>' # <<stack, fault>>
    PROVE  Progresses
  <1>0. Bound
    BY DEF Inductive
  <1>1. CASE CrcFault
    <2>1. At("check") /\ Size(Top.declared) < 2 /\ fault' = "crc"
      BY <1>1 DEF CrcFault
    <2>2. Top.start \in Header /\ Top.declared \in Declared(Top.start)
      <3>1. /\ Top.pc = "check" /\ Top = stack[Len(stack)]
            /\ Len(stack) \in 1 .. Len(stack) /\ FrameOK(Len(stack))
        BY <1>0, <2>1, TopFacts
      <3> QED
        BY <3>1 DEF FrameOK, AllRead, HasRead
    <2>3. Top.start \in Nat /\ Top.start + 2 <= buf.len /\ Top.declared \in Nat
      BY <1>0, <2>1, StartFacts
    <2>4. buf.len \in Nat /\ buf.len <= MAX_SIZE
      BY <1>0, SizeAssumption DEF Bound, TypeOK, IsBuffer
    <2>5. Top.declared \in {0, 1}
      BY <2>1, <2>3, <2>4, SizeAssumption DEF Size
    <2> QED
      BY <2>1, <2>2, <2>5 DEF Progresses, Lethal
  <1>2. CASE Overflow
    <2>1. Len(stack) > DEPTH /\ fault' = "stack"
      BY <1>2 DEF Overflow
    <2>2. Len(stack) \in Nat /\ Cardinality(Header) \in Nat
      BY <1>0, LenProperties, SeenFacts DEF Bound, TypeOK
    <2>3. Len(stack) <= Cardinality(Header) + 1
      BY DepthFollows DEF DepthBound
    <2>4. Crowded
      BY <2>1, <2>2, <2>3, DepthAssumption DEF Crowded
    <2> QED
      BY <2>1, <2>4 DEF Progresses
  <1>3. CASE ~CrcFault /\ ~Overflow
    <2>1. fault' = fault
      BY <1>3 DEF Next, Found, NotFound, CrcGood, Callback, CrcBad, More, Return, Done, vars
    <2>2. stack' # stack
      BY <2>1
    <2> QED
      BY <1>0, <2>2, WorkStep DEF Spends, Progresses
  <1> QED
    BY <1>1, <1>2, <1>3

(* Each step of the recursion leaves fewer to come: handle_packet returns, *)
(* or the process dies of a length below two or of too many headers.       *)
THEOREM ReturnsCorrect == Spec => Returns
  <1>1. Inductive /\ Complete /\ [Next]_vars
           => [stack # << >> => Progresses]_<<stack, fault>>
    BY ReturnsStep DEF Complete, Lossless
  <1> QED
    BY <1>1, InductiveInvariant, CompleteInvariant, PTL DEF Spec, Returns, Progresses
=============================================================================
