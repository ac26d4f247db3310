---------------------------- MODULE EventLoopProofs ----------------------------
(***************************************************************************)
(* Proofs about DispatchChannel and about EventLoop, for any coroutines,   *)
(* any messages of any kinds and a pipe of any size.                       *)
(*                                                                         *)
(* First the consumer alone.  WakeupPending speaks of the sleeping         *)
(* coroutine only.  It is kept by an invariant that also covers the time   *)
(* between the constructor and the first co_poll, and between a co_poll    *)
(* and the read() behind it: the queue fills silently only before the      *)
(* events are enabled, and nobody but that read() takes a byte.            *)
(*                                                                         *)
(* Then the loop.  A pass resumes coroutines from a snapshot of what was   *)
(* ready.  It implements DispatchChannel, and what is proved of that       *)
(* module holds of the whole thread.  In a snapshot the consumer has a     *)
(* byte in its pipe or a co_poll that is over, and so it has when it is    *)
(* resumed: nobody else reads the pipe (Snapshot).                         *)
(***************************************************************************)
EXTENDS EventLoop, TLAPS, SequenceTheorems

(* The wake-up argument. *)
Announced ==
    /\ enabled <=> pc # "subscribed"
    /\ pc = "subscribed" /\ queue # << >> => early
    /\ pc \in {"constructed", "poll", "read"} /\ queue # << >> /\ ~early => bytes > 0

(* A message is in hand exactly while it is handled. *)
Holding ==
    /\ pc = "handle" => rkmessage # << >>
    /\ pc \notin {"handle", "crashed"} => rkmessage = << >>

Inductive == TypeOK /\ Announced /\ Holding

-----------------------------------------------------------------------------
(* The message in hand is the first of those not written down. *)
LEMMA InHand ==
    ASSUME Inductive, pc = "handle"
    PROVE  /\ Len(rkmessage) = 1 /\ rkmessage[1] \in Msg
           /\ rkmessage \o queue # << >>
           /\ Head(rkmessage \o queue) = rkmessage[1]
           /\ Tail(rkmessage \o queue) = queue
  <1>1. rkmessage \in Seq(Msg) /\ queue \in Seq(Msg) /\ rkmessage # << >>
        /\ Len(rkmessage) <= 1
    BY DEF Inductive, TypeOK, Holding
  <1>2. Len(rkmessage) = 1
    <2>1. Len(rkmessage) \in Nat /\ Len(rkmessage) # 0
      BY <1>1
    <2>2. ASSUME NEW n \in Nat, n # 0, n <= 1 PROVE n = 1
      BY <2>2
    <2> QED
      BY <1>1, <2>1, <2>2, Zenon
  <1>3. rkmessage[1] \in Msg
    BY <1>1, <1>2, ElementOfSeq
  <1>4. rkmessage = <<rkmessage[1]>>
    BY <1>1, <1>2
  <1> DEFINE m == rkmessage[1]
  <1>5. ASSUME NEW x \in Msg
        PROVE  /\ <<x>> \o queue # << >> /\ Head(<<x>> \o queue) = x
               /\ Tail(<<x>> \o queue) = queue
    <2>1. /\ <<x>> \o queue \in Seq(Msg) /\ Len(<<x>> \o queue) = 1 + Len(queue)
          /\ (<<x>> \o queue)[1] = x
          /\ \A i \in 1 .. Len(queue) : (<<x>> \o queue)[i + 1] = queue[i]
      BY <1>1
    <2>2. <<x>> \o queue # << >> /\ Head(<<x>> \o queue) = x
      BY <1>1, <2>1
    <2>3. Tail(<<x>> \o queue) = queue
      <3>1. Tail(<<x>> \o queue) \in Seq(Msg) /\ Len(Tail(<<x>> \o queue)) = Len(queue)
        BY <1>1, <2>1, <2>2, HeadTailProperties
      <3>2. \A i \in 1 .. Len(queue) : Tail(<<x>> \o queue)[i] = queue[i]
        BY <1>1, <2>1, <2>2, HeadTailProperties
      <3> QED
        BY <1>1, <3>1, <3>2, SeqEqual
    <2> QED
      BY <2>2, <2>3
  <1> QED
    BY <1>2, <1>3, <1>4, <1>5

(* The types are preserved by every step. *)
LEMMA TypeStep ==
    ASSUME Inductive, [Next]_vars
    PROVE  TypeOK'
  <1> USE PipeAssumption DEF Inductive, TypeOK
  <1>1. ASSUME NEW m \in Msg, Enqueue(m) PROVE TypeOK'
    <2>1. queue' \in Seq(Msg)
      BY <1>1, AppendProperties DEF Enqueue
    <2>2. bytes <= PIPE
      BY <1>1 DEF Enqueue, Blocked
    <2>3. bytes' \in 0 .. PIPE + 1
      BY <1>1, <2>2 DEF Enqueue
    <2>4. early' \in BOOLEAN
      BY <1>1 DEF Enqueue
    <2> QED
      BY <1>1, <2>1, <2>3, <2>4 DEF Enqueue
  <1>2. CASE EnableEvents
    BY <1>2 DEF EnableEvents
  <1>3. CASE Start
    BY <1>3 DEF Start
  <1>4. CASE Wake
    BY <1>4 DEF Wake
  <1>5. CASE ReadByte
    BY <1>5 DEF ReadByte
  <1>6. CASE Consume
    <2>1. queue # << >> /\ Head(queue) \in Msg /\ Tail(queue) \in Seq(Msg)
      BY <1>6, HeadTailProperties DEF Consume, HasMessage
    <2> QED
      BY <1>6, <2>1 DEF Consume
  <1>7. CASE HandleMessage
    <2>1. rkmessage[1] \in Msg
      BY <1>7, InHand DEF HandleMessage
    <2>2. written' \subseteq {"error", "message"}
      BY <1>7 DEF HandleMessage, LoggedAs
    <2>3. muted' \in BOOLEAN
      BY <1>7 DEF HandleMessage
    <2> QED
      BY <1>7, <2>2, <2>3 DEF HandleMessage
  <1>8. CASE HandleNoSid
    BY <1>8 DEF HandleNoSid
  <1>9. CASE NoData
    BY <1>9 DEF NoData
  <1>10. CASE UNCHANGED vars
    BY <1>10 DEF vars
  <1> QED
    BY <1>1, <1>2, <1>3, <1>4, <1>5, <1>6, <1>7, <1>8, <1>9, <1>10 DEF Next, Consumer

(* So is the wake-up argument. *)
LEMMA AnnouncedStep ==
    ASSUME Inductive, [Next]_vars
    PROVE  Announced' /\ Holding'
  <1> USE DEF Inductive, TypeOK, Announced, Holding
  <1>1. ASSUME NEW m \in Msg, Enqueue(m) PROVE Announced' /\ Holding'
    <2>1. queue' # << >>
      BY <1>1, AppendProperties DEF Enqueue
    <2>2. CASE queue = << >>
      <3>1. UNCHANGED <<enabled, pc, rkmessage>> /\ early' = ~enabled
        BY <1>1, <2>2 DEF Enqueue
      <3>2. bytes' >= bytes /\ (enabled => bytes' = bytes + 1)
        BY <1>1, <2>2 DEF Enqueue
      <3>3. enabled => bytes' > 0
        BY <3>2
      <3> QED
        BY <3>1, <3>3, Zenon
    <2>3. CASE queue # << >>
      BY <1>1, <2>1, <2>3 DEF Enqueue
    <2> QED
      BY <2>2, <2>3
  <1>2. CASE EnableEvents
    BY <1>2 DEF EnableEvents
  <1>3. CASE Start
    BY <1>3 DEF Start
  <1>4. CASE Wake
    BY <1>4 DEF Wake
  <1>5. CASE ReadByte
    BY <1>5 DEF ReadByte
  <1>6. CASE Consume
    BY <1>6 DEF Consume
  <1>7. CASE HandleMessage
    BY <1>7 DEF HandleMessage
  <1>8. CASE HandleNoSid
    BY <1>8 DEF HandleNoSid
  <1>9. CASE NoData
    BY <1>9 DEF NoData, HasMessage
  <1>10. CASE UNCHANGED vars
    BY <1>10 DEF vars
  <1> QED
    BY <1>1, <1>2, <1>3, <1>4, <1>5, <1>6, <1>7, <1>8, <1>9, <1>10 DEF Next, Consumer

(* The inductive invariant holds in every reachable state. *)
LEMMA InitInductive == Init => Inductive
  <1> SUFFICES ASSUME Init PROVE Inductive
    OBVIOUS
  <1>1. << >> \in Seq(Msg)
    BY EmptySeq
  <1>2. Len(rkmessage) <= 1 /\ bytes \in 0 .. PIPE + 1
    BY PipeAssumption DEF Init
  <1>3. enabled \in BOOLEAN /\ early \in BOOLEAN /\ muted \in BOOLEAN
    BY DEF Init
  <1>4. TypeOK
    BY <1>1, <1>2, <1>3 DEF Init, TypeOK
  <1>5. Announced /\ Holding
    BY DEF Init, Announced, Holding
  <1> QED
    BY <1>4, <1>5 DEF Inductive

(* Every step preserves the invariant of the consumer. *)
LEMMA NextInductive == Inductive /\ [Next]_vars => Inductive'
  BY TypeStep, AnnouncedStep DEF Inductive

(* The types, the wake-up argument and the message in hand are inductive.  *)
THEOREM InductiveInvariant == Spec => []Inductive
  BY InitInductive, NextInductive, PTL DEF Spec

(* Every variable keeps its type. *)
THEOREM TypeCorrect == Spec => []TypeOK
  <1>1. Inductive => TypeOK
    BY DEF Inductive
  <1> QED
    BY <1>1, InductiveInvariant, PTL

(* No wake-up is lost once the events of the queue are enabled. *)
THEOREM WakeupCorrect == Spec => []WakeupPending
  <1>1. Inductive => WakeupPending
    BY DEF Inductive, Announced, WakeupPending
  <1> QED
    BY <1>1, InductiveInvariant, PTL

-----------------------------------------------------------------------------
(* Every step is one of the promise, or changes nothing it speaks of. *)
LEMMA LogStep ==
    ASSUME Inductive, [Next]_vars
    PROVE  [Log!Next]_(Log!vars)
  <1> USE DEF Inductive, TypeOK
  <1> SUFFICES \/ \E m \in Msg : Log!Arrive(m)
               \/ Log!Write
               \/ UNCHANGED <<rkmessage \o queue, written, muted>>
    BY DEF Log!Next, Log!vars
  <1>1. ASSUME NEW m \in Msg, Enqueue(m) PROVE Log!Arrive(m)
    <2>1. queue' = Append(queue, m) /\ UNCHANGED <<rkmessage, written, muted>>
      BY <1>1 DEF Enqueue
    <2>2. rkmessage \o Append(queue, m) = Append(rkmessage \o queue, m)
      OBVIOUS
    <2> QED
      BY <2>1, <2>2 DEF Log!Arrive
  <1>2. CASE Consume
    <2>1. rkmessage = << >> /\ queue # << >>
      BY <1>2 DEF Consume, HasMessage, Holding
    <2>2. rkmessage \o queue = queue
      BY <2>1, EmptySeq, ConcatEmptySeq
    <2>3. <<Head(queue)>> \o Tail(queue) = queue
      BY <2>1
    <2> QED
      BY <1>2, <2>2, <2>3 DEF Consume
  <1>3. CASE HandleMessage
    <2> DEFINE m == rkmessage[1]
    <2>1. /\ m \in Msg /\ rkmessage \o queue # << >>
          /\ Head(rkmessage \o queue) = m /\ Tail(rkmessage \o queue) = queue
      BY <1>3, InHand DEF HandleMessage
    <2>2. /\ written' = LoggedAs(m) /\ rkmessage' = << >> /\ queue' = queue
          /\ muted' = (muted \/ Kind[m] = "null")
      BY <1>3 DEF HandleMessage
    <2>3. rkmessage' \o queue' = queue
      BY <2>2, EmptySeq, ConcatEmptySeq
    <2>4. Kind[m] \in Kinds
      BY <2>1, KindAssumption
    <2>5. /\ "error" \in written' <=> Kind[m] \in {"unknown", "error"}
          /\ "message" \in written' <=> ~muted /\ Kind[m] \in {"message", "nosid", "error"}
      BY <2>2 DEF LoggedAs
    <2> QED
      BY <2>1, <2>2, <2>3, <2>4, <2>5 DEF Log!Write, Kinds
  <1>4. CASE EnableEvents \/ Start \/ Wake \/ ReadByte \/ HandleNoSid \/ NoData
    BY <1>4 DEF EnableEvents, Start, Wake, ReadByte, HandleNoSid, NoData
  <1>5. CASE UNCHANGED vars
    BY <1>5 DEF vars
  <1> QED
    BY <1>1, <1>2, <1>3, <1>4, <1>5 DEF Next, Consumer

(* The consumer writes everything down once, in the order in which it      *)
(* arrives, and for what it is (easn_dispatch_channel.cpp:90-155).         *)
THEOREM BatchesCorrect == Spec => Batched
  <1>1. Init => Log!Init
    <2>1. Init => rkmessage \o queue = << >>
      BY EmptySeq, ConcatEmptySeq DEF Init
    <2> QED
      BY <2>1 DEF Init, Log!Init
  <1> QED
    BY <1>1, LogStep, InductiveInvariant, PTL DEF Spec, Batched, Log!Spec

-----------------------------------------------------------------------------
(* The loop.                                                               *)

(* Who has the thread, and where the consumer stands. *)
Turn ==
    /\ running = "main" <=> pc \in {"subscribed", "constructed"}
    /\ running = Kafka <=> pc \in {"read", "drain", "handle", "crashed"}

(* What the snapshot says of the consumer stays true until it is resumed,  *)
(* and then until it has read.                                             *)
Snapshot ==
    /\ Kafka \in active => pc = "poll"
    /\ Kafka \in active \/ pc = "read" => bytes > 0 \/ Kafka \in due

LoopTypes ==
    /\ running \in {"main", "loop", Kafka} \cup Server
    /\ active \subseteq Server \cup {Kafka}
    /\ due \subseteq Server \cup {Kafka}

LoopInductive == Inductive /\ LoopTypes /\ Turn /\ Snapshot

-----------------------------------------------------------------------------
(* Every step of the loop is one of the consumer or of librdkafka, or      *)
(* changes nothing of theirs.                                              *)
LEMMA LoopRefines ==
    ASSUME LoopInductive, [LoopNext]_loopVars
    PROVE  [Next]_vars
  <1>1. CASE ResumeKafka
    BY <1>1 DEF ResumeKafka, Next, Consumer
  <1>2. CASE Main
    BY <1>2 DEF Main, Next, Consumer
  <1>3. CASE Drain \/ Yield
    BY <1>3 DEF Drain, Yield, Next, Consumer
  <1>4. CASE Arrival
    BY <1>4 DEF Arrival, Next
  <1>5. CASE EpollWait \/ ResumeServer \/ Serve \/ LongPollEnds \/ \E s \in Server : Event(s)
    BY <1>5 DEF EpollWait, ResumeServer, Serve, LongPollEnds, Event
  <1>6. CASE UNCHANGED loopVars
    BY <1>6 DEF loopVars
  <1> QED
    BY <1>1, <1>2, <1>3, <1>4, <1>5, <1>6 DEF LoopNext, Thread

(* The thread belongs to one coroutine, and the snapshot stays true. *)
LEMMA LoopStep ==
    ASSUME LoopInductive, [LoopNext]_loopVars
    PROVE  LoopTypes' /\ Turn' /\ Snapshot'
  <1> USE CoroutineAssumption DEF LoopInductive, LoopTypes, Turn, Snapshot
  <1>1. CASE EnableEvents /\ UNCHANGED <<running, active, due>>
    BY <1>1 DEF EnableEvents
  <1>2. CASE running = "main" /\ Start /\ running' = "loop" /\ UNCHANGED <<active, due>>
    BY <1>2 DEF Start
  <1>3. CASE EpollWait
    <2>1. pc = "poll"
      BY <1>3 DEF EpollWait, Inductive, TypeOK
    <2>2. /\ active' \subseteq Server \cup {Kafka}
          /\ Kafka \in active' => bytes > 0 \/ Kafka \in due
      BY <1>3 DEF EpollWait, Ready, PipeReadable
    <2> QED
      BY <1>3, <2>1, <2>2 DEF EpollWait, vars
  <1>4. CASE ResumeServer
    BY <1>4 DEF ResumeServer, Resume, vars
  <1>5. CASE Serve
    BY <1>5 DEF Serve, vars
  <1>6. CASE ResumeKafka
    BY <1>6 DEF ResumeKafka, Resume, Wake
  <1>7. CASE Drain
    BY <1>7 DEF Drain, ReadByte, Consume, HandleMessage, HandleNoSid, loop
  <1>8. CASE Yield
    BY <1>8 DEF Yield, NoData
  <1>9. CASE Arrival
    <2>1. bytes \in Int /\ bytes' \in {bytes, bytes + 1} /\ UNCHANGED <<loop, pc>>
      BY <1>9 DEF Arrival, Enqueue, Inductive, TypeOK
    <2>2. bytes > 0 => bytes' > 0
      BY <2>1
    <2> QED
      BY <2>1, <2>2, Zenon DEF loop
  <1>10. CASE \E s \in Server : Event(s)
    BY <1>10 DEF Event, vars
  <1>11. CASE LongPollEnds
    BY <1>11 DEF LongPollEnds, vars
  <1>12. CASE UNCHANGED loopVars
    BY <1>12 DEF loopVars, loop, vars
  <1> QED
    BY <1>1, <1>2, <1>3, <1>4, <1>5, <1>6, <1>7, <1>8, <1>9, <1>10, <1>11,
       <1>12
       DEF LoopNext, Thread, Main

(* The invariant of the loop and of the consumer together. *)
THEOREM LoopInvariant == LoopSpec => []LoopInductive
  <1>1. LoopInit => LoopInductive
    <2>1. LoopInit => Inductive
      BY InitInductive DEF LoopInit
    <2>2. LoopInit => LoopTypes /\ Turn /\ Snapshot
      BY CoroutineAssumption DEF LoopInit, Init, LoopTypes, Turn, Snapshot
    <2> QED
      BY <2>1, <2>2 DEF LoopInductive
  <1>2. LoopInductive /\ [LoopNext]_loopVars => LoopInductive'
    <2> SUFFICES ASSUME LoopInductive, [LoopNext]_loopVars PROVE LoopInductive'
      OBVIOUS
    <2>1. Inductive'
      BY LoopRefines, NextInductive DEF LoopInductive
    <2> QED
      BY <2>1, LoopStep DEF LoopInductive
  <1> QED
    BY <1>1, <1>2, PTL DEF LoopSpec

(* The loop implements the consumer's module. *)
THEOREM LoopImplementsConsumer == LoopSpec => Spec
  <1>1. LoopInit => Init
    BY DEF LoopInit
  <1> QED
    BY <1>1, LoopRefines, LoopInvariant, PTL DEF LoopSpec, Spec

(* Every variable of the thread keeps its type. *)
THEOREM LoopTypeCorrect == LoopSpec => []LoopTypeOK
  <1>1. LoopInductive => LoopTypeOK
    BY DEF LoopInductive, LoopTypes, LoopTypeOK, Inductive
  <1> QED
    BY <1>1, LoopInvariant, PTL

(* The read() of the consumer stops the thread only behind a co_poll that  *)
(* was over without a byte, and with no announced message on the queue     *)
(* (easn_dispatch_channel.cpp:95-99).                                      *)
THEOREM ReadWaitsCorrect == LoopSpec => []ReadWaits
  <1>1. LoopInductive => ReadWaits
    BY DEF LoopInductive, Inductive, TypeOK, Announced, Snapshot, ReadWaits, Waiting
  <1> QED
    BY <1>1, LoopInvariant, PTL

(* Under the loop, too, no wake-up is lost and every message is written    *)
(* down once, in order and for what it is.                                 *)
THEOREM LoopKeepsPromises == LoopSpec => []WakeupPending /\ Batched
  BY LoopImplementsConsumer, WakeupCorrect, BatchesCorrect, PTL
=============================================================================
