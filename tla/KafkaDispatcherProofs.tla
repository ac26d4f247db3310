------------------------- MODULE KafkaDispatcherProofs -------------------------
(***************************************************************************)
(* Proofs about KafkaDispatcher, for any set of messages and any capacity. *)
(***************************************************************************)
EXTENDS KafkaDispatcher, FiniteSetTheorems, TLAPS

(* A message waits in one place only, and those that wait can be counted.  *)
Once    == queue \cap reports = {}
Counted == IsFiniteSet(queue \cup reports)

(* Every message that was produced can be accounted for. *)
Accounted ==
    \A m \in Msg : headers[m] # "unmade" <=>
                       m \in queue \cup delivered \cup failed \cup lost \cup refused

Inductive == TypeOK /\ HeadersOwned /\ Once /\ Counted /\ Accounted

-----------------------------------------------------------------------------
(* The initial states satisfy the invariant. *)
LEMMA InitInductive == Init => Inductive
<1> SUFFICES ASSUME Init PROVE Inductive
    OBVIOUS
<1>1. Counted /\ Cardinality(queue \cup reports) = 0
    BY FS_EmptySet DEF Init, Counted
<1>2. TypeOK
    BY <1>1, CapacityAssumption DEF Init, TypeOK
<1>3. HeadersOwned /\ Once /\ Accounted
    BY DEF Init, HeadersOwned, Once, Accounted
<1> QED
    BY <1>1, <1>2, <1>3 DEF Inductive

(* Produce: a new message, in the queue and nowhere else. *)
LEMMA ProduceInductive ==
    ASSUME NEW m \in Msg, Inductive, Produce(m)
    PROVE  Inductive'
<1>1. queue' \cup reports' = (queue \cup reports) \cup {m}
    BY DEF Produce
<1>2. Counted' /\ Cardinality(queue' \cup reports') <= Cardinality(queue \cup reports) + 1
    BY <1>1, FS_AddElement, FS_CardinalityType DEF Inductive, Counted
<1>3. Cardinality(queue' \cup reports') <= CAPACITY
    BY <1>2, FS_CardinalityType, CapacityAssumption DEF Produce, Room, Inductive, Counted
<1>4. TypeOK'
    BY <1>3 DEF Produce, Inductive, TypeOK
<1>5. HeadersOwned' /\ Once' /\ Accounted'
    BY DEF Produce, Inductive, TypeOK, HeadersOwned, Once, Accounted
<1> QED
    BY <1>2, <1>4, <1>5 DEF Inductive

(* ProduceRefused: the message goes nowhere, its headers are destroyed. *)
LEMMA RefusedInductive ==
    ASSUME NEW m \in Msg, Inductive, ProduceRefused(m)
    PROVE  Inductive'
<1>1. TypeOK'
    BY DEF ProduceRefused, Inductive, TypeOK, Destroyed
<1>2. HeadersOwned' /\ Accounted'
    BY DEF ProduceRefused, Inductive, TypeOK, Destroyed, HeadersOwned, Accounted
<1> QED
    BY <1>1, <1>2 DEF ProduceRefused, Inductive, Once, Counted

(* Deliver and GiveUp: a message becomes a report. *)
LEMMA AnswerInductive ==
    ASSUME NEW m \in Msg, Inductive, Deliver(m) \/ GiveUp(m)
    PROVE  Inductive'
<1>1. /\ m \in queue /\ queue' = queue \ {m} /\ reports' = reports \cup {m}
      /\ headers' = headers /\ state' = state /\ refused' = refused
      /\ \/ delivered' = delivered \cup {m} /\ failed' = failed
         \/ failed' = failed \cup {m} /\ delivered' = delivered
      /\ lost' = lost
    BY DEF Deliver, GiveUp
<1>2. queue' \cup reports' = queue \cup reports
    BY <1>1
<1>3. TypeOK'
    BY <1>1, <1>2 DEF Inductive, TypeOK
<1>4. HeadersOwned' /\ Once' /\ Counted' /\ Accounted'
    BY <1>1, <1>2 DEF Inductive, HeadersOwned, Once, Counted, Accounted
<1> QED
    BY <1>3, <1>4 DEF Inductive

(* TakeReport: one report less, and its headers are free. *)
LEMMA TakeReportInductive ==
    ASSUME NEW m \in Msg, Inductive, TakeReport(m)
    PROVE  Inductive'
<1>1. queue' \cup reports' = (queue \cup reports) \ {m}
    BY DEF TakeReport, Inductive, Once
<1> DEFINE care == queue \cup reports
<1>2. Counted' /\ Cardinality(queue' \cup reports') <= Cardinality(queue \cup reports)
  <2>1. IsFiniteSet(care) /\ Cardinality(care) \in Nat
    BY FS_CardinalityType DEF Inductive, Counted
  <2>2. /\ IsFiniteSet(care \ {m})
        /\ Cardinality(care \ {m}) \in {Cardinality(care) - 1, Cardinality(care)}
    BY <2>1, FS_RemoveElement
  <2>3. Cardinality(care \ {m}) <= Cardinality(care)
    <3> DEFINE n == Cardinality(care)
    <3> HIDE DEF care, n
    <3>1. n \in Nat /\ Cardinality(care \ {m}) \in {n - 1, n}
      BY <2>1, <2>2 DEF n
    <3>2. Cardinality(care \ {m}) <= n
      BY <3>1
    <3> QED
      BY <3>2 DEF n
  <2> QED
    BY <1>1, <2>2, <2>3 DEF Counted
<1>3. Cardinality(queue' \cup reports') <= CAPACITY
    BY <1>2, FS_CardinalityType, CapacityAssumption DEF Inductive, TypeOK, Counted
<1>4. TypeOK'
    BY <1>3 DEF TakeReport, Inductive, TypeOK
<1>5. HeadersOwned' /\ Once' /\ Accounted'
    BY DEF TakeReport, Inductive, TypeOK, HeadersOwned, Once, Accounted
<1> QED
    BY <1>2, <1>4, <1>5 DEF Inductive

(* The end of the flush, either way: nothing waits any more. *)
LEMMA DownInductive ==
    ASSUME Inductive, FlushDone \/ FlushTimeout
    PROVE  Inductive'
<1>1. /\ queue' = {} /\ reports' = {} /\ headers' = Purged /\ state' = "down"
      /\ lost' = lost \cup queue
      /\ UNCHANGED <<delivered, failed, refused>>
    BY DEF FlushDone, FlushTimeout, Flushed
<1>2. Counted' /\ Cardinality(queue' \cup reports') = 0
    BY <1>1, FS_EmptySet DEF Counted
<1>3. TypeOK'
    BY <1>1, <1>2, CapacityAssumption DEF Inductive, TypeOK, Purged
<1>4. HeadersOwned' /\ Once' /\ Accounted'
    BY <1>1 DEF Inductive, TypeOK, HeadersOwned, Once, Purged, Accounted
<1> QED
    BY <1>2, <1>3, <1>4 DEF Inductive

(* The steps that change only the dispatcher's own state. *)
LEMMA StateInductive ==
    ASSUME Inductive, Create \/ Stop \/ UNCHANGED vars
    PROVE  Inductive'
<1>1. state' \in {state, "up", "flushing"}
      /\ UNCHANGED <<queue, reports, delivered, failed, lost, refused, headers>>
    BY DEF Create, Stop, vars
<1> QED
    BY <1>1 DEF Inductive, TypeOK, HeadersOwned, Once, Counted, Accounted

(* Every step preserves the invariant. *)
LEMMA NextInductive == Inductive /\ [Next]_vars => Inductive'
BY ProduceInductive, RefusedInductive, AnswerInductive, TakeReportInductive,
   DownInductive, StateInductive
   DEF Next, Dispatcher, Library, Shutdown

(* The invariant of the producer: types and capacity, whose the headers    *)
(* are, that no message is in librdkafka's care twice, and that none has   *)
(* been lost sight of.                                                     *)
THEOREM InductiveInvariant == Spec => []Inductive
BY InitInductive, NextInductive, PTL DEF Spec

(* librdkafka never has more than queue.buffering.max.messages in its care *)
(* (wf_kafka.cpp:12), however many messages are produced.                  *)
THEOREM TypeCorrect == Spec => []TypeOK
<1>1. Inductive => TypeOK
    BY DEF Inductive
<1> QED
    BY <1>1, InductiveInvariant, PTL

(* Headers are freed once and none leaks (easn_kafka_dispatcher.h:26-56),  *)
(* on every path through refusal, report, flush and purge.                 *)
THEOREM HeadersCorrect == Spec => []HeadersOwned
<1>1. Inductive => HeadersOwned
    BY DEF Inductive
<1> QED
    BY <1>1, InductiveInvariant, PTL

-----------------------------------------------------------------------------
(* Until the flush takes them, there is a report for every message the     *)
(* broker has answered: what waits is all that was accepted.               *)
Unpolled == state \in {"new", "up"} => queue \cup reports = Accepted

Intake == Unpolled /\ TakesCapacity

(* While the dispatcher is up, to have room is to have accepted less than  *)
(* CAPACITY messages.                                                      *)
LEMMA RoomIntake ==
    ASSUME Inductive, Intake, state = "up"
    PROVE  /\ Cardinality(Accepted) \in Nat
           /\ Cardinality(Accepted) = Cardinality(queue \cup reports)
           /\ IF Room THEN Cardinality(Accepted) < CAPACITY
                      ELSE Cardinality(Accepted) = CAPACITY
<1>1. Accepted = queue \cup reports
    BY DEF Intake, Unpolled
<1>2. Cardinality(Accepted) \in Nat
    BY <1>1, FS_CardinalityType DEF Inductive, Counted
<1>3. Cardinality(Accepted) <= CAPACITY
    BY DEF Intake, TakesCapacity
<1>4. Room <=> Cardinality(Accepted) < CAPACITY
    BY <1>1 DEF Room
<1> QED
    BY <1>1, <1>2, <1>3, <1>4, CapacityAssumption

(* Every step preserves it: after the flush has begun nothing is accepted  *)
(* or refused.                                                             *)
LEMMA IntakeStep == Inductive /\ Intake /\ [Next]_vars => Intake'
<1> SUFFICES ASSUME Inductive, Intake, [Next]_vars PROVE Intake'
    OBVIOUS
<1> USE DEF Intake
<1>1. CASE \E m \in Msg : Produce(m)
  <2>1. PICK m \in Msg : Produce(m)
    BY <1>1
  <2>2. /\ queue' = queue \cup {m} /\ state = "up" /\ Room
        /\ UNCHANGED <<state, reports, delivered, failed, lost, refused>>
    BY <2>1 DEF Produce
  <2>3. Accepted' = (queue \cup reports) \cup {m} /\ Unpolled'
    BY <2>2 DEF Unpolled, Accepted
  <2>4. Cardinality(Accepted) \in Nat /\ Cardinality(Accepted) < CAPACITY
    BY <2>2, RoomIntake
  <2>5. refused = {}
    BY <2>4 DEF TakesCapacity
  <2>6. Accepted' = Accepted \cup {m}
    BY <2>2 DEF Accepted
  <2>7. IsFiniteSet(Accepted)
    BY <2>2 DEF Unpolled, Inductive, Counted
  <2>8. Cardinality(Accepted') \in {Cardinality(Accepted), Cardinality(Accepted) + 1}
    BY <2>6, <2>7, FS_AddElement
  <2>9. Cardinality(Accepted') <= CAPACITY
    <3> DEFINE n == Cardinality(Accepted)
    <3> HIDE DEF n
    <3>1. n \in Nat /\ n < CAPACITY /\ Cardinality(Accepted') \in {n, n + 1}
      BY <2>4, <2>8 DEF n
    <3> QED
      BY <3>1, CapacityAssumption
  <2> QED
    BY <2>2, <2>3, <2>5, <2>9 DEF TakesCapacity
<1>2. CASE \E m \in Msg : ProduceRefused(m)
  <2>1. /\ state = "up" /\ ~Room
        /\ UNCHANGED <<state, queue, reports, delivered, failed, lost>>
    BY <1>2 DEF ProduceRefused
  <2>2. Cardinality(Accepted) = CAPACITY
    BY <2>1, RoomIntake
  <2> QED
    BY <2>1, <2>2 DEF Unpolled, TakesCapacity, Accepted
<1>3. CASE Library
  <2>1. /\ UNCHANGED <<state, refused>> /\ Accepted' = Accepted
        /\ queue' \cup reports' = queue \cup reports
    BY <1>3 DEF Library, Deliver, GiveUp, Accepted
  <2> QED
    BY <2>1 DEF Unpolled, TakesCapacity
<1>4. CASE Create \/ UNCHANGED vars
  <2>1. /\ UNCHANGED <<queue, reports, delivered, failed, lost, refused>>
        /\ state' \in {"new", "up"} => state \in {"new", "up"}
    BY <1>4 DEF Create, vars
  <2> QED
    BY <2>1 DEF Unpolled, TakesCapacity, Accepted
<1>5. CASE Shutdown
  <2>1. state' \in {"flushing", "down"} /\ UNCHANGED refused /\ Accepted' = Accepted
    BY <1>5 DEF Shutdown, Stop, FlushDone, FlushTimeout, TakeReport, Accepted
  <2> QED
    BY <2>1 DEF Unpolled, TakesCapacity
<1> QED
    BY <1>1, <1>2, <1>3, <1>4, <1>5 DEF Next, Dispatcher

(* The producer takes queue.buffering.max.messages messages in its whole   *)
(* life and refuses a message only after them (wf_kafka.cpp:12,            *)
(* wf_kafka.cpp:23), whatever the broker does.                             *)
THEOREM CapacityCorrect == Spec => []TakesCapacity
<1>1. Init => Intake
  <2> SUFFICES ASSUME Init PROVE Intake
    OBVIOUS
  <2>1. Accepted = {} /\ queue \cup reports = {} /\ refused = {}
    BY DEF Init, Accepted
  <2> QED
    BY <2>1, FS_EmptySet, CapacityAssumption DEF Intake, Unpolled, TakesCapacity
<1>2. Intake => TakesCapacity
    BY DEF Intake
<1> QED
    BY <1>1, <1>2, IntakeStep, InductiveInvariant, PTL DEF Spec
=============================================================================
