---------------------------- MODULE KafkaDispatcher ----------------------------
(***************************************************************************)
(* The Kafka producer of the gateway: easn::dispatch_message,              *)
(* kafka_dispatcher and the librdkafka handle that wf_kafka configures.    *)
(*                                                                         *)
(* librdkafka is external.  Assumed of it: rd_kafka_producev refuses a     *)
(* message when CAPACITY messages are in its care, and for no other reason *)
(* (its limit in bytes, the size of a message and an unknown topic are     *)
(* left out, and so is a header that cannot be added); a message is in its *)
(* care until the application has taken its delivery report, if it has     *)
(* asked for reports as events (rd_kafka_conf_set_events); it owns the     *)
(* headers of a message it has not refused; rd_kafka_flush takes reports;  *)
(* rd_kafka_destroy drops what the broker has not answered.                *)
(* Messages have no key and no partition (RD_KAFKA_PARTITION_UA), so the   *)
(* broker may answer them in any order.                                    *)
(***************************************************************************)
EXTENDS Integers, FiniteSets

CONSTANTS
    Msg,        \* messages the callback dispatches, each at most once
    CAPACITY    \* queue.buffering.max.messages

ASSUME CapacityAssumption == CAPACITY \in Nat \ {0}

VARIABLES
    state,      \* "new", "up", "flushing" (in the destructor), "down"
    queue,      \* messages the broker has not answered
    reports,    \* delivery reports waiting to be taken: messages
    delivered,  \* messages the broker has
    failed,     \* messages librdkafka has given up
    lost,       \* messages dropped when the time to flush was over
    refused,    \* messages rd_kafka_producev has refused
    headers     \* who has to free each message's headers

vars == <<state, queue, reports, delivered, failed, lost, refused, headers>>

-----------------------------------------------------------------------------
(* Faults of the helpers below, for the mutants of PROJECT.json.           *)

LeftToLibrary(m)  == [headers EXCEPT ![m] = "librdkafka"]
NeverTimesOut     == FALSE
RoomForOneMore    == Cardinality(queue \cup reports) <= CAPACITY
RoomWithoutReports == Cardinality(queue) < CAPACITY

-----------------------------------------------------------------------------
(* Room for one more message in librdkafka's care. *)
Room == Cardinality(queue \cup reports) < CAPACITY

(* do_produce: if (err) rd_kafka_headers_destroy(hdrs). *)
Destroyed(m) == [headers EXCEPT ![m] = "nobody"]

(* rd_kafka_flush has nothing left to wait for. *)
Flushed == queue = {} /\ reports = {}

-----------------------------------------------------------------------------
Init ==
    /\ state = "new"
    /\ queue = {}
    /\ reports = {} /\ delivered = {} /\ failed = {} /\ lost = {} /\ refused = {}
    /\ headers = [m \in Msg |-> "unmade"]

(* The constructor has its handle and its topic. *)
Create ==
    /\ state = "new"
    /\ state' = "up"
    /\ UNCHANGED <<queue, reports, delivered, failed, lost, refused, headers>>

(* dispatch_message and produce: the headers, then rd_kafka_producev. *)
Produce(m) ==
    /\ state = "up" /\ headers[m] = "unmade"
    /\ Room
    /\ queue' = queue \cup {m}
    /\ headers' = [headers EXCEPT ![m] = "librdkafka"]
    /\ UNCHANGED <<state, reports, delivered, failed, lost, refused>>

(* rd_kafka_producev returns an error; nobody is told. *)
ProduceRefused(m) ==
    /\ state = "up" /\ headers[m] = "unmade"
    /\ ~Room
    /\ refused' = refused \cup {m}
    /\ headers' = Destroyed(m)
    /\ UNCHANGED <<state, queue, reports, delivered, failed, lost>>

(* librdkafka: the broker answers for a message, or message.timeout.ms is  *)
(* over.  Nothing polls the report.                                        *)
Deliver(m) ==
    /\ state # "down" /\ m \in queue
    /\ delivered' = delivered \cup {m}
    /\ reports' = reports \cup {m}
    /\ queue' = queue \ {m}
    /\ UNCHANGED <<state, failed, lost, refused, headers>>

GiveUp(m) ==
    /\ state # "down" /\ m \in queue
    /\ failed' = failed \cup {m}
    /\ reports' = reports \cup {m}
    /\ queue' = queue \ {m}
    /\ UNCHANGED <<state, delivered, lost, refused, headers>>

(* The destructor has been called. *)
Stop ==
    /\ state = "up"
    /\ state' = "flushing"
    /\ UNCHANGED <<queue, reports, delivered, failed, lost, refused, headers>>

(* rd_kafka_flush takes a report: its message is freed. *)
TakeReport(m) ==
    /\ state = "flushing" /\ m \in reports
    /\ reports' = reports \ {m}
    /\ headers' = [headers EXCEPT ![m] = "nobody"]
    /\ UNCHANGED <<state, queue, delivered, failed, lost, refused>>

(* ~wf_kafka, rd_kafka_destroy: what is left is purged. *)
Purged == [m \in Msg |-> IF headers[m] = "librdkafka" THEN "nobody" ELSE headers[m]]

FlushDone ==
    /\ state = "flushing" /\ Flushed
    /\ state' = "down"
    /\ headers' = Purged
    /\ UNCHANGED <<queue, reports, delivered, failed, lost, refused>>

(* The ten seconds are over, which nobody looks at: what the broker has    *)
(* not answered is purged with the handle.                                 *)
FlushTimeout ==
    /\ state = "flushing" /\ ~Flushed
    /\ state' = "down"
    /\ lost' = lost \cup queue
    /\ queue' = {} /\ reports' = {}
    /\ headers' = Purged
    /\ UNCHANGED <<delivered, failed, refused>>

Dispatcher == \E m \in Msg : Produce(m) \/ ProduceRefused(m)
Library    == \E m \in Msg : Deliver(m) \/ GiveUp(m)
Shutdown   == Stop \/ FlushDone \/ FlushTimeout \/ \E m \in Msg : TakeReport(m)

Next == Create \/ Dispatcher \/ Library \/ Shutdown

Spec == Init /\ [][Next]_vars

-----------------------------------------------------------------------------
(* Properties.                                                             *)

TypeOK ==
    /\ state \in {"new", "up", "flushing", "down"}
    /\ queue \subseteq Msg /\ Cardinality(queue \cup reports) <= CAPACITY
    /\ reports \subseteq Msg /\ delivered \subseteq Msg
    /\ failed \subseteq Msg /\ lost \subseteq Msg /\ refused \subseteq Msg
    /\ headers \in [Msg -> {"unmade", "librdkafka", "nobody"}]

(* The headers of every message are freed once and none leaks              *)
(* (easn_kafka_dispatcher.h:35-50): librdkafka owns those of the messages  *)
(* in its care and no others, whatever was refused, reported or flushed.   *)
HeadersOwned ==
    \A m \in Msg : headers[m] = "librdkafka" <=> m \in queue \cup reports

(* The producer takes CAPACITY messages in its whole life, however fast    *)
(* the broker is, and refuses every one after them: nobody takes a report  *)
(* before the flush (wf_kafka.cpp:23, easn_kafka_dispatcher.cpp:26).       *)
Accepted == queue \cup delivered \cup failed \cup lost
TakesCapacity ==
    /\ Cardinality(Accepted) <= CAPACITY
    /\ refused # {} => Cardinality(Accepted) = CAPACITY

(* "Put the message into the queue" (easn_kafka_dispatcher.h:18): while    *)
(* the broker keeps up, so that nothing waits in the queue, produce does.  *)
PutInQueue == [][queue = {} => refused' = refused]_vars
=============================================================================
