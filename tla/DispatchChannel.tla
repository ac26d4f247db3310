---------------------------- MODULE DispatchChannel ----------------------------
(***************************************************************************)
(* The Kafka consumer of the gateway: easn::dispatch_channel.  librdkafka's *)
(* threads put messages on the consumer queue and write a byte into a pipe *)
(* when the queue stops being empty; the coroutine kafka_routine sleeps on *)
(* the pipe, reads one byte and takes messages until there is none.  It    *)
(* may also wake without a byte: see EventLoop.                            *)
(*                                                                         *)
(* librdkafka itself is external.  Assumed of it: it writes the byte for a *)
(* message put on an empty queue, once the events are enabled, with the    *)
(* queue locked; the lock is what rd_kafka_consume_queue needs too.        *)
(***************************************************************************)
EXTENDS Integers, Sequences

CONSTANTS
    Msg,       \* what is on the queue; a member may come again when handled
    Kind,      \* Kind[m]: the class of rkmessage->err, or of the message
    PIPE       \* bytes the pipe holds

(* "nosid" has headers, but no "sid" among them; "null" has no payload. *)
Kinds == {"message", "nosid", "null", "eof", "unknown", "error"}

ASSUME KindAssumption == Kind \in [Msg -> Kinds]
ASSUME PipeAssumption == PIPE \in Nat \ {0}

VARIABLES
    queue,     \* queue_t
    bytes,     \* bytes in the pipe fds, and the one that waits for room
    enabled,   \* rd_kafka_queue_io_event_enable has been called
    early,     \* the queue is not empty and nothing announced it
    pc,        \* where the constructor, then the coroutine, stands
    rkmessage, \* << >>, or the message being handled
    muted,     \* std::cout has failed: wf_info writes nothing any more
    written    \* the lines handle_message wrote for the last message

vars == <<queue, bytes, enabled, early, pc, rkmessage, muted, written>>

-----------------------------------------------------------------------------
(* Faults of the helpers below, for the mutants of PROJECT.json.           *)

PollOfZero      == TRUE
SecondEdgeOnly  == bytes > 1
WritesOn        == FALSE
LastOneLeft(q)  == Len(q) > 1
BreakForgotten  == FALSE
EofIsError(m)   == IF Kind[m] \in {"eof", "unknown", "error"} THEN {"error"} ELSE {"message"}

-----------------------------------------------------------------------------
(* What epoll reports for the pipe. *)
PipeReadable == bytes > 0

(* The pipe is full, and librdkafka's thread, with the queue locked, waits *)
(* to write one byte more.                                                 *)
Blocked == bytes > PIPE

(* rd_kafka_consume_queue(queue_t, 0) returns a message: the head. *)
HasMessage(q) == q # << >>

(* The loop over them is left when it returns none. *)
Breaks == TRUE

(* handle_message: the end of a partition is no error; after an error it   *)
(* returns only when partition or topic is unknown, and otherwise goes on  *)
(* to log the payload as if it were a message.  A payload NULL sets the    *)
(* badbit of std::cout.                                                    *)
LoggedAs(m) ==
    {line \in {"error", "message"} :
        \/ line = "error" /\ Kind[m] \in {"unknown", "error"}
        \/ line = "message" /\ Kind[m] \in {"message", "nosid", "error"} /\ ~muted}

-----------------------------------------------------------------------------
(* In the constructor, when rd_kafka_subscribe has returned. *)
Init ==
    /\ queue = << >> /\ bytes = 0
    /\ enabled = FALSE /\ early = FALSE
    /\ pc = "subscribed"
    /\ rkmessage = << >>
    /\ muted = FALSE /\ written = {}

(* librdkafka: a message or an error arrives. *)
Enqueue(m) ==
    /\ pc # "crashed" /\ ~Blocked
    /\ \A i \in 1 .. Len(queue) : queue[i] # m
    /\ queue' = Append(queue, m)
    /\ bytes' = IF enabled /\ queue = << >> THEN bytes + 1 ELSE bytes
    /\ early' = IF queue = << >> THEN ~enabled ELSE early
    /\ UNCHANGED <<enabled, pc, rkmessage, muted, written>>

(* Rest of the constructor: the pipe, and the events of the queue on it. *)
EnableEvents ==
    /\ pc = "subscribed"
    /\ enabled' = TRUE
    /\ pc' = "constructed"
    /\ UNCHANGED <<queue, bytes, early, rkmessage, muted, written>>

(* start(): the coroutine runs up to the co_poll of its first consume(). *)
Start ==
    /\ pc = "constructed"
    /\ pc' = "poll"
    /\ UNCHANGED <<queue, bytes, enabled, early, rkmessage, muted, written>>

(* co_poll returns; consume() does not look why. *)
Wake ==
    /\ pc = "poll"
    /\ pc' = "read"
    /\ UNCHANGED <<queue, bytes, enabled, early, rkmessage, muted, written>>

(* read(pf.fd, &b, 1): the pipe is blocking and the coroutine is not       *)
(* hooked, so without a byte the thread waits here until there is one.     *)
ReadByte ==
    /\ pc = "read" /\ bytes > 0
    /\ bytes' = bytes - 1
    /\ pc' = "drain"
    /\ UNCHANGED <<queue, enabled, early, rkmessage, muted, written>>

Consume ==
    /\ pc = "drain" /\ ~Blocked /\ HasMessage(queue)
    /\ rkmessage' = <<Head(queue)>>
    /\ queue' = Tail(queue)
    /\ pc' = "handle"
    /\ UNCHANGED <<bytes, enabled, early, muted, written>>

(* handle_message, rd_kafka_message_destroy. *)
HandleMessage ==
    /\ pc = "handle"
    /\ written' = LoggedAs(rkmessage[1])
    /\ muted' = (muted \/ Kind[rkmessage[1]] = "null")
    /\ rkmessage' = << >>
    /\ pc' = "drain"
    /\ UNCHANGED <<queue, bytes, enabled, early>>

(* rd_kafka_header_get finds no "sid" and leaves val as it was, which is   *)
(* unwritten: what is printed may be anything, or nowhere.                 *)
HandleNoSid ==
    /\ pc = "handle" /\ Kind[rkmessage[1]] = "nosid"
    /\ pc' = "crashed"
    /\ UNCHANGED <<queue, bytes, enabled, early, rkmessage, muted, written>>

(* No data left: break, and the next consume(). *)
NoData ==
    /\ pc = "drain" /\ ~Blocked /\ ~HasMessage(queue) /\ Breaks
    /\ pc' = "poll"
    /\ UNCHANGED <<queue, bytes, enabled, early, rkmessage, muted, written>>

Consumer ==
    \/ EnableEvents \/ Start \/ Wake
    \/ ReadByte \/ Consume \/ HandleMessage \/ HandleNoSid \/ NoData

Next == Consumer \/ \E m \in Msg : Enqueue(m)

Spec == Init /\ [][Next]_vars

-----------------------------------------------------------------------------
(* Properties.                                                             *)

TypeOK ==
    /\ queue \in Seq(Msg)
    /\ bytes \in 0 .. PIPE + 1
    /\ enabled \in BOOLEAN /\ early \in BOOLEAN
    /\ pc \in {"subscribed", "constructed", "poll", "read", "drain", "handle", "crashed"}
    /\ rkmessage \in Seq(Msg) /\ Len(rkmessage) <= 1
    /\ muted \in BOOLEAN
    /\ written \subseteq {"error", "message"}

(* No wake-up is lost: when the coroutine sleeps and the queue is not      *)
(* empty, there is a byte to wake it, unless the queue filled up between   *)
(* rd_kafka_subscribe and rd_kafka_queue_io_event_enable                   *)
(* (easn_dispatch_channel.cpp:29-41).                                      *)
WakeupPending == pc = "poll" /\ queue # << >> /\ ~early => bytes > 0

(* What the consumer promises, see MessageLog. *)
Log == INSTANCE MessageLog WITH pending <- rkmessage \o queue

(* One byte read for a whole batch loses, repeats and reorders nothing,    *)
(* and every message is written down for what it is.                       *)
Batched == Log!Spec
=============================================================================
