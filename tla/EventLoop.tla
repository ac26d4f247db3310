------------------------------- MODULE EventLoop -------------------------------
(***************************************************************************)
(* The one thread of the gateway: main, then co_eventloop, which shares it *)
(* between the consumer of DispatchChannel and the coroutines of the       *)
(* server.  A pass of the loop takes what epoll_wait and the timers        *)
(* report, and resumes each coroutine in it once; a coroutine keeps the    *)
(* thread until its next co_poll.  libco is external: it takes the -1 of a *)
(* co_poll for INT_MAX milliseconds, and returns when they are over.       *)
(*                                                                         *)
(* What a server coroutine does when it has the thread is in               *)
(* ServerChannel; here it uses up its event and polls again.               *)
(***************************************************************************)
EXTENDS DispatchChannel

CONSTANTS
    Server,    \* the acceptor, the readers, the statistics coroutine
    Kafka      \* the coroutine kafka_routine

ASSUME CoroutineAssumption ==
    /\ Kafka \notin Server \cup {"main", "loop"}
    /\ Server \cap {"main", "loop"} = {}

VARIABLES
    running,   \* who has the thread
    active,    \* coroutines this pass has still to resume
    due        \* coroutines with a timer, or a server's event

loop     == <<running, active, due>>
loopVars == <<vars, loop>>

-----------------------------------------------------------------------------
(* The coroutines whose co_poll may return. *)
Ready == due \cup IF pc = "poll" /\ PipeReadable THEN {Kafka} ELSE {}

LoopInit ==
    /\ Init
    /\ running = "main" /\ active = {} /\ due = {}

(* create_server, and wf_co_event_loop up to its loop. *)
Main ==
    /\ running = "main"
    /\ \/ EnableEvents /\ UNCHANGED running
       \/ Start /\ running' = "loop"
    /\ UNCHANGED <<active, due>>

(* epoll_wait returns, due timers are added. *)
EpollWait ==
    /\ running = "loop" /\ active = {} /\ Ready # {}
    /\ active' = Ready
    /\ UNCHANGED <<vars, running, due>>

Resume(c) ==
    /\ running = "loop" /\ c \in active
    /\ running' = c
    /\ active' = active \ {c}
    /\ UNCHANGED due

(* A server coroutine: see ServerChannel. *)
ResumeServer == \E s \in Server : Resume(s) /\ UNCHANGED vars

Serve ==
    /\ running \in Server
    /\ due' = due \ {running}
    /\ running' = "loop"
    /\ UNCHANGED <<vars, active>>

(* kafka_routine, from one co_poll to the next. *)
ResumeKafka == Resume(Kafka) /\ Wake

Drain ==
    /\ running = Kafka
    /\ ReadByte \/ Consume \/ HandleMessage \/ HandleNoSid
    /\ UNCHANGED loop

Yield ==
    /\ running = Kafka /\ NoData
    /\ running' = "loop"
    /\ due' = due \ {Kafka}
    /\ UNCHANGED active

(* Clients, and librdkafka. *)
Event(s) ==
    /\ pc # "crashed"
    /\ due' = due \cup {s}
    /\ UNCHANGED <<vars, running, active>>

(* The consumer's co_poll has lasted INT_MAX milliseconds. *)
LongPollEnds ==
    /\ pc = "poll" /\ Kafka \notin active
    /\ due' = due \cup {Kafka}
    /\ UNCHANGED <<vars, running, active>>

Arrival == \E m \in Msg : Enqueue(m) /\ UNCHANGED loop

Thread == Main \/ EpollWait \/ ResumeServer \/ Serve \/ ResumeKafka \/ Drain \/ Yield

LoopNext == Thread \/ Arrival \/ LongPollEnds \/ \E s \in Server : Event(s)

LoopSpec == LoopInit /\ [][LoopNext]_loopVars

(* The thread runs on when it can.  Nobody else has to do anything. *)
FairLoopSpec == LoopSpec /\ WF_loopVars(Thread)

-----------------------------------------------------------------------------
(* Properties.                                                             *)

LoopTypeOK ==
    /\ TypeOK
    /\ running \in {"main", "loop", Kafka} \cup Server
    /\ active \subseteq Server \cup {Kafka}
    /\ due \subseteq Server \cup {Kafka}

Draining == pc \in {"drain", "handle"}
Stuck    == pc = "drain" /\ Blocked

(* The thread waits in the read() of consume(). *)
Waiting == pc = "read" /\ bytes = 0

(* "Use up the event" (easn_dispatch_channel.cpp:97-99): there is one to   *)
(* use up, and the whole gateway stops in that read() only when the        *)
(* co_poll before it was over without one; and then no message waits that  *)
(* has been announced, so that the next one to be announced ends the wait. *)
ReadWaits == Waiting => Kafka \in due /\ (queue = << >> \/ early)

(* Every coroutine of the server that has something to do gets the thread, *)
(* unless the consumer keeps it for ever: in the loop that empties the     *)
(* queue (easn_dispatch_channel.cpp:103-113), or in that read().           *)
Served ==
    \A s \in Server :
        s \in due ~> \/ running = s \/ pc = "crashed"
                     \/ []Draining
                     \/ [](Waiting /\ Kafka \in due)

(* It drains for ever only while messages keep arriving, or when the pipe  *)
(* has filled up under the consumer: rd_kafka_consume_queue waits for the  *)
(* queue's lock, which librdkafka's thread holds until somebody reads the  *)
(* pipe.                                                                   *)
DrainEnds == <>[]Draining => []<><<Arrival>>_loopVars \/ <>[]Stuck

(* Every message that was announced is taken from the queue in the end,    *)
(* however busy the server is.                                             *)
Queued(m) == \E i \in 1 .. Len(queue) : queue[i] = m
Consumed ==
    \A m \in Msg : Queued(m) ~> (~Queued(m) \/ early \/ Stuck \/ pc = "crashed")
=============================================================================
