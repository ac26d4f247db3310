----------------------------- MODULE ProcessProofs -----------------------------
(***************************************************************************)
(* Proofs about Process: that it runs a KafkaDispatcher, and what start-up *)
(* and exit guarantee, for any set of messages and any capacity.           *)
(***************************************************************************)
EXTENDS Process, KafkaDispatcherProofs, SequenceTheorems

Early   == {"producer", "topic"}
Manager == {"consumer", "subscribe", "pipe", "add_kafka", "socket", "add_server",
            "signal", "start", "loop"}
Running == Early \cup {"add_dispatcher"} \cup Manager
Owned   == {"producer", "topic"}

(* How far the construction has come. *)
Construction ==
    /\ at \in Early => state = "new"
    /\ at \in {"add_dispatcher"} \cup Manager => state = "up"
    /\ at \in Manager => dispatcher
    /\ at \in {"socket", "add_server", "signal", "start", "loop"} =>
           "kafka" \in Range(channels)
    /\ at \in {"signal", "start", "loop"} => "server" \in Range(channels) /\ refs = {}
    /\ at \in {"start", "loop"} => stops
    /\ at \in Manager \ {"consumer", "subscribe"} => "queue_t" \in held
    /\ at \in Running => cause = "none"

(* Channels are started in order, and after their init(). *)
Started ==
    /\ Range(channels) \subseteq initialised
    /\ Len(started) <= Len(channels)
    /\ \A i \in DOMAIN started : started[i] = channels[i]

(* What exit() has still to give back after SIGINT. *)
Stopping ==
    cause = "SIGINT" =>
        /\ dispatcher /\ stops /\ refs = {}
        /\ Channel \subseteq Range(channels) /\ "queue_t" \in held
        /\ "wf_co_event" \notin Range(todo) => held \subseteq Owned \cup {"queue_t"}
        /\ "dispatcher_manager" \notin Range(todo) /\ at # "flush" =>
               held \cap Owned = {}

(* Where messages may wait in the producer's queue. *)
Sudden == {"SIGPIPE", "type", "parser", "handler"}
Waiting ==
    /\ queue # {} => at = "loop" \/ cause \in Sudden \cup {"SIGINT"}
    /\ at = "killed" => queue = {} \/ cause = "SIGPIPE"
    /\ at \in {"exit"} \cup Ended /\ "dispatcher_manager" \notin Range(todo) =>
           queue = {} \/ cause \in Sudden
    /\ at = "exited" => todo = << >>
    /\ cause \in Sudden => at \in Ended \ {"exited"}

Life == ProcessTypeOK /\ Construction /\ Started /\ Stopping /\ Waiting

-----------------------------------------------------------------------------
(* Every step of the process is one of the dispatcher, or none.            *)
LEMMA StepImplements == [ProcessNext]_processVars => [Next]_vars
BY DEF ProcessNext, processVars, life, frame, clients, kafka, vars, Startup, NewHandle, NewTopic,
       AddDispatcher, Subscribe, NewPipe, NewSocket, AddKafka, AddServer,
       AddChannel, StartupFails, SetHandler, StartChannel, EnterLoop,
       NewSession, Serve, Acknowledge, BrokenPipe, Ignore, Dispatch,
       NoTypeString, ParserFault, Dispatcher, Background, Interrupt, Kill, Exiting,
       FlushDispatcher, KeepDispatcher, DestroyChannels, DestroySessions,
       Finish, Report, EndFlush, Next, Shutdown

(* The process runs the producer as KafkaDispatcher describes it: it is    *)
(* created once, used while it is up, and stopped at most once.            *)
THEOREM RunsDispatcher == ProcessSpec => Spec
<1>1. ProcessInit => Init
    BY DEF ProcessInit
<1> QED
    BY <1>1, StepImplements, PTL DEF ProcessSpec, Spec

-----------------------------------------------------------------------------
(* One more at the end of a sequence, and the first one off. *)
LEMMA AppendRange ==
    ASSUME NEW S, NEW s \in Seq(S), NEW e \in S
    PROVE  /\ Append(s, e) \in Seq(S) /\ Len(Append(s, e)) = Len(s) + 1
           /\ Range(Append(s, e)) = Range(s) \cup {e}
<1>1. /\ Append(s, e) \in Seq(S)
      /\ Len(Append(s, e)) = Len(s) + 1
      /\ Append(s, e)[Len(s) + 1] = e
      /\ \A i \in 1 .. Len(s) : Append(s, e)[i] = s[i]
    OBVIOUS
<1>2. DOMAIN Append(s, e) = DOMAIN s \cup {Len(s) + 1} /\ DOMAIN s = 1 .. Len(s)
    BY <1>1
<1> QED
    BY <1>1, <1>2 DEF Range

(* The entries of a sequence are its head and those of its tail. *)
LEMMA TailRange ==
    ASSUME NEW S, NEW s \in Seq(S), s # << >>
    PROVE  Tail(s) \in Seq(S) /\ Range(s) = Range(Tail(s)) \cup {Head(s)}
<1>1. /\ Len(s) \in Nat /\ Len(s) > 0
      /\ Head(s) = s[1] /\ Tail(s) \in Seq(S) /\ Len(Tail(s)) = Len(s) - 1
      /\ \A i \in 1 .. Len(s) - 1 : Tail(s)[i] = s[i + 1]
    OBVIOUS
<1>2. DOMAIN Tail(s) = 1 .. Len(s) - 1 /\ DOMAIN s = 1 .. Len(s)
    BY <1>1
<1>3. \A i \in 1 .. Len(s) : i = 1 \/ (i - 1 \in 1 .. Len(s) - 1 /\ s[i] = Tail(s)[i - 1])
    BY <1>1
<1>4. \A i \in DOMAIN s : s[i] = Head(s) \/ s[i] \in Range(Tail(s))
    BY <1>1, <1>2, <1>3 DEF Range
<1>5. Head(s) \in Range(s) /\ \A i \in DOMAIN Tail(s) : Tail(s)[i] \in Range(s)
    BY <1>1, <1>2 DEF Range
<1> QED
    BY <1>1, <1>4, <1>5 DEF Range

(* exit() destroys every static object. *)
LEMMA OrderComplete ==
    ASSUME NEW o \in Order
    PROVE  o \in Seq(Static) /\ Range(o) = Static
<1>1. o \in [1 .. 3 -> Static] /\ DOMAIN o = 1 .. 3
    BY DEF Order
<1>2. /\ o[1] \in Static /\ o[2] \in Static /\ o[3] \in Static
      /\ o[1] # o[2] /\ o[1] # o[3] /\ o[2] # o[3]
    BY <1>1 DEF Order
<1>3. Static = {o[1], o[2], o[3]}
    BY <1>2 DEF Static
<1>4. Range(o) = {o[1], o[2], o[3]}
    BY <1>1 DEF Range
<1>5. o \in Seq(Static)
  <2>1. 3 \in Nat
    OBVIOUS
  <2> QED
    BY <1>1, <2>1, SeqDef
<1> QED
    BY <1>3, <1>4, <1>5

(* The turn of a static object: it is no longer to be destroyed, the       *)
(* others still are.                                                       *)
LEMMA TurnRange ==
    ASSUME NEW o, Turn(o), todo \in Seq(Static)
    PROVE  /\ at = "exit" /\ todo' \in Seq(Static)
           /\ Range(todo) = Range(todo') \cup {o}
BY TailRange DEF Turn

(* A channel more in the list. *)
LEMMA AddRange ==
    ASSUME NEW c \in Channel, AddChannel(c), Life
    PROVE  /\ channels' \in Seq(Channel) /\ Len(channels') = Len(channels) + 1
           /\ Range(channels') = Range(channels) \cup {c}
           /\ \A i \in DOMAIN channels : channels'[i] = channels[i]
<1>1. channels \in Seq(Channel) /\ channels' = Append(channels, c)
    BY DEF AddChannel, Life, ProcessTypeOK
<1>2. \A i \in DOMAIN channels : channels'[i] = channels[i]
    BY <1>1
<1> QED
    BY <1>1, <1>2, AppendRange

(* The dispatcher's invariant holds after every step. *)
LEMMA DispatcherStep == Inductive /\ [ProcessNext]_processVars => Inductive' /\ TypeOK'
BY StepImplements, NextInductive DEF Inductive

(* The steps of create_server that make an object. *)
LEMMA MakeLife ==
    ASSUME Life, TypeOK',
           \/ NewHandle \/ NewTopic \/ AddDispatcher
           \/ Subscribe \/ NewPipe \/ NewSocket
    PROVE  Life'
<1> USE DEF Life
<1>1. at \in Running \ {"loop"} /\ at' \in Running \ {"loop", "start", "signal"}
      /\ UNCHANGED <<channels, initialised, started, stops, clients, cause, todo>>
    BY DEF NewHandle, NewTopic, AddDispatcher, Subscribe, NewPipe, NewSocket,
           Running, Early, Manager
<1>2. ProcessTypeOK'
  <2>1. UNION {Resources(c) : c \in Channel} =
            {"subscription", "pipe", "consumer", "socket"}
    BY DEF Resources, Channel
  <2>2. /\ held' \subseteq {"producer", "topic", "queue_t"} \cup UNION {Resources(c) : c \in Channel}
        /\ refs' \subseteq {"dispatcher"} \cup Channel /\ dispatcher' \in BOOLEAN
    BY <2>1 DEF ProcessTypeOK, NewHandle, NewTopic, AddDispatcher, Subscribe,
           NewPipe, NewSocket, Channel
  <2> QED
    BY <1>1, <2>2 DEF ProcessTypeOK, clients, Running, Early, Manager
<1>3. Construction'
    BY DEF Construction, NewHandle, NewTopic, AddDispatcher, Subscribe,
           NewPipe, NewSocket, Create, kafka, Running, Early, Manager
<1>4. Started'
    BY <1>1 DEF Started, Range
<1>5. cause = "none" /\ queue' = queue
    BY <1>1 DEF Construction, Running, NewHandle, NewTopic, AddDispatcher,
           Subscribe, NewPipe, NewSocket, Create, kafka
<1>6. Stopping'
    BY <1>1, <1>5 DEF Stopping
<1>7. Waiting'
    BY <1>1, <1>5 DEF Waiting, Running, Early, Manager, Ended
<1> QED
    BY <1>2, <1>3, <1>4, <1>6, <1>7

(* add_server_channel. *)
LEMMA AddLife ==
    ASSUME Life, TypeOK', AddKafka \/ AddServer
    PROVE  Life'
<1> USE DEF Life
<1> SUFFICES ASSUME NEW c \in Channel, AddChannel(c),
                    \/ c = "kafka" /\ AddKafka
                    \/ c = "server" /\ AddServer
             PROVE  Life'
    BY DEF AddKafka, AddServer, Channel
<1>1. /\ channels' \in Seq(Channel) /\ Len(channels') = Len(channels) + 1
      /\ Range(channels') = Range(channels) \cup {c}
      /\ \A i \in DOMAIN channels : channels'[i] = channels[i]
    BY AddRange
<1>2. /\ initialised' = initialised \cup {c}
      /\ UNCHANGED <<held, dispatcher, started, stops, clients, cause, todo,
                     state, queue>>
    BY DEF AddChannel, Inited, kafka
<1>3. /\ at \in {"add_kafka", "add_server"} /\ at' \in {"socket", "signal"}
      /\ cause = "none"
    BY DEF AddKafka, AddServer, Construction, Running, Manager
<1>4. ProcessTypeOK'
    BY <1>1, <1>2 DEF ProcessTypeOK, clients, AddKafka, AddServer, Returned, Channel
<1>5. Construction'
    BY <1>1, <1>2 DEF Construction, AddKafka, AddServer, Returned, Running,
       Early, Manager
<1>6. Started'
  <2>1. channels \in Seq(Channel) /\ started \in Seq(Channel)
    BY DEF ProcessTypeOK
  <2> QED
    BY <1>1, <1>2, <2>1 DEF Started
<1>7. Stopping'
    BY <1>2, <1>3 DEF Stopping
<1>8. Waiting'
    BY <1>2, <1>3 DEF Waiting, Ended
<1> QED
    BY <1>4, <1>5, <1>6, <1>7, <1>8

(* wf_co_event_loop, up to the loop. *)
LEMMA LoopLife ==
    ASSUME Life, TypeOK', SetHandler \/ StartChannel \/ EnterLoop
    PROVE  Life'
<1> USE DEF Life
<1>1. /\ at \in {"signal", "start"} /\ at' \in {"start", "loop"}
      /\ cause = "none" /\ queue = {}
      /\ UNCHANGED <<held, refs, dispatcher, channels, initialised, clients,
                     cause, todo, state, queue>>
    BY DEF SetHandler, StartChannel, EnterLoop, life, frame, clients, kafka, Construction,
           Waiting, Running, Manager, Sudden
<1>2. stops' /\ (stops' = TRUE \/ stops' = stops)
    BY DEF SetHandler, Handler, StartChannel, EnterLoop, life, frame, clients, Construction
<1>3. started' \in Seq(Channel) /\ Started'
  <2>1. CASE UNCHANGED started
    BY <1>1, <2>1 DEF Started, ProcessTypeOK, Range
  <2>2. CASE StartChannel
    <3> DEFINE n == Len(started) + 1
    <3>1. /\ n \in DOMAIN channels /\ channels[n] \in Channel
          /\ started' = Append(started, channels[n])
        BY <2>2 DEF StartChannel, ProcessTypeOK, Started
    <3>2. /\ started' \in Seq(Channel) /\ Len(started') = n
          /\ DOMAIN started' = DOMAIN started \cup {n}
          /\ started'[n] = channels[n]
          /\ \A i \in DOMAIN started : started'[i] = started[i]
        BY <3>1 DEF ProcessTypeOK
    <3>3. n <= Len(channels)
        BY <3>1 DEF ProcessTypeOK
    <3> QED
        BY <1>1, <3>2, <3>3 DEF Started, Range
  <2> QED
    BY <2>1, <2>2 DEF SetHandler, EnterLoop, life, frame, clients
<1>4. ProcessTypeOK'
    BY <1>1, <1>2, <1>3 DEF ProcessTypeOK, clients
<1>5. Construction'
    BY <1>1, <1>2 DEF Construction, Running, Early, Manager, Range
<1>6. Stopping'
    BY <1>1 DEF Stopping
<1>7. Waiting'
    BY <1>1 DEF Waiting, Ended
<1> QED
    BY <1>3, <1>4, <1>5, <1>6, <1>7

(* The process at work: what changes is the clients' and the producer's. *)
LEMMA WorkLife ==
    ASSUME Life, Inductive, TypeOK',
           \/ \E c \in Session : NewSession(c)
           \/ \E p \in Msg : Acknowledge(p) \/ Ignore(p) \/ Dispatch(p)
           \/ Background
    PROVE  Life'
<1> USE DEF Life
<1>1. UNCHANGED <<at, frame, cause, todo, state>>
    BY DEF NewSession, Acknowledge, Ignore, Dispatch, Background, life, frame, clients, kafka,
           Produce, ProduceRefused, Library, Deliver, GiveUp
<1>2. queue = {} => queue' = {} \/ at = "loop"
    BY DEF NewSession, Acknowledge, Ignore, Dispatch, Background, kafka, Library,
           Deliver, GiveUp
<1>3. ProcessTypeOK'
  <2>1. /\ sessions' \subseteq Session /\ trusted' \subseteq Session
        /\ received' \subseteq Msg /\ hand' \subseteq received' /\ ignored' \subseteq received'
    BY PacketAssumption DEF NewSession, Acknowledge, Ignore, Dispatch, Background,
       life, clients, ProcessTypeOK
  <2> QED
    BY <1>1, <2>1 DEF ProcessTypeOK, frame
<1>4. Construction' /\ Started'
    BY <1>1 DEF Construction, Started, Range, frame
<1>5. Stopping'
    BY <1>1 DEF Stopping, frame
<1>6. Waiting'
    BY <1>1, <1>2 DEF Waiting, Ended, Range
<1> QED
    BY <1>3, <1>4, <1>5, <1>6

(* Ends that nothing comes after: a broken pipe, a type without a name, a  *)
(* fault of the parser, and a handler that waits for ever.                 *)
LEMMA SuddenLife ==
    ASSUME Life, TypeOK',
           \/ \E p \in Msg : BrokenPipe(p) \/ NoTypeString(p)
           \/ ParserFault
           \/ Interrupt /\ at' = "hung"
    PROVE  Life'
<1> USE DEF Life
<1>1. /\ UNCHANGED <<life, todo, state, queue>> /\ at \in {"start", "loop"}
      /\ at' \in {"killed", "crashed", "hung"} /\ cause' \in Sudden
      /\ at' = "killed" => cause' = "SIGPIPE"
    BY DEF BrokenPipe, NoTypeString, ParserFault, Interrupt, Arrived, Exit, kafka, Sudden
<1>2. ProcessTypeOK'
    BY <1>1 DEF ProcessTypeOK, life, frame, clients, Ended, Sudden
<1>3. Construction' /\ Started'
    BY <1>1 DEF Construction, Started, Range, life, frame, clients, frame, Running, Early, Manager
<1>4. Stopping' /\ Waiting'
    BY <1>1 DEF Stopping, Waiting, Ended, Sudden, Range
<1> QED
    BY <1>2, <1>3, <1>4

(* The ways out: a failure, and SIGINT with or without the handler. *)
LEMMA LeaveLife ==
    ASSUME Life, TypeOK', StartupFails \/ (Interrupt /\ at' # "hung") \/ Kill
    PROVE  Life'
<1> USE DEF Life
<1>1. UNCHANGED <<refs, dispatcher, channels, initialised, started, stops,
                  clients, state, queue>>
    BY DEF StartupFails, Interrupt, Kill, life, frame, clients, kafka
<1>2. CASE Kill
  <2>1. at' = "killed" /\ ~stops /\ UNCHANGED <<held, cause, todo>>
    BY <1>2 DEF Kill, life, frame, clients
  <2>2. ProcessTypeOK' /\ Construction' /\ Started'
    BY <1>1, <2>1 DEF ProcessTypeOK, clients, Construction, Started, Running, Early,
       Manager, Ended, Range
  <2>3. Stopping' /\ Waiting'
    BY <1>1, <2>1, <1>2 DEF Kill, Construction, Stopping, Waiting, Range, Ended, Sudden
  <2> QED
    BY <2>2, <2>3
<1>3. CASE StartupFails \/ (Interrupt /\ at' # "hung")
  <2>1. /\ at' = "exit" /\ cause' \in {"failure", "SIGINT"}
        /\ todo' \in Seq(Static) /\ Range(todo') = Static
    BY <1>3, OrderComplete DEF StartupFails, Interrupt, Exit
  <2>2. held' \subseteq {"producer", "topic", "queue_t"} \cup UNION {Resources(c) : c \in Channel}
    BY <1>3 DEF StartupFails, Interrupt, life, frame, clients, Half, Resources, Channel, ProcessTypeOK
  <2>3. ProcessTypeOK' /\ Construction' /\ Started'
    BY <1>1, <2>1, <2>2 DEF ProcessTypeOK, clients, Construction, Started, Running, Early,
       Manager, Range
  <2>4. CASE Interrupt /\ at' # "hung"
    <3>1. at \in {"start", "loop"} /\ cause' = "SIGINT" /\ refs = {} /\ stops
          /\ dispatcher /\ Channel \subseteq Range(channels) /\ "queue_t" \in held'
        BY <2>4 DEF Interrupt, Exit, Construction, Manager, Channel, life, frame
    <3> QED
        BY <1>1, <2>1, <2>3, <3>1 DEF Stopping, Waiting, Static, Range, Ended, Sudden
  <2>5. CASE StartupFails
    <3>1. cause' = "failure" /\ queue = {}
        BY <2>5 DEF StartupFails, Exit, Half, Construction, Waiting, Running,
           Early, Manager, Ended, Sudden
    <3> QED
        BY <1>1, <2>1, <2>3, <3>1 DEF Stopping, Waiting, Ended, Sudden
  <2> QED
    BY <1>3, <2>4, <2>5
<1> QED
    BY <1>2, <1>3

(* The destructors of the static objects. *)
LEMMA ExitLife ==
    ASSUME Life, TypeOK',
           \/ FlushDispatcher \/ KeepDispatcher
           \/ DestroyChannels \/ DestroySessions
    PROVE  Life'
<1> USE DEF Life
<1> SUFFICES ASSUME NEW o, Turn(o),
                    \/ o = "dispatcher_manager" /\ (FlushDispatcher \/ KeepDispatcher)
                    \/ o = "wf_co_event" /\ DestroyChannels
                    \/ o = "client_manager" /\ DestroySessions
             PROVE  Life'
    BY DEF FlushDispatcher, KeepDispatcher, DestroyChannels, DestroySessions
<1>1. /\ at = "exit" /\ todo' \in Seq(Static)
      /\ Range(todo) = Range(todo') \cup {o}
    BY TurnRange DEF ProcessTypeOK
<1>2. /\ UNCHANGED <<refs, dispatcher, channels, initialised, started, stops,
                     clients, cause, queue>>
      /\ at' \in {"exit", "flush", "crashed", "hung"}
      /\ held' \subseteq held
      /\ at' = "flush" => o = "dispatcher_manager"
      /\ o # "wf_co_event" => held' = held
      /\ "queue_t" \in held => "queue_t" \in held'
    BY <1>1 DEF FlushDispatcher, KeepDispatcher, DestroyChannels, DestroySessions,
           Resources, Stop, life, frame, clients, kafka
<1>3. ProcessTypeOK' /\ Construction' /\ Started'
    BY <1>1, <1>2 DEF ProcessTypeOK, clients, Construction, Started, Running, Early,
       Manager, Ended, Range
<1>4. ASSUME cause = "SIGINT", o = "wf_co_event"
      PROVE  held' \subseteq Owned \cup {"queue_t"}
  <2>1. /\ Channel \subseteq Range(channels) /\ refs = {}
        /\ held' = held \ UNION {Resources(c) : c \in Range(channels) \ refs}
    BY <1>4 DEF Stopping, DestroyChannels, FlushDispatcher, KeepDispatcher, DestroySessions, Turn
  <2>2. UNION {Resources(c) : c \in Channel} \subseteq
            UNION {Resources(c) : c \in Range(channels) \ refs}
    BY <2>1
  <2> QED
    BY <2>1, <2>2 DEF ProcessTypeOK, Owned
<1>5. ASSUME cause = "SIGINT", o = "dispatcher_manager" PROVE at' = "flush"
    BY <1>1, <1>5 DEF Stopping, FlushDispatcher, KeepDispatcher, LastOwner, DestroyChannels, DestroySessions, Turn
<1>6. Stopping'
    BY <1>1, <1>2, <1>4, <1>5 DEF Stopping, Range
<1>7. Waiting'
    BY <1>1, <1>2, <1>5 DEF Waiting, Ended
<1> QED
    BY <1>3, <1>6, <1>7

(* The flush, and the end of exit(). *)
LEMMA EndLife ==
    ASSUME Life, TypeOK', Report \/ EndFlush \/ Finish
    PROVE  Life'
<1> USE DEF Life
<1>1. /\ UNCHANGED <<refs, dispatcher, channels, initialised, started, stops,
                     clients, cause, todo>>
      /\ at \in {"exit", "flush"} /\ at' \in {"exit", "flush", "exited"}
    BY DEF Report, EndFlush, Finish, life, frame, clients
<1>2. /\ at' = "exited" => at = "exit" /\ todo = << >>
      /\ at' = "exit" => queue' = {} /\ held' = held \ Owned
      /\ at' = "flush" => at = "flush"
      /\ at' # "exit" => held' = held /\ queue' = queue
    BY DEF Report, EndFlush, Finish, TakeReport, FlushDone, FlushTimeout,
           Flushed, life, frame, clients, kafka, Owned
<1>3. ProcessTypeOK'
    BY <1>1, <1>2 DEF ProcessTypeOK, clients, Ended
<1>4. Construction' /\ Started'
    BY <1>1 DEF Construction, Started, Running, Early, Manager, Range
<1>5. Stopping'
    BY <1>1, <1>2 DEF Stopping, Range, Owned
<1>6. Waiting'
    BY <1>1, <1>2 DEF Waiting, Ended, Range
<1> QED
    BY <1>3, <1>4, <1>5, <1>6

-----------------------------------------------------------------------------
(* The process starts with nothing. *)
LEMMA ProcessInitLife == ProcessInit => Life
<1> SUFFICES ASSUME ProcessInit PROVE Life
    OBVIOUS
<1>1. TypeOK
    BY InitInductive DEF ProcessInit, Inductive
<1>2. /\ at = "producer" /\ state = "new" /\ cause = "none" /\ queue = {}
      /\ channels = << >> /\ started = << >> /\ Range(channels) = {}
    BY DEF ProcessInit, Init, Range
<1>3. ProcessTypeOK
  <2>1. channels \in Seq(Channel) /\ started \in Seq(Channel) /\ todo \in Seq(Static)
    BY DEF ProcessInit
  <2>2. /\ held = {} /\ refs = {} /\ initialised = {}
        /\ dispatcher = FALSE /\ stops = FALSE
        /\ sessions = {} /\ trusted = {} /\ received = {} /\ hand = {} /\ ignored = {}
    BY DEF ProcessInit
  <2> QED
    BY <1>1, <1>2, <2>1, <2>2 DEF ProcessTypeOK
<1>4. Construction /\ Started /\ Stopping /\ Waiting
    BY <1>2 DEF Construction, Started, Stopping, Waiting, Manager, Ended, Sudden
<1> QED
    BY <1>3, <1>4 DEF Life

(* Every step of the process preserves what is known of its life. *)
LEMMA ProcessNextLife ==
    Life /\ Inductive /\ [ProcessNext]_processVars => Life'
<1> SUFFICES ASSUME Life, Inductive, [ProcessNext]_processVars PROVE Life'
    OBVIOUS
<1>1. TypeOK'
    BY DispatcherStep
<1>2. CASE UNCHANGED processVars
    BY <1>1, <1>2 DEF processVars, life, frame, clients, kafka, Life, ProcessTypeOK, Construction,
       Started, Stopping, Waiting, Range
<1>3. CASE ProcessNext
    BY <1>1, <1>3, MakeLife, AddLife, LoopLife, WorkLife, SuddenLife, LeaveLife,
       ExitLife, EndLife
       DEF ProcessNext, Startup, Serve, Exiting
<1> QED
    BY <1>2, <1>3

(* The life of the process: how far the construction has come, what exit   *)
(* has to give back, and where messages may wait.                          *)
THEOREM LifeInvariant == ProcessSpec => []Life
<1>1. ProcessSpec => []Inductive
    BY RunsDispatcher, InductiveInvariant, PTL
<1> QED
    BY <1>1, ProcessInitLife, ProcessNextLife, PTL DEF ProcessSpec

(* Types of main's and librdkafka's state together. *)
THEOREM ProcessTypes == ProcessSpec => []ProcessTypeOK
<1>1. Life => ProcessTypeOK
    BY DEF Life
<1> QED
    BY <1>1, LifeInvariant, PTL

(* Headers are freed once in the whole process, a failed start-up and a    *)
(* crash included (easn_kafka_dispatcher.h:26-56).                         *)
THEOREM ProcessHeaders == ProcessSpec => []HeadersOwned
BY RunsDispatcher, HeadersCorrect, PTL

(* The process gets CAPACITY packets to the producer in its whole life,    *)
(* and every packet after them is refused (easn_kafka_dispatcher.h:45).    *)
THEOREM ProcessCapacity == ProcessSpec => []TakesCapacity
BY RunsDispatcher, CapacityCorrect, PTL

(* Nobody is served before the dispatcher is there and the channels that   *)
(* were started have been initialised: get_dispatcher() never throws       *)
(* (easn_dispatcher_manager.cpp:29).                                       *)
THEOREM ReadyCorrect == ProcessSpec => []Ready
<1>1. ASSUME Life PROVE Ready
  <2>1. Range(started) \subseteq Range(channels)
    BY <1>1 DEF Life, ProcessTypeOK, Started, Range
  <2> QED
    BY <1>1, <2>1 DEF Ready, Serving, Life, Construction, Started, Manager
<1> QED
    BY <1>1, LifeInvariant, PTL

(* An exit() that comes to its end after SIGINT has given back all that    *)
(* main holds but the reference to the consumer's queue, in whatever order *)
(* the static objects go (wf_co_event.cpp:58-62,                           *)
(* easn_dispatch_channel.cpp:45-71).                                       *)
THEOREM StopCorrect == ProcessSpec => []StopReleases
<1>1. ASSUME Life, at = "exited", cause = "SIGINT" PROVE held = {"queue_t"}
  <2>1. todo = << >> /\ Range(todo) = {}
    BY <1>1 DEF Life, Waiting, Range
  <2> QED
    BY <1>1, <2>1 DEF Life, Stopping, Owned
<1>2. Life => StopReleases
    BY <1>1 DEF StopReleases
<1> QED
    BY <1>2, LifeInvariant, PTL

-----------------------------------------------------------------------------
(* Where the packets are: those received and neither ignored nor in hand   *)
(* were produced; the INIT of a trusted session was, and so was no report  *)
(* of another.                                                             *)
Produced == {m \in Msg : headers[m] # "unmade"}

Packets ==
    /\ received \subseteq ignored \cup hand \cup Produced
    /\ \A p, q \in hand : p = q
    /\ \A c \in trusted : \E q \in Produced : Type[q] = "INIT" /\ Of[q] = c
    /\ \A p \in Produced : Type[p] = "INIT" \/ Of[p] \in trusted

(* Nothing that was produced becomes unmade again. *)
LEMMA ProducedStep ==
    ASSUME Inductive, Library \/ Shutdown \/ Create \/ UNCHANGED headers
    PROVE  Produced' = Produced
BY DEF Inductive, TypeOK, HeadersOwned, Library, Deliver, GiveUp, Shutdown, Stop, FlushDone, FlushTimeout,
       Purged, TakeReport, Create, Produced

(* The callback's steps. *)
LEMMA ServePackets ==
    ASSUME Packets, ProcessTypeOK, NEW p \in Msg, Serve(p)
    PROVE  Packets'
<1> USE DEF Packets, ProcessTypeOK
<1>1. CASE Acknowledge(p)
  <2>1. /\ received' = received \cup {p} /\ hand' = {p} /\ hand = {}
        /\ UNCHANGED <<ignored, trusted>> /\ Produced' = Produced
    BY <1>1 DEF Acknowledge, Arrived, kafka, Produced
  <2> QED
    BY <2>1
<1>2. CASE BrokenPipe(p) \/ NoTypeString(p)
  <2>1. UNCHANGED <<received, hand, ignored, trusted>> /\ Produced' = Produced
    BY <1>2 DEF BrokenPipe, NoTypeString, life, clients, kafka, Produced
  <2> QED
    BY <2>1
<1>3. CASE Ignore(p)
  <2>1. /\ p \in hand /\ hand' = {} /\ ignored' = ignored \cup {p}
        /\ UNCHANGED <<received, trusted>> /\ Produced' = Produced
    BY <1>3 DEF Ignore, kafka, Produced
  <2> QED
    BY <2>1
<1>4. CASE Dispatch(p)
  <2>1. /\ p \in hand /\ Passes(p) /\ hand' = {} /\ UNCHANGED <<received, ignored>>
        /\ trusted' = trusted \cup IF Type[p] = "INIT" THEN {Of[p]} ELSE {}
    BY <1>4 DEF Dispatch
  <2>2. Produced' = Produced \cup {p}
    BY <1>4 DEF Dispatch, Produce, ProduceRefused, Destroyed, Produced, TypeOK
  <2> HIDE DEF Produced
  <2>3. received' \subseteq ignored' \cup hand' \cup Produced'
    BY <2>1, <2>2
  <2>4. ASSUME NEW c \in trusted'
        PROVE  \E q \in Produced' : Type[q] = "INIT" /\ Of[q] = c
    BY <2>1, <2>2, <2>4
  <2>5. ASSUME NEW q \in Produced' PROVE Type[q] = "INIT" \/ Of[q] \in trusted'
    BY <2>1, <2>2, <2>5 DEF Passes
  <2> QED
    BY <2>1, <2>3, <2>4, <2>5
<1> QED
    BY <1>1, <1>2, <1>3, <1>4 DEF Serve

(* Nobody else touches a packet before it is produced. *)
LEMMA OtherPackets ==
    ASSUME Packets, Inductive, [ProcessNext]_processVars,
           ~ \E p \in Msg : Serve(p)
    PROVE  Packets'
<1>1. UNCHANGED <<trusted, received, hand, ignored>>
    BY DEF ProcessNext, processVars, life, clients, Startup, NewHandle, NewTopic,
       AddDispatcher, Subscribe, NewPipe, NewSocket, AddKafka, AddServer,
       AddChannel, StartupFails, SetHandler, StartChannel, EnterLoop,
       NewSession, ParserFault, Background, Interrupt, Kill, Exiting,
       FlushDispatcher, KeepDispatcher, DestroyChannels, DestroySessions,
       Finish, Report, EndFlush
<1>2. Library \/ Shutdown \/ Create \/ UNCHANGED headers
    BY DEF ProcessNext, processVars, kafka, Startup, NewHandle, NewTopic,
       AddDispatcher, Subscribe, NewPipe, NewSocket, AddKafka, AddServer,
       AddChannel, StartupFails, SetHandler, StartChannel, EnterLoop,
       NewSession, ParserFault, Background, Interrupt, Kill, Exiting,
       FlushDispatcher, KeepDispatcher, DestroyChannels, DestroySessions,
       Finish, Report, EndFlush, Shutdown
<1>3. Produced' = Produced
    BY <1>2, ProducedStep
<1> QED
    BY <1>1, <1>3 DEF Packets

(* Where the packets are, in every state. *)
THEOREM PacketInvariant == ProcessSpec => []Packets
<1>1. ProcessInit => Packets
    BY DEF ProcessInit, Init, Packets, Produced
<1>2. Packets /\ Life /\ Inductive /\ [ProcessNext]_processVars => Packets'
    BY ServePackets, OtherPackets DEF Life
<1> QED
    BY <1>1, <1>2, LifeInvariant, RunsDispatcher, InductiveInvariant, PTL DEF ProcessSpec

(* However the process ends, an acknowledged packet that the broker does   *)
(* not have was dropped by the gate, refused, given up or lost in the      *)
(* flush, or the end caught it before produce() or in a queue that nobody  *)
(* flushes (easn_server_channel.cpp:242-246, easn_kafka_dispatcher.cpp:26).*)
THEOREM ForgottenCorrect == ProcessSpec => []NothingForgotten
<1>1. ASSUME Life, Packets, Inductive
      PROVE  received \ delivered \subseteq
                 ignored \cup refused \cup failed \cup lost \cup hand \cup queue
    BY <1>1 DEF Packets, Produced, Inductive, Accounted
<1>2. ASSUME Life, at \in Ended, ~Unflushed PROVE queue = {}
  <2>1. (cause \notin Sudden /\ at # "killed") \/ queue = {}
    BY <1>2 DEF Life, Waiting, Unflushed, Sudden
  <2>2. at = "exited" => "dispatcher_manager" \notin Range(todo)
    BY <1>2 DEF Life, Waiting, Range
  <2> QED
    BY <1>2, <2>1, <2>2 DEF Life, Waiting, Unflushed, Ended
<1>3. Life /\ Packets /\ Inductive => NothingForgotten
    BY <1>1, <1>2 DEF NothingForgotten
<1> QED
    BY <1>3, LifeInvariant, PacketInvariant, RunsDispatcher, InductiveInvariant, PTL

(* What the broker gets of a session comes after the session's INIT was    *)
(* given to the producer (easn_server_channel.cpp:172-181).                *)
THEOREM IntroducedCorrect == ProcessSpec => []Introduced
<1>1. ASSUME Packets, Inductive, NEW p \in queue \cup delivered
      PROVE  \E q \in Given : Type[q] = "INIT" /\ Of[q] = Of[p]
  <2>1. p \in Produced
    BY <1>1 DEF Inductive, TypeOK, Accounted, Produced
  <2>2. \E q \in Produced : Type[q] = "INIT" /\ Of[q] = Of[p]
    BY <1>1, <2>1 DEF Packets
  <2> QED
    BY <1>1, <2>2 DEF Produced, Given, Accepted, Inductive, Accounted
<1>2. Packets /\ Inductive => Introduced
    BY <1>1 DEF Introduced
<1> QED
    BY <1>2, PacketInvariant, RunsDispatcher, InductiveInvariant, PTL
=============================================================================
