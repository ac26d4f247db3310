-------------------------------- MODULE Process --------------------------------
(***************************************************************************)
(* The life of the gateway's process, and of the packets in it: main       *)
(* builds the dispatcher and the two channels and runs the event loop; any *)
(* step of the construction may fail and call exit(-1); SIGINT calls       *)
(* exit(0) in the loop.  exit() runs the destructors of the static         *)
(* objects, and nothing else: what the frames it leaves behind still refer *)
(* to is not destroyed.  Packets are acknowledged, pass the gate or not,   *)
(* and are produced.                                                       *)
(*                                                                         *)
(* Composed with KafkaDispatcher: librdkafka goes on while main exits.     *)
(***************************************************************************)
EXTENDS KafkaDispatcher, Sequences, Functions

CONSTANTS
    Session,      \* sessions of clients
    Of,           \* Of[m]: the session whose packet m is
    Type          \* Type[m]: what the packet declares itself to be

Types == {"INIT", "REPORT", "other"}

ASSUME PacketAssumption == Of \in [Msg -> Session] /\ Type \in [Msg -> Types]

VARIABLES
    at,           \* where main stands, or how the process has ended
    held,         \* what the process holds of librdkafka and the kernel
    refs,         \* objects the frame of create_server refers to
    dispatcher,   \* dispatcher_manager::dispatcher is set
    channels,     \* customer_chennel_list
    initialised,  \* channels whose init() has run
    started,      \* channels whose start() has run
    stops,        \* SIGINT has the handler stop
    sessions,     \* connections of client_manager
    trusted,      \* sessions whose auth is 1
    received,     \* packets found correct, and acknowledged
    hand,         \* the one that was not handed to the callback yet, if any
    ignored,      \* packets the callback has dropped
    cause,        \* why exit() was called, or what has ended the process
    todo          \* static objects exit() has still to destroy, in order

frame == <<held, refs, dispatcher, channels, initialised, started, stops>>
clients == <<sessions, trusted, received, hand, ignored>>
life  == <<frame, clients>>
kafka == <<state, queue, reports, delivered, failed, lost, refused, headers>>
processVars == <<at, life, cause, todo, kafka>>

Channel == {"kafka", "server"}
Static  == {"wf_co_event", "dispatcher_manager", "client_manager"}
Ended   == {"exited", "killed", "crashed", "hung"}

(* Static objects are destroyed in the reverse order of their construction, *)
(* which the linker chooses.                                               *)
Order == {o \in [1 .. 3 -> Static] : \A i, j \in 1 .. 3 : o[i] = o[j] => i = j}

-----------------------------------------------------------------------------
(* Faults of the helpers below, for the mutants of PROJECT.json.           *)

FrameStays(r)     == r
HandlerForgotten  == FALSE
InitForgotten(c)  == initialised
OneForAll(p)      == Type[p] = "INIT" \/ trusted # {}

-----------------------------------------------------------------------------
(* What the destructor of a channel gives back: all but queue_t, the        *)
(* reference to the consumer's queue that the kafka channel takes.         *)
Resources(c) == IF c = "kafka" THEN {"subscription", "pipe", "consumer"} ELSE {"socket"}

(* create_server returns: its shared pointers are gone. *)
Returned(r) == {}

(* signal(SIGINT, stop) *)
Handler == TRUE

(* add_server_channel calls init(). *)
Inited(c) == initialised \cup {c}

Serving == "server" \in Range(started) /\ at \in {"start", "loop"}

(* pkt.info.type == TYPE_INIT || session->auth *)
Passes(p) == Type[p] = "INIT" \/ Of[p] \in trusted

Exit(why) ==
    /\ at' = "exit" /\ cause' = why
    /\ todo' \in Order

-----------------------------------------------------------------------------
ProcessInit ==
    /\ Init
    /\ at = "producer"
    /\ held = {} /\ refs = {} /\ initialised = {}
    /\ channels = << >> /\ started = << >>
    /\ dispatcher = FALSE /\ stops = FALSE
    /\ sessions = {} /\ trusted = {}
    /\ received = {} /\ hand = {} /\ ignored = {}
    /\ cause = "none" /\ todo = << >>

(* create_server.  wf_kafka's constructor makes the handle. *)
NewHandle ==
    /\ at \in {"producer", "consumer"}
    /\ held' = held \cup {at}
    /\ at' = IF at = "producer" THEN "topic" ELSE "subscribe"
    /\ UNCHANGED <<refs, dispatcher, channels, initialised, started, stops,
                   clients, cause, todo, kafka>>

NewTopic ==
    /\ at = "topic"
    /\ held' = held \cup {"topic"}
    /\ refs' = refs \cup {"dispatcher"}
    /\ at' = "add_dispatcher"
    /\ Create
    /\ UNCHANGED <<dispatcher, channels, initialised, started, stops, clients,
                   cause, todo>>

AddDispatcher ==
    /\ at = "add_dispatcher"
    /\ dispatcher' = TRUE
    /\ at' = "consumer"
    /\ UNCHANGED <<held, refs, channels, initialised, started, stops, clients,
                   cause, todo, kafka>>

(* The constructor of the kafka channel, up to its pipe. *)
Subscribe ==
    /\ at = "subscribe"
    /\ held' = held \cup {"subscription", "queue_t"}
    /\ at' = "pipe"
    /\ UNCHANGED <<refs, dispatcher, channels, initialised, started, stops,
                   clients, cause, todo, kafka>>

NewPipe ==
    /\ at = "pipe"
    /\ held' = held \cup {"pipe"}
    /\ refs' = refs \cup {"kafka"}
    /\ at' = "add_kafka"
    /\ UNCHANGED <<dispatcher, channels, initialised, started, stops, clients,
                   cause, todo, kafka>>

(* socket, bind, listen, non-blocking. *)
NewSocket ==
    /\ at = "socket"
    /\ held' = held \cup {"socket"}
    /\ refs' = refs \cup {"server"}
    /\ at' = "add_server"
    /\ UNCHANGED <<dispatcher, channels, initialised, started, stops, clients,
                   cause, todo, kafka>>

(* wf_co_event::add_server_channel; create_server returns after the second. *)
AddChannel(c) ==
    /\ channels' = Append(channels, c)
    /\ initialised' = Inited(c)
    /\ UNCHANGED <<held, dispatcher, started, stops, clients, cause, todo, kafka>>

AddKafka  == at = "add_kafka"  /\ at' = "socket" /\ refs' = refs /\ AddChannel("kafka")
AddServer == at = "add_server" /\ at' = "signal" /\ refs' = Returned(refs) /\ AddChannel("server")

(* A step of the construction fails, with or without something made of it. *)
Half == CASE at \in {"producer", "consumer", "socket"} -> {{}, {at}}
          [] at \in {"topic", "subscribe", "pipe"}     -> {{}}
          [] OTHER                                     -> {}

StartupFails ==
    /\ \E half \in Half : held' = held \cup half
    /\ Exit("failure")
    /\ UNCHANGED <<refs, dispatcher, channels, initialised, started, stops,
                   clients, kafka>>

-----------------------------------------------------------------------------
(* wf_co_event_loop. *)
SetHandler ==
    /\ at = "signal"
    /\ stops' = Handler
    /\ at' = "start"
    /\ UNCHANGED <<held, refs, dispatcher, channels, initialised, started,
                   clients, cause, todo, kafka>>

StartChannel ==
    /\ at = "start" /\ Len(started) < Len(channels)
    /\ started' = Append(started, channels[Len(started) + 1])
    /\ UNCHANGED <<at, held, refs, dispatcher, channels, initialised, stops,
                   clients, cause, todo, kafka>>

EnterLoop ==
    /\ at = "start" /\ started = channels
    /\ at' = "loop"
    /\ UNCHANGED <<life, cause, todo, kafka>>

(* The server channel at work, see ServerChannel: a session, and a packet  *)
(* that is acknowledged, whether or not the acknowledgement arrives.       *)
NewSession(c) ==
    /\ Serving /\ c \notin sessions
    /\ sessions' = sessions \cup {c}
    /\ UNCHANGED <<at, frame, trusted, received, hand, ignored, cause, todo, kafka>>

Arrived(p) == at = "loop" /\ hand = {} /\ Of[p] \in sessions /\ p \notin received

Acknowledge(p) ==
    /\ Arrived(p)
    /\ received' = received \cup {p}
    /\ hand' = {p}
    /\ UNCHANGED <<at, frame, sessions, trusted, ignored, cause, todo, kafka>>

(* The client has closed its end, which an earlier write has found out:    *)
(* nothing blocks or ignores SIGPIPE.                                      *)
BrokenPipe(p) ==
    /\ Arrived(p)
    /\ at' = "killed" /\ cause' = "SIGPIPE"
    /\ UNCHANGED <<life, todo, kafka>>

(* The callback: the packet is not for the dispatcher, *)
Ignore(p) ==
    /\ at = "loop" /\ p \in hand /\ ~Passes(p)
    /\ hand' = {}
    /\ ignored' = ignored \cup {p}
    /\ UNCHANGED <<at, frame, sessions, trusted, received, cause, todo, kafka>>

(* or it is dispatched, and an INIT trusted whatever became of it. *)
Dispatch(p) ==
    /\ at = "loop" /\ p \in hand /\ Passes(p)
    /\ Produce(p) \/ ProduceRefused(p)
    /\ hand' = {}
    /\ trusted' = trusted \cup IF Type[p] = "INIT" THEN {Of[p]} ELSE {}
    /\ UNCHANGED <<at, frame, sessions, received, ignored, cause, todo>>

(* type_to_string returns no string for another type: undefined, the use   *)
(* of it may end the process, or do no harm.                               *)
NoTypeString(p) ==
    /\ at = "loop" /\ p \in hand /\ Passes(p) /\ Type[p] = "other"
    /\ at' = "crashed" /\ cause' = "type"
    /\ UNCHANGED <<life, todo, kafka>>

(* What a client sends has the parser read past its stack buffer, see      *)
(* CrcFault and Overflow of PacketParser, and the kernel ends it.          *)
ParserFault ==
    /\ at = "loop" /\ sessions # {} /\ hand = {}
    /\ at' = "crashed" /\ cause' = "parser"
    /\ UNCHANGED <<life, todo, kafka>>

(* librdkafka's threads, while there is a process. *)
Background ==
    /\ at \notin Ended \ {"hung"}
    /\ Library
    /\ UNCHANGED <<at, life, cause, todo>>

(* SIGINT with the handler in place; the signal is blocked while it runs.  *)
(* It may have interrupted malloc, or a write to the stream the handler    *)
(* writes to, and then waits for a lock that its own thread holds.         *)
Interrupt ==
    /\ stops /\ at \in {"start", "loop"}
    /\ \/ Exit("SIGINT")
       \/ at' = "hung" /\ cause' = "handler" /\ UNCHANGED todo
    /\ UNCHANGED <<life, kafka>>

(* SIGINT without. *)
Kill ==
    /\ ~stops /\ at \notin Ended
    /\ at' = "killed"
    /\ UNCHANGED <<life, cause, todo, kafka>>

-----------------------------------------------------------------------------
(* exit(). *)
Turn(o) == at = "exit" /\ todo # << >> /\ Head(todo) = o /\ todo' = Tail(todo)

(* ~dispatcher_manager lets go of the dispatcher. *)
LastOwner == dispatcher /\ "dispatcher" \notin refs

FlushDispatcher ==
    /\ Turn("dispatcher_manager") /\ LastOwner
    /\ Stop
    /\ at' = "flush"
    /\ UNCHANGED <<life, cause>>

KeepDispatcher ==
    /\ Turn("dispatcher_manager") /\ ~LastOwner
    /\ UNCHANGED <<at, life, cause, kafka>>

Report ==
    /\ at = "flush"
    /\ \E m \in Msg : TakeReport(m)
    /\ UNCHANGED <<at, life, cause, todo>>

(* Rest of ~kafka_dispatcher, and ~wf_kafka. *)
EndFlush ==
    /\ at = "flush"
    /\ FlushDone \/ FlushTimeout
    /\ held' = held \ {"topic", "producer"}
    /\ at' = "exit"
    /\ UNCHANGED <<refs, dispatcher, channels, initialised, started, stops,
                   clients, cause, todo>>

(* ~wf_co_event: the list, and the channels nobody else refers to. *)
DestroyChannels ==
    /\ Turn("wf_co_event")
    /\ held' = held \ UNION {Resources(c) : c \in Range(channels) \ refs}
    /\ UNCHANGED <<at, refs, dispatcher, channels, initialised, started, stops,
                   clients, cause, kafka>>

(* ~client_manager erases the entry its iterator is on and goes on with    *)
(* the same iterator: it frees again what it has freed, and never gets to  *)
(* the end.  With a session there is a crash or an endless loop.           *)
DestroySessions ==
    /\ Turn("client_manager")
    /\ at' \in IF sessions # {} THEN {"crashed", "hung"} ELSE {"exit"}
    /\ UNCHANGED <<life, cause, kafka>>

Finish ==
    /\ at = "exit" /\ todo = << >>
    /\ at' = "exited"
    /\ UNCHANGED <<life, cause, todo, kafka>>

Exiting == FlushDispatcher \/ KeepDispatcher \/ DestroyChannels \/ DestroySessions \/ Finish

Startup ==
    \/ NewHandle \/ NewTopic \/ AddDispatcher \/ Subscribe \/ NewPipe
    \/ NewSocket \/ AddKafka \/ AddServer
    \/ SetHandler \/ StartChannel \/ EnterLoop

Serve(p) == Acknowledge(p) \/ BrokenPipe(p) \/ Ignore(p) \/ Dispatch(p) \/ NoTypeString(p)

ProcessNext ==
    \/ Startup \/ StartupFails
    \/ \E c \in Session : NewSession(c)
    \/ \E p \in Msg : Serve(p)
    \/ ParserFault
    \/ Background
    \/ Interrupt \/ Kill
    \/ Exiting \/ Report \/ EndFlush

ProcessSpec == ProcessInit /\ [][ProcessNext]_processVars

(* exit() runs on, and rd_kafka_flush returns after ten seconds.           *)
FairProcessSpec ==
    ProcessSpec /\ WF_processVars(Exiting) /\ WF_processVars(EndFlush)

-----------------------------------------------------------------------------
(* Properties.                                                             *)

ProcessTypeOK ==
    /\ TypeOK
    /\ at \in {"producer", "topic", "add_dispatcher", "consumer", "subscribe",
               "pipe", "add_kafka", "socket", "add_server", "signal", "start",
               "loop", "exit", "flush"} \cup Ended
    /\ held \subseteq {"producer", "topic", "queue_t"} \cup UNION {Resources(c) : c \in Channel}
    /\ refs \subseteq {"dispatcher"} \cup Channel
    /\ channels \in Seq(Channel) /\ started \in Seq(Channel)
    /\ initialised \subseteq Channel
    /\ dispatcher \in BOOLEAN /\ stops \in BOOLEAN
    /\ sessions \subseteq Session /\ trusted \subseteq Session
    /\ received \subseteq Msg /\ hand \subseteq received /\ ignored \subseteq received
    /\ cause \in {"none", "failure", "SIGINT", "SIGPIPE", "type", "parser", "handler"}
    /\ todo \in Seq(Static)

(* When clients can be served, everything a packet needs on its way is     *)
(* there: get_dispatcher() does not throw (easn_dispatcher_manager.cpp:29) *)
(* and finds a dispatcher that is up, and every channel has been           *)
(* initialised before it was started.                                      *)
Ready ==
    Serving => /\ dispatcher /\ state = "up"
               /\ Range(started) \subseteq initialised

(* An exit() that comes to its end after SIGINT has unsubscribed, flushed  *)
(* and closed, in whatever order the static objects go.  What it keeps is  *)
(* the reference to the consumer's queue (easn_dispatch_channel.cpp:33),   *)
(* which no destructor gives back (easn_dispatch_channel.cpp:45-71).       *)
StopReleases == at = "exited" /\ cause = "SIGINT" => held = {"queue_t"}

(* The ways to end that leave the producer's queue as it is: without       *)
(* exit(), and a crash in ~client_manager before the dispatcher's turn.    *)
Unflushed ==
    \/ cause \in {"SIGPIPE", "type", "parser", "handler"}
    \/ at \in {"crashed", "hung"} /\ "dispatcher_manager" \in Range(todo)

(* However the process ends, these are the ways for a packet whose client  *)
(* has been told SUCCESS (easn_server_channel.cpp:242) not to reach the    *)
(* broker: it did not pass the gate; rd_kafka_producev refused it, or      *)
(* librdkafka gave it up, or the ten seconds of the flush were over        *)
(* (easn_kafka_dispatcher.cpp:26), of which the program hears or notes     *)
(* nothing; the end caught it between its acknowledgement and produce()    *)
(* (easn_server_channel.cpp:242-246); or it was in a queue that is not     *)
(* flushed at all.                                                         *)
NothingForgotten ==
    at \in Ended =>
        received \ delivered \subseteq
            ignored \cup refused \cup failed \cup lost \cup hand
                \cup IF Unflushed THEN queue ELSE {}

(* What the broker gets of a session comes after the INIT of that session  *)
(* was given to the producer, which may have refused it or given it up     *)
(* (easn_server_channel.cpp:172-181).                                      *)
Given == Accepted \cup refused
Introduced ==
    \A p \in queue \cup delivered :
        \E q \in Given : Type[q] = "INIT" /\ Of[q] = Of[p]

(* exit() ends, whatever the broker does, and comes to its end unless      *)
(* ~client_manager has a session to free, or a second signal ends a failed *)
(* start.                                                                  *)
Ends ==
    at \in {"exit", "flush"} ~>
        at \in {"exited", "killed"} \/ (at \in {"crashed", "hung"} /\ sessions # {})

(* "Free the memory" (easn_client_manager.cpp:29): every session is freed  *)
(* once and the destructor returns.                                        *)
FreesSessions == cause = "SIGINT" => at \notin {"crashed", "hung"}
=============================================================================
