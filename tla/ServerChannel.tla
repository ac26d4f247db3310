---------------------------- MODULE ServerChannel ----------------------------
(***************************************************************************)
(* The TCP side of the gateway: easn::server_channel.  One acceptor        *)
(* coroutine hands accepted descriptors to a fixed stack of reader         *)
(* coroutines; each reader serves one connection at a time, closes it when *)
(* the client has not authenticated in time, and goes back on the stack.   *)
(*                                                                         *)
(* The coroutines are scheduled cooperatively by libco: exactly one of the *)
(* event loop, the acceptor and the readers runs at a time, and it gives   *)
(* the processor up only in co_poll, co_yield_ct and co_resume.  Clients   *)
(* and the kernel act at any moment.                                       *)
(*                                                                         *)
(* What one read() yields is abstracted to the sequence of packets the     *)
(* parser hands to the callback (module PacketParser computes it): a       *)
(* "chunk".  The chunk << >> is a read that is too short, has no header or *)
(* fails its CRC.                                                          *)
(***************************************************************************)
EXTENDS Integers, Sequences, FiniteSets

CONSTANTS
    MAX_ACCEPT_COUNT,   \* number of reader coroutines
    TIMEOUT,            \* seconds a client has to authenticate
    TICKS,              \* clock ticks in a second (time(NULL) drops the tick)
    Conn, NoConn,       \* clients' connection attempts
    Fd,                 \* descriptors the process may still open
    Type, TYPE_INIT,    \* packet types
    Chunk,              \* what one read() can yield
    MaxSends,           \* bound: chunks a client sends
    LastArrival         \* bound: second after which nobody connects

ASSUME CountAssumption == MAX_ACCEPT_COUNT \in Nat
ASSUME TimeAssumption  == TIMEOUT \in Nat \ {0} /\ TICKS \in Nat \ {0}
ASSUME ConnAssumption  == NoConn \notin Conn
ASSUME FdAssumption    == Fd \subseteq Nat
ASSUME ChunkAssumption == TYPE_INIT \in Type /\ Chunk \subseteq Seq(Type)
ASSUME BoundAssumption == MaxSends \in Nat /\ LastArrival \in Nat

VARIABLES
    sec, tick,          \* the clock
    backlog,            \* connections the kernel holds for accept()
    fdtab,              \* open descriptors
    peer,               \* what the client did: new, up, fin or rst
    inbox, sent,        \* chunks in each socket's buffer; chunks sent so far
    m_tasks,            \* server_channel::m_tasks, top at the end
    task_fd,            \* task_t::fd
    pc, running,        \* where each reader stands; who has the processor
    resumer,            \* who gets the processor back when it yields
    fd, session, accept_timestamp, deadline,  \* locals of server_read_write
    packets,            \* what handle_packet still has to hand to the callback
    connections,        \* client_manager::connections
    sid, auth,          \* fields of each connection's session object
    received, dispatched \* history: packets seen by, and passed on by, callback

clock   == <<sec, tick>>
network == <<backlog, fdtab, peer, inbox, sent>>
pool    == <<m_tasks, task_fd>>
locals  == <<fd, session, accept_timestamp, deadline>>
objects == <<connections, sid, auth>>
history == <<received, dispatched>>

vars == <<sec, tick, backlog, fdtab, peer, inbox, sent, m_tasks, task_fd, pc,
          running, resumer, fd, session, accept_timestamp, deadline, packets,
          connections, sid, auth, received, dispatched>>

Task      == 1 .. MAX_ACCEPT_COUNT
EventLoop == 0
Acceptor  == -1
NoFd      == -1
Never     == <<-1, 0>>
Clock     == Nat \X (0 .. TICKS - 1)

-----------------------------------------------------------------------------
(* Faults: what a slip in the code would make of the helpers below.  The   *)
(* specification does not use them; the mutants of PROJECT.json do.        *)

OneTaskTooMany      == [i \in 1 .. MAX_ACCEPT_COUNT + 1 |-> i]
PopForgotten        == m_tasks
PushedTwice(t)      == m_tasks \o <<t, t>>
FullWithOneLeft     == Len(m_tasks) <= 1
CloseForgotten(t)   == fdtab
TimeLeftShort(t)    == TIMEOUT - 1 - (sec - accept_timestamp[t])
TimeLeftRestarts(t) == TIMEOUT
NoDeadline(t)       == Never
InputOnly(t)        == fdtab[fd[t]] \in Conn /\ inbox[fdtab[fd[t]]] # << >>
HangupOnly(t)       == fdtab[fd[t]] \in Conn /\ peer[fdtab[fd[t]]] # "up"
PassesAll(c, type)  == TRUE

-----------------------------------------------------------------------------
(* Helpers.                                                                *)

FreeFd    == {f \in Fd : fdtab[f] = NoConn}
IsOpen(c) == \E f \in Fd : fdtab[f] = c
Waiting   == {backlog[i] : i \in 1 .. Len(backlog)}

(* The kernel hands out the lowest free descriptor. *)
IsLowest(f) == f \in FreeFd /\ \A g \in FreeFd : f <= g

(* The stack init() builds; its top; what pop() leaves; push(task). *)
AllTasks  == [i \in Task |-> i]
Top       == m_tasks[Len(m_tasks)]
Popped    == SubSeq(m_tasks, 1, Len(m_tasks) - 1)
Pushed(t) == Append(m_tasks, t)
PoolFull  == m_tasks = << >>

(* close(fd) *)
Closed(t) == [fdtab EXCEPT ![fd[t]] = NoConn]

(* TIMEOUT - (current_timestamp - accept_timestamp), in seconds. *)
TimeLeft(t) == TIMEOUT - (sec - accept_timestamp[t])

(* When the co_poll that t is about to call has to return. *)
Deadline(t) == IF auth[session[t]] THEN Never ELSE <<sec + TimeLeft(t), tick>>

(* The timer co_poll armed for t has fired. *)
Due(t) == /\ pc[t] = "poll"
          /\ deadline[t] # Never
          /\ \/ deadline[t][1] < sec
             \/ deadline[t][1] = sec /\ deadline[t][2] <= tick

(* The descriptor t polls has input, an end of file or an error. *)
Readable(t) == LET c == fdtab[fd[t]] IN
               c \in Conn /\ (inbox[c] # << >> \/ peer[c] \in {"fin", "rst"})

(* A packet of this type is passed on for session c. *)
Passes(c, type) == type = TYPE_INIT \/ auth[c]

(* client_manager::new_connection inserts (sid, conn): std::map::insert    *)
(* leaves an entry that has the key already.                               *)
Inserted(s, c) == [r \in DOMAIN connections \cup {s} |->
                      IF r \in DOMAIN connections THEN connections[r] ELSE c]

-----------------------------------------------------------------------------
(* After init(), which runs every reader up to its first co_yield_ct, and  *)
(* start(), which has just resumed the acceptor.                           *)
Init ==
    /\ sec = 0 /\ tick = 0
    /\ backlog = << >>
    /\ fdtab = [f \in Fd |-> NoConn]
    /\ peer  = [c \in Conn |-> "new"]
    /\ inbox = [c \in Conn |-> << >>]
    /\ sent  = [c \in Conn |-> 0]
    /\ m_tasks = AllTasks
    /\ task_fd = [t \in Task |-> NoFd]
    /\ pc = [t \in Task |-> "yield"]
    /\ running = Acceptor /\ resumer = EventLoop
    /\ fd = [t \in Task |-> NoFd]
    /\ session = [t \in Task |-> NoConn]
    /\ accept_timestamp = [t \in Task |-> 0]
    /\ deadline = [t \in Task |-> Never]
    /\ packets = << >>
    /\ connections = [s \in {} |-> NoConn]
    /\ sid  = [c \in Conn |-> Never]
    /\ auth = [c \in Conn |-> FALSE]
    /\ received   = [c \in Conn |-> << >>]
    /\ dispatched = [c \in Conn |-> << >>]

-----------------------------------------------------------------------------
(* The clients and the kernel.                                             *)

Connect(c) ==
    /\ peer[c] = "new" /\ sec < LastArrival
    /\ peer' = [peer EXCEPT ![c] = "up"]
    /\ backlog' = Append(backlog, c)
    /\ UNCHANGED <<clock, fdtab, inbox, sent, pool, pc, running, resumer,
                   locals, packets, objects, history>>

Send(c, chunk) ==
    /\ peer[c] = "up" /\ sent[c] < MaxSends
    /\ c \in Waiting \/ IsOpen(c)
    /\ inbox' = [inbox EXCEPT ![c] = Append(@, chunk)]
    /\ sent'  = [sent EXCEPT ![c] = @ + 1]
    /\ UNCHANGED <<clock, backlog, fdtab, peer, pool, pc, running, resumer,
                   locals, packets, objects, history>>

(* The client closes (fin) or resets (rst) its end. *)
Hangup(c, how) ==
    /\ peer[c] = "up"
    /\ peer' = [peer EXCEPT ![c] = how]
    /\ UNCHANGED <<clock, backlog, fdtab, inbox, sent, pool, pc, running,
                   resumer, locals, packets, objects, history>>

(* The clock moves on.  The loop runs due timers before it goes back to    *)
(* epoll_wait, and a coroutine is through in no time.                      *)
Tick ==
    /\ running = EventLoop
    /\ \A t \in Task : ~Due(t)
    /\ sec < LastArrival \/ \E t \in Task : deadline[t] # Never
    /\ IF tick + 1 < TICKS
       THEN tick' = tick + 1 /\ sec' = sec
       ELSE tick' = 0 /\ sec' = sec + 1
    /\ UNCHANGED <<network, pool, pc, running, resumer, locals, packets,
                   objects, history>>

-----------------------------------------------------------------------------
(* server_accept.                                                          *)

(* The listening socket polls readable. *)
AcceptWake ==
    /\ running = EventLoop /\ backlog # << >>
    /\ running' = Acceptor
    /\ UNCHANGED <<clock, network, pool, pc, resumer, locals, packets,
                   objects, history>>

(* accept() fails, for want of a connection or of a descriptor: co_poll. *)
AcceptFail ==
    /\ running = Acceptor
    /\ backlog = << >> \/ FreeFd = {}
    /\ running' = EventLoop
    /\ UNCHANGED <<clock, network, pool, pc, resumer, locals, packets,
                   objects, history>>

(* No idle reader: the connection is accepted and closed at once. *)
AcceptRefuse ==
    /\ running = Acceptor
    /\ backlog # << >> /\ FreeFd # {}
    /\ PoolFull
    /\ inbox' = [inbox EXCEPT ![Head(backlog)] = << >>]
    /\ backlog' = Tail(backlog)
    /\ UNCHANGED <<clock, fdtab, peer, sent, pool, pc, running, resumer,
                   locals, packets, objects, history>>

(* The reader on top of the stack gets the descriptor and the processor. *)
Accept(f) ==
    /\ running = Acceptor
    /\ backlog # << >> /\ IsLowest(f)
    /\ ~PoolFull
    /\ fdtab' = [fdtab EXCEPT ![f] = Head(backlog)]
    /\ backlog' = Tail(backlog)
    /\ task_fd' = [task_fd EXCEPT ![Top] = f]
    /\ m_tasks' = Popped
    /\ pc' = [pc EXCEPT ![Top] = "begin"]
    /\ running' = Top /\ resumer' = Acceptor
    /\ UNCHANGED <<clock, peer, inbox, sent, locals, packets, objects, history>>

-----------------------------------------------------------------------------
(* server_read_write, the coroutine of reader t.                           *)

At(t, where) == running = t /\ pc[t] = where

Goto(t, where) == /\ pc' = [pc EXCEPT ![t] = where]
                  /\ UNCHANGED <<running, resumer>>

(* close(fd); break: the kernel drops what the socket still buffered. *)
Close(t) ==
    /\ Goto(t, "release")
    /\ fdtab' = Closed(t)
    /\ inbox' = [inbox EXCEPT ![fdtab[fd[t]]] = << >>]
    /\ UNCHANGED <<clock, backlog, peer, sent, pool, locals, packets, objects,
                   history>>

(* A descriptor has arrived: start the clock, create the session. *)
Begin(t) ==
    /\ At(t, "begin")
    /\ fd' = [fd EXCEPT ![t] = task_fd[t]]
    /\ accept_timestamp' = [accept_timestamp EXCEPT ![t] = sec]
    /\ LET c == fdtab[task_fd[t]] IN
       /\ session' = [session EXCEPT ![t] = c]
       /\ sid'  = [sid EXCEPT ![c] = clock]
       /\ auth' = [auth EXCEPT ![c] = FALSE]
       /\ connections' = Inserted(clock, c)
    /\ Goto(t, "top")
    /\ UNCHANGED <<clock, network, pool, deadline, packets, history>>

(* Top of the inner loop: no time left. *)
Expire(t) ==
    /\ At(t, "top")
    /\ ~auth[session[t]] /\ TimeLeft(t) <= 0
    /\ Close(t)

(* Top of the inner loop: co_poll until input or the deadline. *)
Await(t) ==
    /\ At(t, "top")
    /\ auth[session[t]] \/ TimeLeft(t) > 0
    /\ deadline' = [deadline EXCEPT ![t] = Deadline(t)]
    /\ pc' = [pc EXCEPT ![t] = "poll"]
    /\ running' = resumer /\ resumer' = EventLoop
    /\ UNCHANGED <<clock, network, pool, fd, session, accept_timestamp,
                   packets, objects, history>>

Parked(t) == running = EventLoop /\ pc[t] = "poll"

Resume(t) ==
    /\ pc' = [pc EXCEPT ![t] = "read"]
    /\ deadline' = [deadline EXCEPT ![t] = Never]
    /\ running' = t
    /\ UNCHANGED <<clock, network, pool, resumer, fd, session,
                   accept_timestamp, packets, objects, history>>

(* co_poll returns: an event on the descriptor, or the timer. *)
Wake(t) == Parked(t) /\ (Readable(t) \/ Due(t)) /\ Resume(t)

(* libco turns the timeout -1 into INT_MAX milliseconds. *)
LongPollEnds(t) ==
    Parked(t) /\ deadline[t] = Never /\ ~Readable(t) /\ Resume(t)

(* read() > 0: the parser runs over what was read. *)
Read(t) ==
    /\ At(t, "read")
    /\ LET c == fdtab[fd[t]] IN
       /\ inbox[c] # << >>
       /\ packets' = Head(inbox[c])
       /\ inbox' = [inbox EXCEPT ![c] = Tail(@)]
    /\ Goto(t, "packet")
    /\ UNCHANGED <<clock, backlog, fdtab, peer, sent, pool, locals, objects,
                   history>>

(* The callback, on one packet. *)
Callback(t) ==
    /\ At(t, "packet") /\ packets # << >>
    /\ LET c == session[t]
           type == Head(packets)
       IN /\ received' = [received EXCEPT ![c] = Append(@, type)]
          /\ dispatched' = [dispatched EXCEPT ![c] =
                 IF Passes(c, type) THEN Append(@, type) ELSE @]
          /\ auth' = [auth EXCEPT ![c] = @ \/ type = TYPE_INIT]
    /\ packets' = Tail(packets)
    /\ UNCHANGED <<clock, network, pool, pc, running, resumer, locals,
                   connections, sid>>

(* handle_packet has returned: round the inner loop. *)
HandlerDone(t) ==
    /\ At(t, "packet") /\ packets = << >>
    /\ Goto(t, "top")
    /\ UNCHANGED <<clock, network, pool, locals, packets, objects, history>>

(* read() = 0, or an error other than EAGAIN. *)
ReadEnd(t) ==
    /\ At(t, "read")
    /\ \/ peer[fdtab[fd[t]]] = "fin" /\ inbox[fdtab[fd[t]]] = << >>
       \/ peer[fdtab[fd[t]]] = "rst"
    /\ Close(t)

(* EAGAIN: nothing to read.  Only an authenticated client may go on. *)
NothingRead(t) ==
    /\ At(t, "read")
    /\ inbox[fdtab[fd[t]]] = << >> /\ peer[fdtab[fd[t]]] = "up"

ReadAgain(t) ==
    /\ NothingRead(t) /\ auth[session[t]]
    /\ Goto(t, "top")
    /\ UNCHANGED <<clock, network, pool, locals, packets, objects, history>>

ReadTimeout(t) ==
    /\ NothingRead(t) /\ ~auth[session[t]]
    /\ Close(t)

(* Back on the stack, round the outer loop and into co_yield_ct; the       *)
(* variables of the loop's body go out of scope.                           *)
Release(t) ==
    /\ At(t, "release")
    /\ task_fd' = [task_fd EXCEPT ![t] = NoFd]
    /\ m_tasks' = Pushed(t)
    /\ pc' = [pc EXCEPT ![t] = "yield"]
    /\ running' = resumer /\ resumer' = EventLoop
    /\ fd' = [fd EXCEPT ![t] = NoFd]
    /\ session' = [session EXCEPT ![t] = NoConn]
    /\ accept_timestamp' = [accept_timestamp EXCEPT ![t] = 0]
    /\ deadline' = [deadline EXCEPT ![t] = Never]
    /\ UNCHANGED <<clock, network, packets, objects, history>>

(* A pass of co_eventloop that finds nothing to do. *)
IdleLoop == running = EventLoop /\ UNCHANGED vars

-----------------------------------------------------------------------------
Environment ==
    \/ \E c \in Conn : \/ Connect(c)
                       \/ \E chunk \in Chunk : Send(c, chunk)
                       \/ \E how \in {"fin", "rst"} : Hangup(c, how)
    \/ Tick

Accepting == AcceptWake \/ AcceptFail \/ AcceptRefuse \/ \E f \in Fd : Accept(f)

Reader(t) ==
    \/ Begin(t) \/ Expire(t) \/ Await(t)
    \/ Read(t) \/ Callback(t) \/ HandlerDone(t)
    \/ ReadEnd(t) \/ ReadAgain(t) \/ ReadTimeout(t) \/ Release(t)

Next ==
    \/ Environment
    \/ Accepting
    \/ \E t \in Task : Reader(t) \/ Wake(t) \/ LongPollEnds(t)
    \/ IdleLoop

Spec == Init /\ [][Next]_vars

(* A coroutine that has the processor runs on (weak fairness).  Each pass  *)
(* of co_eventloop resumes every coroutine whose event or timer is there,  *)
(* and time passes: each of these is taken if it keeps being possible,     *)
(* though other coroutines run in between (strong fairness).               *)
Fairness ==
    /\ WF_vars(AcceptFail \/ AcceptRefuse \/ \E f \in Fd : Accept(f))
    /\ WF_vars(\E t \in Task : Reader(t))
    /\ SF_vars(AcceptWake)
    /\ \A t \in Task : SF_vars(Wake(t))
    /\ SF_vars(Tick)

FairSpec == Spec /\ Fairness

-----------------------------------------------------------------------------
(* Properties.                                                             *)

TypeOK ==
    /\ sec \in Nat /\ tick \in 0 .. TICKS - 1
    /\ backlog \in Seq(Conn)
    /\ fdtab \in [Fd -> Conn \cup {NoConn}]
    /\ peer \in [Conn -> {"new", "up", "fin", "rst"}]
    /\ inbox \in [Conn -> Seq(Chunk)]
    /\ sent \in [Conn -> 0 .. MaxSends]
    /\ m_tasks \in Seq(Task)
    /\ task_fd \in [Task -> Fd \cup {NoFd}]
    /\ pc \in [Task -> {"yield", "begin", "top", "poll", "read", "packet",
                        "release"}]
    /\ running \in {EventLoop, Acceptor} \cup Task
    /\ resumer \in {EventLoop, Acceptor}
    /\ fd \in [Task -> Fd \cup {NoFd}]
    /\ session \in [Task -> Conn \cup {NoConn}]
    /\ accept_timestamp \in [Task -> Nat]
    /\ deadline \in [Task -> Clock \cup {Never}]
    /\ packets \in Seq(Type)
    /\ DOMAIN connections \subseteq Clock
    /\ connections \in [DOMAIN connections -> Conn]
    /\ sid \in [Conn -> Clock \cup {Never}]
    /\ auth \in [Conn -> BOOLEAN]
    /\ received \in [Conn -> Seq(Type)]
    /\ dispatched \in [Conn -> Seq(Type)]

Pooled(t) == \E i \in 1 .. Len(m_tasks) : m_tasks[i] = t

(* The reader works on a connection: between Begin and close(). *)
Serving(t) == pc[t] \in {"top", "poll", "read", "packet"}

(* The idle stack of easn_server_channel.cpp:112-114 and 209-210: no       *)
(* reader is on it twice, and a reader is on it exactly when it holds no   *)
(* descriptor, so no connection is handed to a busy reader and no reader   *)
(* is lost.                                                                *)
PoolPartition ==
    /\ \A i, j \in 1 .. Len(m_tasks) : m_tasks[i] = m_tasks[j] => i = j
    /\ \A t \in Task : Pooled(t) <=> task_fd[t] = NoFd

(* Descriptors are owned: two readers never hold the same one, every open  *)
(* one belongs to a reader (none leaks past close() or a refusal), and a   *)
(* reader's descriptor stays the connection its session was made for.      *)
DescriptorOwnership ==
    /\ \A t, u \in Task : task_fd[t] = task_fd[u] /\ t # u => task_fd[t] = NoFd
    /\ \A f \in Fd : fdtab[f] # NoConn => \E t \in Task : task_fd[t] = f
    /\ \A t \in Task : Serving(t) => /\ session[t] \in Conn
                                     /\ fdtab[fd[t]] = session[t]

(* The gate of the callback (lines 172-181): what is dispatched for a      *)
(* session is all it received from its first TYPE_INIT on, in order and    *)
(* once, and nothing before; auth says whether that has begun.             *)
GateExact ==
    \A c \in Conn :
        /\ auth[c] <=> dispatched[c] # << >>
        /\ \E k \in 0 .. Len(received[c]) :
              /\ dispatched[c] = SubSeq(received[c], k + 1, Len(received[c]))
              /\ \A i \in 1 .. k : received[c][i] # TYPE_INIT
              /\ k < Len(received[c]) => received[c][k + 1] = TYPE_INIT

(* However often it sends, a client that has not authenticated is          *)
(* connected no longer than into the second TIMEOUT after its accept: the  *)
(* deadline is recomputed at every turn of the loop (lines 141-154), and   *)
(* never moves away.                                                       *)
AuthWindow ==
    \A t \in Task : Serving(t) /\ ~auth[session[t]] =>
        sec <= sid[session[t]][1] + TIMEOUT

(* The figure server_channel::debug() prints is the number of open         *)
(* connections whenever the event loop can run the coroutine that prints.  *)
DebugCount ==
    running = EventLoop =>
        MAX_ACCEPT_COUNT - Len(m_tasks) = Cardinality({c \in Conn : IsOpen(c)})

(* The client is still there, or has closed with input still to be read. *)
Alive(c) == \/ peer[c] = "up"
            \/ peer[c] = "fin" /\ inbox[c] # << >>

(* The server closes the connection of a client that is alive only when    *)
(* the client has not authenticated and its TIMEOUT seconds are over:      *)
(* EAGAIN (lines 193-200) is never mistaken for a timeout.                 *)
ClosedForCause ==
    [][\A c \in Conn : IsOpen(c) /\ ~IsOpen(c)' /\ Alive(c) =>
          ~auth[c] /\ sec - sid[c][1] >= TIMEOUT]_vars

(* No connection stays in the listen queue for ever, though accept() fails *)
(* while descriptors are short (lines 88-97), unless clients that have     *)
(* authenticated keep all of them for ever.                                *)
Hogged   == \A f \in Fd : fdtab[f] # NoConn /\ auth[fdtab[f]]
Answered == \A c \in Conn : c \in Waiting ~> (c \notin Waiting \/ []Hogged)

(* Every connection is authenticated or closed in the end. *)
AuthOrClosed == \A c \in Conn : IsOpen(c) ~> auth[c] \/ ~IsOpen(c)

(* A client that hung up gives its reader and its descriptor back. *)
GoneReleased ==
    \A c \in Conn : IsOpen(c) /\ peer[c] \in {"fin", "rst"} ~> ~IsOpen(c)

(* No reader sleeps on input: all of it is read, or dropped with the       *)
(* connection.                                                             *)
InputRead == \A c \in Conn : IsOpen(c) /\ inbox[c] # << >> ~> inbox[c] = << >>

(* client_manager::get_connection finds the session a sid was given to     *)
(* ("the connection that belongs to a sid", easn_client_manager.h:28).     *)
SidResolves == \A c \in Conn : sid[c] # Never => connections[sid[c]] = c
=============================================================================
