# CoService in TLA+

CoService is a TCP-to-Kafka gateway. Devices connect over TCP and send packets framed by `0xaa55`, a length and a CRC;
the server acknowledges each packet, waits for one of type `TYPE_INIT` before it trusts a connection, and forwards what
follows to a Kafka topic. Messages of another topic are read back (and, at this commit, only logged). Everything runs in
one thread on libco coroutines, next to librdkafka's own threads.

This directory holds TLA+ models of that program, the TLC configurations that check them on small instances, and proofs
that the TLA+ proof system (tlapm) checks for all values of the constants. Paths below are relative to the repository;
`easn/` stands for `src/core/modules/easn/`.

    tlc -config server_pool.cfg MCServerGateway    # a run; the table below pairs cfg and module
    tlapm ServerChannelProofs.tla                  # the proofs of a module

## 1. The system

| component | state | operations | talks to |
|---|---|---|---|
| `server_channel` (easn/easn_server_channel.*) | `m_tasks`, a stack of idle readers; per reader `task_t::fd` and the locals of `server_read_write` | `init`, `start`, the coroutines `server_accept` and `server_read_write`, `handle_packet`, `debug` | kernel sockets, libco, `client_manager`, `dispatch_message` |
| packet parser (`handle_packet`, easn/easn_package.*) | the read buffer, a recursion over it | `find_header_position`, `sizeof_packet`, `check_crc`, `fill_ack_packet`, callback | writes acknowledgements, calls the callback |
| `crc16` (src/core/crc16.cpp) | none | `crc16_compute`, `fill_crc`, `check_crc` | parser |
| `client_manager` (easn/easn_client_manager.*) | `connections`: sid to session (`fd`, `sid`, `auth`) | `new_connection`, `get_connection`, `remove_connection` (the last is never called) | readers |
| `dispatch_channel` (easn/easn_dispatch_channel.*) | librdkafka consumer queue, a pipe | constructor, `start`, `consume`, `handle_message` | librdkafka's threads, libco |
| `dispatcher_manager`, `kafka_dispatcher`, `dispatch_message` | librdkafka producer queue | `produce`, `do_produce`, destructor (flush) | librdkafka's threads |
| `wf_kafka` (src/core/wf_kafka.cpp) | the librdkafka handle | configuration, destruction | the two above |
| `wf_co_event` (src/event/wf_co_event.cpp) | list of channels | `add_server_channel`, `wf_co_event_loop`, a statistics coroutine, SIGINT | all channels |
| framework entry (`main`, src/wf_framework.cpp, easn/easn.cpp) | - | `create_server`, `event_loop` | constructs the others |
| log, config | constants, streams | - | - |
| `threadpool`, `wf_event`, JSON item, examples | - | not used by the program, or not built | - |

Interaction: `main` builds the producer, the consumer channel and the server channel, then runs the event loop. The
acceptor resumes a reader directly (`co_resume`); readers return to the acceptor at their first `co_poll`, later to the
event loop. A reader runs the parser on what one `read()` gave; the parser calls back into the reader's lambda, which
looks at `session->auth`, dispatches and authenticates. `dispatch_message` hands the packet to librdkafka, which sends
it later; the consumer side is woken through a pipe that librdkafka's thread writes to.

What is hard here: coroutines that hand the processor to each other in three different ways while clients act at any
moment; a timeout computed from a clock of whole seconds and recomputed at every packet; `EAGAIN` taken for a timeout;
five places that close a descriptor, which the kernel gives out again at once; one read with packets on both sides of
the authentication; a recursive parser whose position comes from three lengths, one of them read from memory that may
never have been written; packets that TCP cuts in two; an edge-triggered wake-up of which one byte is consumed per
batch, from a pipe of limited size; a loop that keeps the only thread while messages come; a producer queue whose
reports nobody takes; exit between acknowledgement and delivery, from a signal handler, through destructors whose order
the linker chooses. `PROJECT.json` lists each of these at its line under
"hazards", with the properties that would catch it going wrong, or why none does.

What makes each component correct:
- server_channel: readers and descriptors are given out and returned exactly once; a connection is refused only when no
  reader is idle; exactly what follows a session's first INIT is dispatched; unauthenticated clients go after TIMEOUT
  and nobody else is dropped; no waiting client and no input is forgotten.
- parser: it finds every packet a straightforward scan finds, in order, does not nest deeper than the read has headers,
  and returns (it may not: a length of 0 or 1 kills the process, and so may the seventh packet of a read, see
  `Returns`); a packet that TCP has cut costs no other packet while the process lives, and is no reason to hand one over
  twice.
- crc16: it is the polynomial remainder, `check_crc` takes exactly the packets that are a multiple of the generator, and
  damage of an odd number of bits, of two bits, and in a burst of sixteen is found.
- client_manager: a sid leads to its session (it does not; see findings).
- dispatch_channel: no wake-up is lost; what arrives is written down once, in order, errors as errors and messages as
  messages (with the exceptions of `MessageLog`); `read()` on the blocking pipe does not wait while there is a message to
  take (it may wait when there is none, see `ReadWaits`).
- framework entry, wf_co_event: every coroutine with something to do gets the thread (it may not, see `Served`); nobody
  is served before everything is there; exit ends and gives back what the process holds (but for the reference to the
  consumer's queue); an acknowledged packet reaches the broker (it may not, and `NothingForgotten` names every way it can
  fail to); nothing of a session is sent before its INIT was given to the producer.
- kafka_dispatcher: headers are freed exactly once; a produced message gets into the queue (it may not; see findings and
  `TakesCapacity`).

## 2. Modules

| module | models | checked by |
|---|---|---|
| `ServerChannel` | acceptor, readers, idle stack, session table, timers, sockets, event loop as scheduler | `MCServerChannel` |
| `Gateway` | abstract specification of the TCP side: slots, admission in order, forwarding from the first INIT | - |
| `ServerGateway` | the refinement mapping from `ServerChannel` to `Gateway` | `MCServerGateway` |
| `PacketParser` | `handle_packet` on the bytes of one read, activation by activation | `MCPacketParser`, `MCPacketStream` |
| `PacketStream` | the bytes of one connection in as many reads as TCP makes of them, around `PacketParser` | `MCPacketStream` |
| `Crc16` | `crc16_compute`, `fill_crc`, `check_crc` and flipped bits in between | `MCCrc16` |
| `DispatchChannel` | consumer queue, pipe, constructor and coroutine, what `handle_message` writes | `MCEventLoop` |
| `MessageLog` | abstract specification of the consumer: what arrives is written down | - |
| `EventLoop` | the one thread: `DispatchChannel` and the server's coroutines under `co_eventloop` | `MCEventLoop` |
| `KafkaDispatcher` | the fate of a produced message and its headers, delivery reports, shutdown | `MCKafkaDispatcher`, `MCProcess` |
| `Process` | the life of the process and of the packets in it, composed with `KafkaDispatcher`: construction, acknowledgement, gate, queue, SIGINT, SIGPIPE, exit, static destructors | `MCProcess` |
| `ServerChannelProofs`, `PacketParserProofs`, `PacketStreamProofs`, `Crc16Proofs`, `EventLoopProofs`, `KafkaDispatcherProofs`, `ProcessProofs` | theorems and proofs; `ServerChannelProofs` is also about `ServerGateway`, `EventLoopProofs` about `DispatchChannel` | tlapm |
| `Recursion` | induction and recursion over the numbers, for the proofs about recursive functions | tlapm |

Each module keeps, at its head, a few operators under the title "Faults": variants of a helper with a plausible slip.
No specification uses them; `PROJECT.json` "mutants" says which helper each one stands in for, and which property then
fails. They show that the property depends on the code.

### ServerChannel

The variables are the program's (`m_tasks`, `task_fd`, the locals of `server_read_write`, `connections`, `auth`), the
kernel's (`backlog`, `fdtab`, `inbox`, `peer`), and libco's (`running` has the processor, `resumer` gets it back at the
next yield, `pc` is where each reader stands). An action is the code between two points where something else can
happen: `Accept` is everything from a successful `accept()` to the `co_resume` of the reader; `Begin` from there to the
inner loop; `Await` the timeout computation up to `co_poll`; `Wake` and `LongPollEnds` the return of `co_poll`; `Read`,
`Callback`, `HandlerDone` a read with data; `ReadEnd`, `ReadAgain`, `ReadTimeout` a read without; `Release` the way
back on the stack. `received` and `dispatched` are history variables: what the callback has seen and passed on.

Only one of event loop, acceptor and readers runs at a time; clients and the kernel act between any two steps. What a
read yields is a *chunk*, the sequence of packets the parser will hand to the callback; `<< >>` is a read that yields
none. `PacketParser` says which chunk a buffer gives.

Assumptions about what is not in the repository, all visible in the module:
- The kernel gives out the lowest free descriptor. `Fd` is what the process may still open, so that `accept()` can fail
  with `EMFILE`. Fewer connections than the listen backlog of 10 wait.
- The clock is a pair (second, tick): `time(NULL)` drops the tick, timers do not. It never goes back. libco runs every
  due timer before it sleeps again, and code between two `co_poll` takes no time, so `Tick` waits for due readers.
- `co_poll(-1)` may end without an event (libco makes it `INT_MAX` milliseconds): `LongPollEnds`.
- `time(NULL)` and the millisecond timestamp of the sid come from the same clock; two connections of one tick get the
  same sid.
- Writing an acknowledgement to a client that has gone does not end the process. (It does, by SIGPIPE: that is in
  `Process`. Here it would only cut every behaviour short.)

### PacketParser

A buffer is abstracted to its length, the places of `0xaa55`, the length each of them declares, and which CRCs are
right. The recursion is a stack of activations with the two calls of the code (`CrcBad` calls from the header + 2,
`More` from behind the packet). `rece_ptk` is an uninitialised local: a length field that was not all read is any
value of `Stale`, the CRC of a packet that was not all read comes out either way, and a declared size below 2 makes
`crc16_compute` run with a huge `size_t` (`CrcFault`, after which the process is dead). An activation keeps a `packet_t`
of 16 KiB on the coroutine's stack, which libco makes 128 KiB large, and the read buffer is there too: `DEPTH` activations
fit. With one more the process may die (`Overflow`) or go on as if nothing were wrong; what else overwriting foreign
memory can do is not modelled. The reference the recursion is
compared with, `Scan`, is a scan without one: from the first header on to the next one behind each good packet and
behind the two bytes of each bad header, up to one whose packet is not all there. What the recursion may cost is counted
by `AcksOf` and `StepsOf`: an activation that sees n headers writes 2^n - 1 acknowledgements at most (`Most`), because
with a CRC error it calls itself twice for what is behind the first one. `Returns` says that each step leaves fewer to
come, unless the process dies of one of the two faults, and what a buffer must have for that: a length of 0 or 1, declared
or left over where the field is cut off (`Lethal`), or `DEPTH` headers (`Crowded`).

### Crc16

A byte and a 16-bit register are the sets of the positions of their ones: a shift adds one to each, the mask of `uint16_t`
drops 16, exclusive or is the symmetric difference. `crc16_compute` is the double loop, one `ShiftIn` per bit; `fill_crc`
puts the result into the last two bytes, the high one first; `check_crc` compares. Between them the network flips any set
of bits (`Noise`, external). The reference is division of polynomials over the integers modulo two: each bit of a packet
stands for a power of x (`Place`), and `Remainder` of a set of powers is, coefficient by coefficient, the parity of the
number of powers whose own remainder has it (`Power`, from `TimesX`). As sent the powers go down by one from bit to bit,
except that the two bytes of the CRC have changed places: `reverse` returns a CRC whose low byte belongs first.

### PacketStream

A stream is described like a buffer, with the places (`cuts`) where a `read()` may end before it does; a read takes any
of them, as long as it fits into the buffer. `ReadLong` makes the slice a buffer of `PacketParser` and calls
`handle_packet`, whose steps are those of `PacketParser`; `ReadShort` is the read of fewer than `packet_min_size()` bytes,
which is dropped. Nothing is kept between reads, except that an activation may find on its stack whatever an earlier one
has left there, which `Stale` stands for. `whole` is the set of packets that were in one read from end to end, `got` what
the callback was given, in the order of the stream. `CutCostsOne` is about the packets that a cut leaves whole, and says
also when a cut costs the process: only through a length field, and only when the stack held 0 or 1 there.

### DispatchChannel, MessageLog

librdkafka is assumed to write one byte when a message comes to an empty queue and the queue's events are enabled, in
one step with the enqueueing, with the queue locked. A message that comes between `rd_kafka_subscribe` and
`rd_kafka_queue_io_event_enable` is announced by nobody (`early`), and as the queue then does not become empty before
the coroutine runs, neither are the ones behind it: the properties state this exception and nothing wider. The pipe
holds `PIPE` bytes. When it is full the writer waits with the lock in its hand (`Blocked`, the byte it wants to write is
counted), and so does `rd_kafka_consume_queue`, while the only one who reads the pipe is the coroutine that calls it.
`consume` does not look why `co_poll` has returned, so `Wake` has no condition but that the coroutine is polling: when
libco resumes it is up to `EventLoop`. `ReadByte` waits for a byte, and the whole thread with it.

`handle_message` is modelled by what it writes. The `return` behind an unknown topic or partition is the body of the `if`
above it (the assignment between them is commented out), so every other error is logged and then its payload too. A
message without payload makes `std::cout` fail, and nothing is written afterwards (`muted`). A message with headers but
without `sid` leaves `val` uninitialised: anything may be printed, or the process crashes (`HandleNoSid`). `MessageLog`
says what of this can be promised: a list of arrivals that is written down from the front, an item at a time.

### EventLoop

`running` has the thread: `main`, which constructs and starts, `co_eventloop` (`"loop"`), the consumer, or one of the
server's coroutines. A pass takes a snapshot of the coroutines that are ready (`active`) and resumes each of them once.
The server's coroutines are reduced to taking the thread, using up their event and giving it back, which `ServerChannel`
shows in full; the consumer is `DispatchChannel`, whose actions `EventLoop` takes. librdkafka's threads (`Arrival`) and
clients (`Event`) act at any moment. libco takes the -1 of a `co_poll` for `INT_MAX` milliseconds: after 24 days without a
message `LongPollEnds` makes the consumer due, it is resumed without a byte in the pipe, and its `read()` stops the thread
(`Waiting`), clients and all, until a message is announced. When that is never (`early`) the thread waits for ever.

### KafkaDispatcher

A message counts against `queue.buffering.max.messages` until its delivery report has been taken, because
`wf_kafka` asks for reports as events (src/core/wf_kafka.cpp:23) and nothing polls them; `rd_kafka_flush` in the
destructor takes them. So the producer takes as many messages in its whole life as its queue has room for
(`TakesCapacity`). `GiveUp` is librdkafka's message timeout; `FlushTimeout` drops what the broker has not answered when the
ten seconds of the flush are over, which the destructor does not look at (`lost`). `rd_kafka_producev` is assumed to
refuse a message for want of room only, and room is counted in messages: the limit in bytes, the size of a message and an
unknown topic are left out, and so is a failing `rd_kafka_header_add` (out of memory only).

### Process

`at` says where `main` stands, with one value for each step of the construction that can fail or that leaves something
behind, and for what follows: the loop, exit, the flush, and four ways to have ended. `held` is what the process holds of
librdkafka and the kernel, `refs` the objects that the frame of `create_server` refers to. `Process` extends
`KafkaDispatcher` and takes its steps: `NewTopic` creates the dispatcher, `Dispatch` produces, `FlushDispatcher`,
`Report` and `EndFlush` are the destructor, `Background` is librdkafka's threads, which go on while `main` exits.

A packet is acknowledged (`Acknowledge`), is in the hand of `handle_packet` until the callback has it, and is dropped
(`Ignore`) or produced (`Dispatch`), which also makes the session trusted when it is an INIT, whatever became of the INIT.
Which session a packet belongs to and what type it declares are constants.

What the code does, and the model therefore has:
- Every step of the construction may end in `exit(-1)` (or in an exception of the library, which ends no better).
  `exit()` does not unwind: the shared pointers of `create_server` keep its objects alive, and only what nobody else
  refers to is destroyed with the static objects. After SIGINT, `create_server` has returned and the static objects are
  the last owners.
- `signal(SIGINT, stop)` comes after the construction; before it SIGINT kills the process. The handler runs on the main
  thread (librdkafka's threads block all signals) and SIGINT is blocked while it runs, so it exits once. It is not
  async-signal-safe: having interrupted `malloc` or a write to `std::cout` it may wait for a lock for ever, so
  `Interrupt` may also end in `"hung"`.
- Nothing ignores SIGPIPE, and the acknowledgement is written with `write()`: a client that has gone can end the process
  (`BrokenPipe`).
- `type_to_string` has no return for an unknown type. One packet of such a type that passes the gate is undefined
  behaviour; `NoTypeString` is the outcome that the process crashes, `Dispatch` the one that some string comes back.
- A client can have the parser fault (`CrcFault` and `Overflow` of `PacketParser`): `ParserFault` ends the process in the
  loop, whoever else has packets in the queue.
- The kafka channel takes a reference to the consumer's queue, and no destructor gives it back: it is the one thing still
  `held` when `exit()` comes to its end after SIGINT.
- Static objects in three files are destroyed in an order the linker chooses: `todo` starts as any permutation.
- `~client_manager` erases the entry its iterator is on and never moves the iterator. With an entry in the table it
  reads and frees freed memory again and again, so the process crashes or hangs; without one it returns.

Not modelled here: the destructor of the consumer is one step. `do_produce` has no return statement although it returns a
value, which its caller ignores; that is undefined behaviour without effect in the builds the CMake files describe, which
do not optimise.

## 3. Runs

Deadlock is checked in all runs of `MCServerChannel`, `MCServerGateway`, `MCPacketParser` and `MCPacketStream` (where
`Finished` marks the end); not in `dispatch`, `crc` and the runs of `MCProcess` and `MCKafkaDispatcher`: there the
system really stops when the process has crashed or ended, the packet has been checked, or the last message is handled.

| run | module | | shows |
|---|---|---|---|
| server_pool | MCServerGateway | | Types; every reader is idle or busy, never both, twice or neither; descriptors are never shared, leaked or swapped under a session; the printed connection count is right; the code implements `Gateway` |
| server_gate | MCServerChannel | | what is dispatched is exactly the packets from the first INIT on; unauthenticated clients are gone in the second TIMEOUT after accept; live clients are closed for no other reason |
| server_live | MCServerChannel | | every connection is answered, authenticated or closed, released when its client is gone, and its input read |
| parser | MCPacketStream | | depth, order, nothing lost, nothing extra, how many acknowledgements and steps, and what kills the process, in a read; a cut costs one packet while the process lives, and nothing is handed over twice or out of order in a stream |
| crc | MCCrc16 | | exactly the multiples of the generator are accepted; odd numbers of flipped bits, two bits, and bursts are found |
| dispatch | MCEventLoop | | no lost wake-up; `read()` waits only after a poll of `INT_MAX` milliseconds and never with an announced message there; `MessageLog` implemented; the server is served unless that `read()` or the drain loop never ends, the latter taking endless arrivals or a full pipe; everything announced is consumed |
| process | MCProcess | | nobody served too early, exit ends and gives back all but the consumer's queue, the ways for an acknowledged packet not to reach the broker, nothing of a session sent before its INIT was given to the producer, how many messages the producer takes, headers freed exactly once |
| process_sessions | MCProcess | fails | finding 1 |
| server_sid | MCServerChannel | fails | finding 2 |
| parser_once | MCPacketParser | fails | finding 3 |
| parser_length | MCPacketParser | fails | finding 4 |
| kafka_queue | MCKafkaDispatcher | fails | finding 5 |

Bounds, and why they are enough:
- *server_pool*: two readers, three clients, three descriptors, one chunk per client. The smallest instance where a
  reader is handed on while another is busy, the stack is reordered, the pool is full and a third client is refused.
  Clients are interchangeable, hence the symmetry; all the properties are safety properties.
- *server_gate*: one reader serves two clients in turn; chunks carry nothing, the INIT alone, or a packet on either side
  of it, and each client sends two, so packets come before, with, behind and after the INIT. Two ticks to a second and
  TIMEOUT = 2 let accept and packets fall at either end of a second and the deadline be recomputed in between.
- *server_live*: two readers and one descriptor, so that `accept()` fails while a connection waits.
- *parser*: in one read each, every set of at most two headers among five positions (the start, two bytes on, the end of a
  minimal packet, and so on) with six declared lengths, around 0, the minimum, a fit, a cut-off and more than `MAX_SIZE`,
  in buffers of 11, 24 and 33 bytes; and every set of at most three with the sizes of real packets. Two headers show every
  way two packets can touch, overlap or nest; three put a packet on both sides of a damaged one. The sizes are the real
  ones. In several reads: up to three packets of 11 or 20 bytes, damaged or not, behind nothing or a stray byte, with
  cuts inside a header, before and behind the length field, inside a payload, before the CRC and between packets, and
  reads that are too short. Three packets are one in front of a cut one and one behind it. And seven packets in one read,
  any of them damaged, one more than `DEPTH` = 6 has room for: seven activations of 16 KiB and the read buffer of 16 KiB
  are all of the 128 KiB that libco gives a coroutine which asks for nothing else.
- *crc*: packets of 5 to 6 bytes with their CRC, 0x8005 as in the code: all errors of one and two bits, of three bits in the
  first two bytes, any pattern in five bits in a row, all bits of up to sixteen in a row, the multiples of the generator
  by one power of x (which are accepted), and four bits across the edge of the data and the CRC (accepted as well).
- *dispatch*: one arrival of each class `handle_message` tells apart (`unknown` differs from `error` in one line of
  `LoggedAs` only), each as often as it likes, but once at a time; a pipe of one byte, so that it is full with two; one
  coroutine of the server, which waits for the consumer (the theorems are for any number of them).
- *process*: two sessions, one with a packet of each type, one with INIT and report, in any order; room for two, so that
  the queue is full, reports take the room, and a message is refused, the INIT too; a failure of every step, with or
  without a half-made object; all six orders of the destructors. `kafka_queue`: four messages, room for two.
- `MaxSends` and `LastArrival` bound what clients do; `Tick` stops when nobody may arrive and no timer is armed.

Fairness. `FairSpec` of ServerChannel has weak fairness for the coroutine that has the processor (nothing pre-empts it,
its code has no unbounded loop) and strong fairness for `AcceptWake`, each `Wake(t)` and `Tick`: every pass of
`co_eventloop` resumes all coroutines whose event or timer is there, but between two passes others run, so these
actions are enabled again and again rather than all the time. Nothing is assumed of the clients. `LongPollEnds` and
`IdleLoop` get no fairness. `Answered` has one exception, which the code really has: authenticated clients may keep
every descriptor for ever. `FairLoopSpec` of EventLoop has weak fairness for the one thread and nothing else: neither
librdkafka nor clients need do anything. That `Served` holds there up to its exceptions is the justification of the strong
fairness in ServerChannel: a pass of the loop resumes every coroutine in its snapshot. The exceptions, a drain that never
ends and a `read()` of the consumer that waits for ever, stop ServerChannel as a whole, and its liveness properties are to
be read with them. `FairProcessSpec` has weak
fairness for the steps of `exit()`, which nothing interrupts, and for the end of the flush, which `rd_kafka_flush` bounds
by ten seconds; the broker need not answer.

### Findings

1. `FreesSessions`: `~client_manager` goes on with an iterator it has erased, so after a single connection every exit by
   SIGINT ends in a crash or an endless loop (easn/easn_client_manager.cpp:30-33, against its comment "free the memory").
   `NothingForgotten` says what that can cost: the messages in the producer's queue, if the linker puts it first.
2. `SidResolves`: the sid is a millisecond timestamp and `std::map::insert` keeps the old entry; the second of two
   connections made in the same millisecond resolves to the first (easn/easn_client_manager.cpp:43, against
   easn_client_manager.h:28).
3. `HandledOnce`: after a CRC error the parser goes on behind the bad header, and, having returned, again behind the bad
   packet; packets behind it are acknowledged and dispatched twice (easn_server_channel.cpp:247-260).
4. `LongEnough`: the length that is compared with `packet_min_size()` is that of the read, not of the packet.
5. `PutInQueue`: delivery reports are never taken, so once as many messages as the producer queue holds have been
   *delivered*, every further one is refused, and `do_produce` drops the error.

Other weaknesses contradict no line of the repository, so they are exceptions in the properties rather than findings:
the drain loop that starves the server, the pipe whose overflow stops both sides, the `read()` behind a poll that has timed
out (`Served`, `ReadWaits`, `DrainEnds`, `Consumed`); the length of 0 or 1 and the seventh packet of a read, which kill the
process (`Returns`, `CutCostsOne`); the error logged as a message, the payload that silences the log, the missing `sid` (`MessageLog`); what arrives before the
events are enabled (`early`); SIGPIPE, the unknown type, the parser's faults, the signal handler's locks (`Unflushed`); the
acknowledged packets that are refused or given up, or lost when the flush takes more than ten seconds, without a word to
anyone (`NothingForgotten`); the consumer's queue that is not given back (`StopReleases`); the INIT that was refused and
trusted all the same (`Given` in `Introduced`). A property that names an exception does not catch it: it says that this is
the only one, and `PROJECT.json` notes each of these at its hazard.

## 4. Proofs

For every number of readers, clients, descriptors, every TIMEOUT and clock resolution, every set of chunks:
- `ServerChannelProofs!InductiveInvariant`: `Spec => []Inductive`. None of the checked invariants is inductive alone.
  `Inductive` adds to the types: who has the processor (`Control`), how the stack and the readers' states go together
  (`Pool`), whose each descriptor is (`Owner`), that a connection is in one place only (`Once`), that a session is fresh
  when a reader begins (`Sessions`), that an armed deadline is in the window (`Window`), and that a reader that may time
  out has reason to (`Cause`). One lemma per action shows that it is preserved; `Frame` collects what an action that
  leaves some variables alone preserves.
- From it: `TypeCorrect`, `PoolCorrect`, `DescriptorsOwned`, `GateCorrect`, `WindowCorrect`, `ClosedCorrect` (the last an
  action property), and `DebugCorrect`: when the event loop runs, the idle stack counts the idle readers, and the readers
  off the stack stand in a bijection to the open connections, so their number is that of the connections.
- `Implements`: `Spec => KeepsPromise`. Initial states map to initial states and each step to a step
  of `Gateway` or a stutter; `Accept` is `Admit`, `Callback` is `Forward`, `Close` is `Leave`.
- `PacketParserProofs`: `TypeCorrect`, `DepthCorrect` (the recursion is at most one activation deeper than the read has headers,
  whatever stale bytes say: every activation that calls stands on a header of its own, behind its caller's), `OrderCorrect` (without a CRC error every
  packet is handed over once, in order, after its acknowledgement). The invariant describes each activation and how it
  relates to its caller. `LostCorrect` and `ExtraCorrect` compare the recursion with `Scan`, the least set of headers that
  holds the first one and the next one behind each it holds: `Complete` says that whatever `Scan` goes on to from an
  acknowledged header is acknowledged, or about to be found by the top activation, or behind a packet whose activation is
  still on the stack. So when the stack is empty the acknowledged headers are closed under the scan, and contain it.
  `AcksCorrect` and `ReturnsCorrect` count: a callee sees at least one header fewer than its caller saw when it was called,
  so each step spends of the total of what the activations on the stack may cost (`WorkStep`), and what is written and
  what is left never exceed `Most` of the number of headers (`Budget`). So `handle_packet` returns, for every buffer, or the
  process dies, and `Returns` says of what. The bound is reached (three damaged headers, seven acknowledgements, in the run), and is exponential.
- `PacketStreamProofs`, for every stream and every cut: `StreamInvariant` carries the parser's invariant from read to read,
  which gives `StreamTypeCorrect` and, with `DepthBound` and `InOrder`, `StreamReads`; `StreamScanned` carries
  `NothingLost` and `NothingExtra` over in the same way, `StreamAcks` and `StreamReturns` the two counts. For streams without damage
  `StreamProgress` is the invariant behind `CutsCorrect` and `OnceCorrect`: there a CRC error means that the packet was
  cut off by the end of the read, so it is the last one in it, so the activations below the top of the stack have nothing
  left to find (`Suspended`); hence every packet that is whole in the read and not handed over yet is ahead of the top
  activation, and every one handed over is behind it. That `check_crc` kills the process only in a stream cut through a
  length field is `KilledStep`: in such a stream no packet that is all there declares less than the minimum.
- `Crc16Proofs`, for every generator that has the term 1 and an odd number of terms below x^16, every packet and every set
  of flipped bits. The register after k bits is the remainder of the bits fed in, each at the power of x it has been
  shifted to (`RegisterIs`, by induction over k, from `RemainderUp` and `RemainderXor`, that `Remainder` goes with shifts
  and sums); so `check_crc` accepts exactly the packets whose remainder is zero (`CheckIs`). `fill_crc` makes it zero and
  the network adds the remainder of what it flips, which is the inductive invariant `IInv` and gives `RemainderCorrect` (the
  two bytes `fill_crc` appends are the remainder, which no run checks: `ExactVerdict` fails without it) and `VerdictCorrect`. `DetectsCorrect` follows from parity (with x^16 the generator has an even number of terms, so division
  keeps it) and from multiplication by x being injective (so two powers with one remainder are a period apart),
  `DetectsBurstCorrect` from the latter alone. `EdgeMissed` is about 0x8005: four flipped bits, within nine, across the edge
  of the data and the CRC are accepted in *every* packet. A CRC whose low byte came first would find them, since it finds
  all bursts of sixteen; because the code stores the high byte first, that guarantee ends at this edge.
- `EventLoopProofs`, first about the consumer alone: `TypeCorrect`, `WakeupCorrect`, and `BatchesCorrect`, that the consumer
  implements `MessageLog`, where `HandleMessage` is `Write`, `Enqueue` is `Arrive` and everything else a stutter.
  Then about the composition: `LoopImplementsConsumer`, that on one thread with the server the consumer still behaves as
  `DispatchChannel` says, which carries the theorems above over (`LoopKeepsPromises`). `LoopInvariant` says who has the
  thread given where the consumer stands (`Turn`), and that what the snapshot of a pass says of the pipe stays true until
  the consumer is resumed and has read: there is a byte in the pipe, or its `co_poll` was over (`Snapshot`). With
  `Announced`, that an announced message means a byte, `ReadWaitsCorrect` follows.
- `KafkaDispatcherProofs`: `TypeCorrect` (with the bound on the queue) and `HeadersCorrect`. The invariant adds that no
  message is in the queue and among the reports (`Once`), that both are finite (`Counted`), and that every produced message
  is in the queue, delivered, failed, lost or refused (`Accounted`). `CapacityCorrect` adds that until the flush begins
  every message that was accepted and is not in the queue has its report waiting (`Unpolled`).
- `ProcessProofs`: `RunsDispatcher`, that the process implements the specification of its producer, which carries
  `HeadersOwned` and `TakesCapacity` over; from `LifeInvariant`, `ReadyCorrect` and `StopCorrect`; from it and `PacketInvariant`,
  `ForgottenCorrect` and `IntroducedCorrect`. The first invariant says how far the construction has come
  (`Construction`), which channels run (`Started`), what is still held after SIGINT given the destructors that are still to
  come (`Stopping`), and where messages may wait (`Waiting`); the second where each acknowledged packet is, and that a
  session is trusted only when its INIT was given to the producer.

They rest on the constants' assumptions, which are stated by name in the modules (`CountAssumption`, `TimeAssumption`,
`ConnAssumption`, `FdAssumption`, `ChunkAssumption`, `BoundAssumption`, `SizeAssumption`, `BufferAssumption`, `DepthAssumption`,
`KindAssumption`, `PipeAssumption`, `CoroutineAssumption`, `CapacityAssumption`, `PacketAssumption`, `StreamAssumption`,
`MinimumAssumption`, `GeneratorAssumption`, `DataAssumption`) and are about the types and ranges of the constants; TLC evaluates them in every run.
`MinimumAssumption` says that the smallest packet contains the length field, which `packet_min_size()` sees to;
`GeneratorAssumption` says of the generator what the proofs need, and 0x8005 satisfies.

Model-checked only:
- Liveness (`Answered`, `AuthOrClosed`, `GoneReleased`, `InputRead`, `Served`, `DrainEnds`, `Consumed`, `Ends`): tlapm does
  not reason about ENABLED, and so not about fairness.
- The period of the generator, which `Detects` has as a hypothesis (`WithinPeriod`): it takes evaluating `Power`. For 0x8005
  it is 32767, so two flipped bits are found in packets of up to 4095 bytes; `MAX_SIZE` is 16384. The packets of the run
  are shorter than the period, so the hypothesis holds in all of its states.

Recursive functions (`Register`, `Power`, `Most`, `Total`) are proved about by induction all the same: `Recursion` derives
it, as a statement about sets of numbers, from the well-foundedness of <, and shows that a function given by its first
value and a step exists, which is what a recursive definition leaves to be shown.

## 5. Not modelled

- The send buffer of a socket: an acknowledgement that meets a full one is lost (`EAGAIN`, whose result the code drops),
  and the client cannot tell that from a lost packet. Signals other than SIGINT and SIGPIPE.
- What the broker does with messages of one session: they have no key, and may be stored in any order. Whether the broker
  gets an INIT before, or at all, is therefore not shown.
- What writing beyond the coroutine's stack does to the memory there: `Overflow` ends the process or is harmless.
- Refusals of `rd_kafka_producev` other than for a full queue, counted in messages, and a failing `rd_kafka_header_add`.
- What a consumer that keeps the thread does to `ServerChannel`: it is composed with the other coroutines in `EventLoop`
  only, where they are reduced to taking their turn.
- A second `server_channel` (the stack is static and would be replaced): `main` makes one. `remove_connection`: nothing
  calls it. The steps inside the consumer's destructor, which is one step in `Process`.
- A wall clock that is set back or forward under the authentication timeout.
- `log`, `config`: formatting and constants. The JSON item (src/core/json) is used by nothing, and with it `json.hpp`,
  17300 lines of a third-party library. `threadpool` wraps a boost thread pool and is used by nothing. `wf_event` is an
  older epoll loop that is in no CMake file and calls a member of `server_channel` that no longer exists. `examples/`
  are separate sample programs, half of them generated from protobuf; `tests/` is read as documentation.

The list is of what is known to be left out. Configuration values, the statistics text, and error messages are left out as
well; every other abstraction is named where its module is described in section 2.

## 6. Plan

Done, in the order of importance: `ServerChannel` with `Gateway`; `PacketParser`, then `PacketStream` around it;
`DispatchChannel` with `MessageLog`, then `EventLoop`; `KafkaDispatcher` with `Process`; `Crc16`; proofs of every safety
property of these.

Next:
1. `ServerChannel` with its chunks taken from `PacketStream`, to show that a session that was trusted in one read is
   trusted for the rest of the stream, cut or not.
2. The socket's send buffer: which acknowledgements are lost, and that a client which waits for each before it sends the
   next always gets one or is closed.
