------------------------- MODULE ServerChannelProofs -------------------------
(***************************************************************************)
(* Proofs about ServerChannel, for every number of readers, connections    *)
(* and descriptors, every TIMEOUT and every clock resolution.              *)
(*                                                                         *)
(* None of the properties is inductive alone.  The inductive invariant     *)
(* Inductive says, besides the types, who has the processor (Control), how *)
(* the idle stack and the readers' states go together (Pool), whose each   *)
(* descriptor is (Owner), that a connection is in one place (Once), what   *)
(* is known of a session and its timer (Window), and what a session has    *)
(* passed on (GateExact).                                                  *)
(***************************************************************************)
EXTENDS ServerGateway, TLAPS, SequenceTheorems, FiniteSetTheorems, FunctionTheorems

Active == {"begin", "top", "read", "packet", "release"}

Control ==
    /\ \A t \in Task : pc[t] \in Active <=> running = t
    /\ running \in {EventLoop, Acceptor} => resumer = EventLoop

Pool ==
    /\ \A i, j \in 1 .. Len(m_tasks) : m_tasks[i] = m_tasks[j] => i = j
    /\ \A t \in Task : Pooled(t) <=> task_fd[t] = NoFd
    /\ \A t \in Task : pc[t] = "yield" <=> task_fd[t] = NoFd

Owner ==
    /\ \A t, u \in Task : task_fd[t] = task_fd[u] /\ t # u => task_fd[t] = NoFd
    /\ \A f \in Fd : fdtab[f] # NoConn => \E t \in Task : task_fd[t] = f
    /\ \A t \in Task : pc[t] = "begin" => fdtab[task_fd[t]] \in Conn
    /\ \A t \in Task : Serving(t) => /\ fd[t] = task_fd[t]
                                     /\ session[t] \in Conn
                                     /\ fdtab[fd[t]] = session[t]
    /\ \A t \in Task : pc[t] = "release" => fdtab[task_fd[t]] = NoConn

Once ==
    /\ \A i, j \in 1 .. Len(backlog) : backlog[i] = backlog[j] => i = j
    /\ \A f, g \in Fd : fdtab[f] = fdtab[g] /\ f # g => fdtab[f] = NoConn
    /\ \A i \in 1 .. Len(backlog), f \in Fd : fdtab[f] # backlog[i]
    /\ \A i \in 1 .. Len(backlog) : peer[backlog[i]] # "new"
    /\ \A f \in Fd : fdtab[f] # NoConn => peer[fdtab[f]] # "new"

(* A connection no reader has begun to serve has no session yet. *)
Fresh(c) == sid[c] = Never /\ ~auth[c] /\ received[c] = << >> /\ dispatched[c] = << >>

Sessions ==
    /\ \A c \in Conn : peer[c] = "new" => Fresh(c)
    /\ \A i \in 1 .. Len(backlog) : Fresh(backlog[i])
    /\ \A t \in Task : pc[t] = "begin" => Fresh(fdtab[task_fd[t]])

NotPast(d) == sec < d[1] \/ (sec = d[1] /\ tick <= d[2])

Window ==
    /\ \A t \in Task : Serving(t) =>
          /\ sid[session[t]] \in Clock
          /\ accept_timestamp[t] = sid[session[t]][1]
    /\ \A t \in Task : Serving(t) /\ ~auth[session[t]] /\ pc[t] = "poll" =>
          /\ deadline[t] # Never
          /\ deadline[t][1] = accept_timestamp[t] + TIMEOUT
          /\ NotPast(deadline[t])
    /\ \A t \in Task : Serving(t) /\ ~auth[session[t]] =>
          sec <= accept_timestamp[t] + TIMEOUT

(* A reader that is about to read for an unauthenticated client was woken  *)
(* for a reason.                                                           *)
Cause ==
    \A t \in Task : pc[t] = "read" /\ ~auth[session[t]] =>
        \/ inbox[session[t]] # << >> \/ peer[session[t]] \in {"fin", "rst"}
        \/ sec - accept_timestamp[t] >= TIMEOUT

Inductive ==
    /\ TypeOK /\ Control /\ Pool /\ Owner /\ Once
    /\ Sessions /\ Window /\ Cause /\ GateExact

-----------------------------------------------------------------------------
(* A suffix of a sequence is one; so is a sequence without its last entry. *)
LEMMA SuffixType ==
    ASSUME NEW S, NEW s \in Seq(S), s # << >>
    PROVE  Tail(s) \in Seq(S) /\ Head(s) \in S /\ SubSeq(s, 1, Len(s) - 1) \in Seq(S)
           /\ s[Len(s)] \in S
  <1>1. Len(s) \in Nat /\ Len(s) > 0
    BY EmptySeq, LenProperties
  <1> QED
    BY <1>1, HeadTailProperties, SubSeqProperties, ElementOfSeq

(* What pop() leaves. *)
LEMMA PoppedProperties ==
    ASSUME NEW S, NEW s \in Seq(S), NEW n \in Nat, n <= Len(s)
    PROVE  /\ SubSeq(s, 1, n) \in Seq(S) /\ Len(SubSeq(s, 1, n)) = n
           /\ \A i \in 1 .. n : SubSeq(s, 1, n)[i] = s[i]
  <1>1. Len(s) \in Nat /\ \A i \in 1 .. n : s[i] \in S
    BY LenProperties, ElementOfSeq
  <1> QED
    BY <1>1, SubSeqProperties, Z3

(* A counter below its bound may be raised by one. *)
LEMMA NextInRange ==
    ASSUME NEW m \in Nat, NEW n \in 0 .. m, n < m
    PROVE  n + 1 \in 0 .. m
  OBVIOUS

(* close() preserves the types. *)
LEMMA CloseType ==
    ASSUME TypeOK, NEW t \in Task, Close(t)
    PROVE  TypeOK'
  <1>1. inbox' \in [Conn -> Seq(Chunk)]
    BY EmptySeq DEF TypeOK, Close
  <1>2. fdtab' \in [Fd -> Conn \cup {NoConn}]
    BY DEF TypeOK, Close, Closed
  <1> QED
    BY <1>1, <1>2 DEF TypeOK, Close, Goto, clock, pool, locals, objects, history

(* The types are preserved by every step. *)
LEMMA TypeStep ==
    ASSUME Inductive, [Next]_vars
    PROVE  TypeOK'
  <1> USE CountAssumption, TimeAssumption, FdAssumption, ChunkAssumption, BoundAssumption
  <1> TypeOK
    BY DEF Inductive
  <1> USE DEF TypeOK, clock, network, pool, locals, objects, history, Task, EventLoop, Acceptor, NoFd, Never, Clock
  <1>1. ASSUME NEW c \in Conn, Connect(c) PROVE TypeOK'
    BY <1>1, AppendProperties DEF Connect
  <1>2. ASSUME NEW c \in Conn, NEW chunk \in Chunk, Send(c, chunk) PROVE TypeOK'
    <2>1. inbox' \in [Conn -> Seq(Chunk)]
      BY <1>2, AppendProperties DEF Send
    <2>2. sent' \in [Conn -> 0 .. MaxSends]
      <3>1. sent[c] \in 0 .. MaxSends /\ sent[c] < MaxSends
        BY <1>2 DEF Send
      <3>2. sent[c] + 1 \in 0 .. MaxSends
        BY BoundAssumption, <3>1, NextInRange
      <3> QED
        BY <1>2, <3>2 DEF Send
    <2> QED
      BY <1>2, <2>1, <2>2 DEF Send
  <1>3. ASSUME NEW c \in Conn, NEW how \in {"fin", "rst"}, Hangup(c, how) PROVE TypeOK'
    BY <1>3 DEF Hangup
  <1>4. CASE Tick
    <2>1. sec' \in Nat /\ tick' \in 0 .. TICKS - 1
      BY SMTT(30), <1>4 DEF Tick
    <2> QED
      BY <1>4, <2>1 DEF Tick
  <1>5. CASE AcceptWake
    BY <1>5 DEF AcceptWake
  <1>6. CASE AcceptFail
    BY <1>6 DEF AcceptFail
  <1>7. CASE AcceptRefuse
    <2>1. backlog' \in Seq(Conn)
      BY <1>7, SuffixType DEF AcceptRefuse
    <2>2. inbox' \in [Conn -> Seq(Chunk)]
      BY <1>7, EmptySeq DEF AcceptRefuse
    <2> QED
      BY <1>7, <2>1, <2>2 DEF AcceptRefuse
  <1>8. ASSUME NEW f \in Fd, Accept(f) PROVE TypeOK'
    BY <1>8, SuffixType DEF Accept, PoolFull, Top, Popped
  <1>9. ASSUME NEW t \in Task, Begin(t) PROVE TypeOK'
    <2> DEFINE c == fdtab[task_fd[t]]
    <2>1. c \in Conn /\ <<sec, tick>> \in Nat \X (0 .. TICKS - 1)
      BY <1>9 DEF Begin, At, Inductive, Owner
    <2>2. /\ fd' \in [Task -> Fd \cup {NoFd}]
          /\ accept_timestamp' \in [Task -> Nat]
          /\ session' \in [Task -> Conn \cup {NoConn}]
          /\ auth' \in [Conn -> BOOLEAN]
      BY <1>9, <2>1 DEF Begin
    <2>3. sid' \in [Conn -> Clock \cup {Never}]
      BY <1>9, <2>1 DEF Begin
    <2>4. DOMAIN connections' \subseteq Clock /\ connections' \in [DOMAIN connections' -> Conn]
      BY <1>9, <2>1 DEF Begin, Inserted
    <2> QED
      BY <1>9, <2>2, <2>3, <2>4 DEF Begin, At, Goto
  <1>10. ASSUME NEW t \in Task, Expire(t) PROVE TypeOK'
    BY <1>10, CloseType DEF Expire
  <1>11. ASSUME NEW t \in Task, Await(t) PROVE TypeOK'
    <2>1. ~auth[session[t]] => sec + TimeLeft(t) \in Nat
      BY SMTT(30), <1>11 DEF Await, TimeLeft
    <2>2. Deadline(t) \in Clock \cup {Never}
      BY <2>1 DEF Deadline
    <2> QED
      BY <1>11, <2>2 DEF Await, At
  <1>12. ASSUME NEW t \in Task, Wake(t) \/ LongPollEnds(t) PROVE TypeOK'
    BY ZenonT(60), <1>12 DEF Wake, LongPollEnds, Resume
  <1>13. ASSUME NEW t \in Task, Read(t) PROVE TypeOK'
    <2> DEFINE c == fdtab[fd[t]]
    <2>1. inbox[c] # << >> /\ inbox' = [inbox EXCEPT ![c] = Tail(@)] /\ packets' = Head(inbox[c])
      BY <1>13 DEF Read
    <2>2. c \in Conn
      BY <1>13 DEF Read, At, Inductive, Owner, Serving
    <2>3. Tail(inbox[c]) \in Seq(Chunk) /\ Head(inbox[c]) \in Chunk
      BY <2>1, <2>2, SuffixType
    <2>4. inbox' \in [Conn -> Seq(Chunk)] /\ packets' \in Seq(Type)
      BY <2>1, <2>2, <2>3
    <2> QED
      BY <1>13, <2>4 DEF Read, At, Goto
  <1>14. ASSUME NEW t \in Task, Callback(t) PROVE TypeOK'
    BY ZenonT(60), <1>14, SuffixType, AppendProperties DEF Callback, At, Passes
  <1>15. ASSUME NEW t \in Task, HandlerDone(t) PROVE TypeOK'
    BY <1>15 DEF HandlerDone, At, Goto
  <1>16. ASSUME NEW t \in Task, ReadEnd(t) PROVE TypeOK'
    BY <1>16, CloseType DEF ReadEnd
  <1>17. ASSUME NEW t \in Task, ReadAgain(t) PROVE TypeOK'
    BY <1>17 DEF ReadAgain, NothingRead, At, Goto
  <1>18. ASSUME NEW t \in Task, ReadTimeout(t) PROVE TypeOK'
    BY <1>18, CloseType DEF ReadTimeout
  <1>19. ASSUME NEW t \in Task, Release(t) PROVE TypeOK'
    BY <1>19, AppendProperties DEF Release, At, Pushed
  <1>20. CASE UNCHANGED vars
    BY <1>20 DEF vars
  <1> QED
    BY <1>1, <1>2, <1>3, <1>4, <1>5, <1>6, <1>7, <1>8, <1>9, <1>10, <1>11, <1>12,
       <1>13, <1>14, <1>15, <1>16, <1>17, <1>18, <1>19, <1>20
       DEF Next, Environment, Accepting, Reader, IdleLoop

-----------------------------------------------------------------------------
(* One lemma per action: it preserves the inductive invariant.             *)

USE DEF clock, network, pool, locals, objects, history, Task, EventLoop,
        Acceptor, NoFd, Never

(* A step that leaves alone what a part of the invariant speaks of         *)
(* preserves that part.                                                    *)
LEMMA Frame ==
    ASSUME Inductive
    PROVE  /\ UNCHANGED <<pc, running, resumer>> => Control'
           /\ UNCHANGED pool /\ (\A t \in Task : pc'[t] = "yield" <=> pc[t] = "yield")
              => Pool'
           /\ UNCHANGED <<task_fd, fdtab, pc, fd, session>> => Owner'
           /\ UNCHANGED <<backlog, fdtab, peer>> => Once'
           /\ UNCHANGED <<peer, backlog, pc, fdtab, task_fd, sid, auth, history>>
              => Sessions'
           /\ UNCHANGED <<clock, pc, sid, session, accept_timestamp, auth, deadline>>
              => Window'
           /\ UNCHANGED <<sec, pc, auth, session, inbox, peer, accept_timestamp>>
              => Cause'
           /\ UNCHANGED <<auth, history>> => GateExact'
  <1>1. UNCHANGED <<pc, running, resumer>> => Control'
    BY DEF Inductive, Control
  <1>2. UNCHANGED pool /\ (\A t \in Task : pc'[t] = "yield" <=> pc[t] = "yield") => Pool'
    BY DEF Inductive, Pool, Pooled
  <1>3. UNCHANGED <<task_fd, fdtab, pc, fd, session>> => Owner'
    BY DEF Inductive, Owner, Serving
  <1>4. UNCHANGED <<backlog, fdtab, peer>> => Once'
    BY DEF Inductive, Once
  <1>5. UNCHANGED <<peer, backlog, pc, fdtab, task_fd, sid, auth, history>> => Sessions'
    BY DEF Inductive, Sessions, Fresh
  <1>6. UNCHANGED <<clock, pc, sid, session, accept_timestamp, auth, deadline>> => Window'
    BY DEF Inductive, Window, Serving, NotPast, Clock
  <1>7. UNCHANGED <<sec, pc, auth, session, inbox, peer, accept_timestamp>> => Cause'
    BY DEF Inductive, Cause
  <1>8. UNCHANGED <<auth, history>> => GateExact'
    BY ZenonT(60) DEF Inductive, GateExact
  <1> QED
    BY <1>1, <1>2, <1>3, <1>4, <1>5, <1>6, <1>7, <1>8

(* Each action preserves the invariant: a client connects, ... *)
LEMMA ConnectStep ==
    ASSUME Inductive, NEW c \in Conn, Connect(c)
    PROVE  Inductive'
  <1> USE DEF Connect
  <1>1. TypeOK'
    BY TypeStep DEF Next, Environment
  <1>2. Control' /\ Pool' /\ Owner' /\ Window' /\ GateExact'
    BY Frame
  <1>3. /\ Len(backlog') = Len(backlog) + 1 /\ Len(backlog) \in Nat
        /\ \A i \in 1 .. Len(backlog) : backlog'[i] = backlog[i] /\ backlog[i] # c
        /\ backlog'[Len(backlog) + 1] = c
        /\ \A f \in Fd : fdtab[f] # c
    <2>1. /\ \A i \in 1 .. Len(backlog) : backlog[i] # c
          /\ \A f \in Fd : fdtab[f] # c
      BY ConnAssumption DEF Inductive, Once
    <2>2. backlog \in Seq(Conn) /\ backlog' = Append(backlog, c)
      BY DEF Inductive, TypeOK
    <2>3. /\ Len(backlog) \in Nat
          /\ Len(backlog') = Len(backlog) + 1
          /\ \A i \in 1 .. Len(backlog) : backlog'[i] = backlog[i]
          /\ backlog'[Len(backlog) + 1] = c
      BY <2>2, AppendProperties, LenProperties
    <2> QED
      BY <2>1, <2>3
  <1>4. Once'
    <2>1. \A i, j \in 1 .. Len(backlog') : backlog'[i] = backlog'[j] => i = j
      BY <1>3 DEF Inductive, Once
    <2>2. \A i \in 1 .. Len(backlog') : peer'[backlog'[i]] # "new"
      BY SMTT(30), <1>3 DEF Inductive, TypeOK, Once
    <2>3. \A i \in 1 .. Len(backlog'), f \in Fd : fdtab[f] # backlog'[i]
      BY SMTT(30), <1>3 DEF Inductive, TypeOK, Once
    <2>4. \A f \in Fd : fdtab[f] # NoConn => peer'[fdtab[f]] # "new"
      BY DEF Inductive, TypeOK, Once
    <2> QED
      BY <2>1, <2>2, <2>3, <2>4 DEF Inductive, Once
  <1>5. Sessions'
    <2>1. Fresh(c)
      BY DEF Inductive, Sessions
    <2>2. \A i \in 1 .. Len(backlog') : Fresh(backlog'[i])
      BY <1>3, <2>1 DEF Inductive, Sessions
    <2>3. \A d \in Conn : peer'[d] = "new" => Fresh(d)
      BY DEF Inductive, TypeOK, Sessions
    <2> QED
      BY <2>2, <2>3 DEF Inductive, Sessions, Fresh
  <1>6. Cause'
    <2>1. \A d \in Conn : peer[d] \in {"fin", "rst"} => peer'[d] = peer[d]
      BY DEF Inductive, TypeOK
    <2>2. \A t \in Task : pc[t] = "read" => session[t] \in Conn
      BY DEF Inductive, Owner, Serving
    <2> QED
      BY <2>1, <2>2 DEF Inductive, Cause
  <1> QED
    BY <1>1, <1>2, <1>4, <1>5, <1>6 DEF Inductive

(* ... sends, ... *)
LEMMA SendStep ==
    ASSUME Inductive, NEW c \in Conn, NEW chunk \in Chunk, Send(c, chunk)
    PROVE  Inductive'
  <1> USE DEF Send
  <1>1. TypeOK'
    BY TypeStep DEF Next, Environment
  <1>2. Control' /\ Pool' /\ Owner' /\ Once' /\ Sessions' /\ Window' /\ GateExact'
    BY Frame
  <1>3. \A d \in Conn : inbox[d] # << >> => inbox'[d] # << >>
    <2>1. inbox[c] \in Seq(Chunk) /\ inbox'[c] = Append(inbox[c], chunk)
      BY DEF Inductive, TypeOK
    <2>2. Len(Append(inbox[c], chunk)) = Len(inbox[c]) + 1 /\ Len(inbox[c]) \in Nat
      BY <2>1, AppendProperties, LenProperties
    <2>3. inbox'[c] # << >>
      BY <2>1, <2>2, EmptySeq
    <2> QED
      BY <2>3 DEF Inductive, TypeOK
  <1>4. Cause'
    <2>1. \A t \in Task : pc[t] = "read" => session[t] \in Conn
      BY DEF Inductive, Owner, Serving
    <2> QED
      BY <1>3, <2>1 DEF Inductive, Cause
  <1> QED
    BY <1>1, <1>2, <1>4 DEF Inductive

(* ... or hangs up; ... *)
LEMMA HangupStep ==
    ASSUME Inductive, NEW c \in Conn, NEW how \in {"fin", "rst"}, Hangup(c, how)
    PROVE  Inductive'
  <1> USE DEF Hangup
  <1>1. TypeOK'
    BY TypeStep DEF Next, Environment
  <1>2. Control' /\ Pool' /\ Owner' /\ Window' /\ GateExact'
    BY Frame
  <1>3. \A d \in Conn : peer'[d] = "new" <=> peer[d] = "new"
    BY DEF Inductive, TypeOK
  <1>4. Once'
    <2>1. \A i \in 1 .. Len(backlog) : backlog[i] \in Conn
      BY ElementOfSeq DEF Inductive, TypeOK
    <2>2. \A i \in 1 .. Len(backlog) : peer'[backlog[i]] # "new"
      BY <1>3, <2>1 DEF Inductive, Once
    <2>3. \A f \in Fd : fdtab[f] # NoConn => peer'[fdtab[f]] # "new"
      BY <1>3 DEF Inductive, TypeOK, Once
    <2> QED
      BY <2>2, <2>3 DEF Inductive, Once
  <1>5. Sessions'
    BY <1>3 DEF Inductive, Sessions, Fresh
  <1>6. Cause'
    <2>1. \A d \in Conn : peer[d] \in {"fin", "rst"} => peer'[d] \in {"fin", "rst"}
      BY DEF Inductive, TypeOK
    <2>2. \A t \in Task : pc[t] = "read" => session[t] \in Conn
      BY DEF Inductive, Owner, Serving
    <2> QED
      BY <2>1, <2>2 DEF Inductive, Cause
  <1> QED
    BY <1>1, <1>2, <1>4, <1>5, <1>6 DEF Inductive

(* ... time passes; ... *)
LEMMA TickStep ==
    ASSUME Inductive, Tick
    PROVE  Inductive'
  <1> USE DEF Tick
  <1>1. TypeOK'
    BY TypeStep DEF Next, Environment
  <1>2. Control' /\ Pool' /\ Owner' /\ Once' /\ Sessions' /\ GateExact'
    BY Frame
  <1>3. \A t \in Task : pc[t] \notin Active
    BY DEF Inductive, Control
  <1>4. ASSUME NEW t \in Task, pc[t] = "poll", ~auth[session[t]]
        PROVE  /\ deadline[t] # Never /\ deadline[t][1] = accept_timestamp[t] + TIMEOUT
               /\ NotPast(deadline[t])' /\ sec' <= accept_timestamp[t] + TIMEOUT
    <2>1. /\ deadline[t] # Never /\ NotPast(deadline[t]) /\ ~Due(t)
          /\ deadline[t][1] = accept_timestamp[t] + TIMEOUT
      BY <1>4 DEF Inductive, Window, Serving
    <2> DEFINE d1 == deadline[t][1]
               d2 == deadline[t][2]
    <2>2. d1 \in Nat /\ d2 \in 0 .. TICKS - 1
      BY <2>1 DEF Inductive, TypeOK, Clock
    <2>3. sec < d1 \/ (sec = d1 /\ tick < d2)
      BY <1>4, <2>1, <2>2 DEF NotPast, Due, Inductive, TypeOK
    <2>4. sec \in Nat /\ tick \in 0 .. TICKS - 1
      BY DEF Inductive, TypeOK
    <2> HIDE DEF d1, d2
    <2>5. sec' < d1 \/ (sec' = d1 /\ tick' <= d2)
      BY <2>2, <2>3, <2>4, TimeAssumption
    <2>6. sec' \in Nat /\ deadline' = deadline
      BY <2>4
    <2> QED
      BY <2>1, <2>2, <2>5, <2>6 DEF NotPast, d1, d2
  <1>5. Window'
    BY <1>3, <1>4 DEF Inductive, Window, Serving, Active
  <1>6. Cause'
    BY <1>3 DEF Cause, Active
  <1> QED
    BY <1>1, <1>2, <1>5, <1>6 DEF Inductive

(* AcceptWake and AcceptFail only move the processor. *)
LEMMA AcceptorStep ==
    ASSUME Inductive, AcceptWake \/ AcceptFail
    PROVE  Inductive'
  <1> USE DEF AcceptWake, AcceptFail
  <1>1. TypeOK'
    BY TypeStep DEF Next, Accepting
  <1>2. /\ Pool' /\ Owner' /\ Once' /\ Sessions' /\ Window' /\ Cause' /\ GateExact'
    BY Frame
  <1>3. Control'
    BY CountAssumption DEF Inductive, Control, Active
  <1> QED
    BY <1>1, <1>2, <1>3 DEF Inductive

(* What is left of the listen queue when its head is taken. *)
LEMMA BacklogTail ==
    ASSUME Inductive, backlog # << >>, backlog' = Tail(backlog)
    PROVE  /\ Head(backlog) \in Conn /\ Head(backlog) = backlog[1]
           /\ 1 \in 1 .. Len(backlog)
           /\ \A i \in 1 .. Len(backlog') : i + 1 \in 1 .. Len(backlog)
                                            /\ backlog'[i] = backlog[i + 1]
           /\ \A i \in 1 .. Len(backlog') : backlog'[i] # Head(backlog)
           /\ \A i, j \in 1 .. Len(backlog') : backlog'[i] = backlog'[j] => i = j
  <1>1. backlog \in Seq(Conn)
    BY DEF Inductive, TypeOK
  <1>2. Len(backlog) \in Nat /\ Len(backlog) > 0 /\ Len(backlog') = Len(backlog) - 1
    BY <1>1, HeadTailProperties, LenProperties, EmptySeq
  <1>3. /\ Head(backlog) \in Conn /\ Head(backlog) = backlog[1]
    BY <1>1, HeadTailProperties
  <1>4. \A i \in 1 .. Len(backlog') : i + 1 \in 1 .. Len(backlog) /\ backlog'[i] = backlog[i + 1]
    BY <1>1, <1>2, HeadTailProperties
  <1>5. \A i, j \in 1 .. Len(backlog) : backlog[i] = backlog[j] => i = j
    BY DEF Inductive, Once
  <1>6. \A i \in 1 .. Len(backlog') : backlog'[i] # Head(backlog)
    BY <1>2, <1>3, <1>4, <1>5
  <1>7. \A i, j \in 1 .. Len(backlog') : backlog'[i] = backlog'[j] => i = j
    BY <1>2, <1>4, <1>5
  <1> QED
    BY <1>2, <1>3, <1>4, <1>6, <1>7

(* ... the acceptor refuses a connection, ... *)
LEMMA RefuseStep ==
    ASSUME Inductive, AcceptRefuse
    PROVE  Inductive'
  <1> USE DEF AcceptRefuse
  <1> DEFINE c == Head(backlog)
  <1>1. TypeOK'
    BY TypeStep DEF Next, Accepting
  <1>2. Control' /\ Pool' /\ Owner' /\ Window' /\ GateExact'
    BY Frame
  <1>3. Once'
    BY BacklogTail DEF Inductive, Once
  <1>4. Sessions'
    <2>1. \A i \in 1 .. Len(backlog') : Fresh(backlog'[i])
      BY BacklogTail DEF Inductive, Sessions
    <2> QED
      BY <2>1 DEF Inductive, Sessions, Fresh
  <1>5. Cause'
    BY DEF Inductive, Control, Cause, Active
  <1> QED
    BY <1>1, <1>2, <1>3, <1>4, <1>5 DEF Inductive

(* The reader taken from the stack. *)
LEMMA TopIdle ==
    ASSUME Inductive, ~PoolFull
    PROVE  /\ Top \in Task /\ task_fd[Top] = NoFd /\ pc[Top] = "yield"
           /\ \A i \in 1 .. Len(Popped) : Popped[i] = m_tasks[i]
           /\ Len(m_tasks) \in Nat \ {0} /\ Len(Popped) = Len(m_tasks) - 1
           /\ Popped \in Seq(Task)
  <1>1. m_tasks \in Seq(Task)
    BY DEF Inductive, TypeOK
  <1>2. Len(m_tasks) \in Nat \ {0}
    BY <1>1, EmptySeq, LenProperties DEF PoolFull
  <1>3. Top \in Task
    <2>1. Len(m_tasks) \in 1 .. Len(m_tasks)
      BY <1>2
    <2> QED
      BY <1>1, <2>1, ElementOfSeq DEF Top
  <1>4. Pooled(Top)
    BY <1>2 DEF Pooled, Top
  <1>5. task_fd[Top] = NoFd /\ pc[Top] = "yield"
    BY <1>3, <1>4 DEF Inductive, Pool
  <1>6. /\ Popped \in Seq(Task) /\ Len(Popped) = Len(m_tasks) - 1
        /\ \A i \in 1 .. Len(Popped) : Popped[i] = m_tasks[i]
    <2>1. Len(m_tasks) - 1 \in Nat /\ Len(m_tasks) - 1 <= Len(m_tasks)
      BY <1>2
    <2> QED
      BY <1>1, <2>1, PoppedProperties DEF Popped
  <1> QED
    BY <1>2, <1>3, <1>5, <1>6

(* ... or accepts it and hands it to a reader, ... *)
LEMMA AcceptStep ==
    ASSUME Inductive, NEW f \in Fd, Accept(f)
    PROVE  Inductive'
  <1> DEFINE u == Top
             c == Head(backlog)
  <1>1. TypeOK'
    BY TypeStep DEF Next, Accepting
  <1>2. /\ running = Acceptor /\ backlog # << >> /\ ~PoolFull
        /\ fdtab[f] = NoConn
        /\ fdtab' = [fdtab EXCEPT ![f] = c]
        /\ backlog' = Tail(backlog)
        /\ task_fd' = [task_fd EXCEPT ![u] = f]
        /\ m_tasks' = Popped
        /\ pc' = [pc EXCEPT ![u] = "begin"]
        /\ running' = u /\ resumer' = Acceptor
        /\ UNCHANGED <<clock, peer, inbox, sent, locals, packets, objects, history>>
    BY DEF Accept, IsLowest, FreeFd
  <1>3. u \in Task /\ task_fd[u] = NoFd /\ pc[u] = "yield"
    BY <1>2, TopIdle
  <1>4. c \in Conn /\ c # NoConn /\ f # NoFd
    BY <1>2, BacklogTail, ConnAssumption, FdAssumption
  <1>5. pc \in [Task -> {"yield", "poll"} \cup Active] /\ task_fd \in [Task -> Fd \cup {NoFd}]
        /\ fdtab \in [Fd -> Conn \cup {NoConn}]
    BY DEF Inductive, TypeOK, Active
  <1>6. \A t \in Task : pc[t] \notin Active
    BY <1>2, CountAssumption DEF Inductive, Control
  <1> HIDE DEF u, c
  <1>7. Control'
    BY <1>2, <1>3, <1>5, <1>6, CountAssumption DEF Inductive, Control, Active
  <1>8. Pool'
    <2>1. \A i, j \in 1 .. Len(m_tasks') : m_tasks'[i] = m_tasks'[j] => i = j
      BY <1>2, TopIdle DEF Inductive, Pool
    <2>2. \A t \in Task : Pooled(t)' <=> Pooled(t) /\ t # u
      <3>1. /\ Len(m_tasks) \in Nat \ {0} /\ Len(m_tasks') = Len(m_tasks) - 1
            /\ \A i \in 1 .. Len(m_tasks') : m_tasks'[i] = m_tasks[i]
            /\ u = m_tasks[Len(m_tasks)]
        BY <1>2, TopIdle DEF u, Top
      <3>2. \A i, j \in 1 .. Len(m_tasks) : m_tasks[i] = m_tasks[j] => i = j
        BY DEF Inductive, Pool
      <3> QED
        BY <3>1, <3>2 DEF Pooled
    <2>3. \A t \in Task : Pooled(t)' <=> task_fd'[t] = NoFd
      BY <1>2, <1>3, <1>4, <1>5, <2>2 DEF Inductive, Pool
    <2>4. \A t \in Task : pc'[t] = "yield" <=> task_fd'[t] = NoFd
      BY <1>2, <1>3, <1>4, <1>5 DEF Inductive, Pool
    <2> QED
      BY <2>1, <2>3, <2>4 DEF Pool
  <1>9. \A t \in Task : task_fd[t] # f \/ pc[t] = "release"
    <2> SUFFICES ASSUME NEW t \in Task, task_fd[t] = f, pc[t] # "release" PROVE FALSE
      OBVIOUS
    <2>1. pc[t] # "yield"
      BY <1>4 DEF Inductive, Pool
    <2>2. fdtab[f] \in Conn
      BY <2>1, <1>5, <1>6 DEF Inductive, TypeOK, Owner, Serving, Active
    <2> QED
      BY <1>2, <2>2, ConnAssumption
  <1>10. \A t \in Task : task_fd[t] # f
    BY <1>6, <1>9 DEF Active
  <1>11. Owner'
    <2>1. \A t, w \in Task : task_fd'[t] = task_fd'[w] /\ t # w => task_fd'[t] = NoFd
      BY <1>2, <1>3, <1>5, <1>10 DEF Inductive, Owner
    <2>2. \A g \in Fd : fdtab'[g] # NoConn => \E t \in Task : task_fd'[t] = g
      <3> SUFFICES ASSUME NEW g \in Fd, fdtab'[g] # NoConn, g # f
                   PROVE  \E t \in Task : task_fd'[t] = g
        BY <1>2, <1>3, <1>5
      <3>1. fdtab[g] # NoConn
        BY <1>2, <1>5
      <3>2. PICK t \in Task : task_fd[t] = g
        BY <3>1 DEF Inductive, Owner
      <3>3. t # u
        BY <1>3, <3>2, FdAssumption
      <3> QED
        BY <1>2, <1>5, <3>2, <3>3
    <2>3. \A t \in Task : pc'[t] = "begin" => t = u
      BY <1>2, <1>3, <1>5, <1>6 DEF Active
    <2>4. \A t \in Task : pc'[t] = "begin" => fdtab'[task_fd'[t]] \in Conn
      BY <1>2, <1>3, <1>4, <1>5, <2>3
    <2>5. \A t \in Task : Serving(t)' => Serving(t) /\ t # u
      BY <1>2, <1>3, <1>5 DEF Serving
    <2>6. \A t \in Task : Serving(t)' => /\ fd'[t] = task_fd'[t]
                                        /\ session'[t] \in Conn
                                        /\ fdtab'[fd'[t]] = session'[t]
      BY <1>2, <1>5, <1>10, <2>5 DEF Inductive, Owner
    <2>7. \A t \in Task : pc'[t] # "release"
      BY <1>2, <1>3, <1>5, <1>6 DEF Active
    <2> QED
      BY <2>1, <2>2, <2>4, <2>6, <2>7 DEF Owner
  <1>12. Once'
    <2>1. \A g \in Fd : fdtab[g] # c
      BY <1>2, BacklogTail DEF Inductive, Once, c
    <2>2. \A g, h \in Fd : fdtab'[g] = fdtab'[h] /\ g # h => fdtab'[g] = NoConn
      BY <1>2, <1>5, <2>1 DEF Inductive, Once
    <2>3. \A i \in 1 .. Len(backlog'), g \in Fd : fdtab'[g] # backlog'[i]
      BY <1>2, <1>5, BacklogTail DEF Inductive, Once, c
    <2>4. peer[c] # "new" /\ \A i \in 1 .. Len(backlog') : peer[backlog'[i]] # "new"
      BY <1>2, BacklogTail DEF Inductive, Once, c
    <2> QED
      BY <1>2, <1>5, <2>2, <2>3, <2>4, BacklogTail DEF Inductive, Once
  <1>13. Sessions'
    <2>1. Fresh(c)
      BY <1>2, BacklogTail DEF Inductive, Sessions, c
    <2>2. \A t \in Task : pc'[t] = "begin" => t = u
      BY <1>2, <1>3, <1>5, <1>6 DEF Active
    <2>3. \A t \in Task : pc'[t] = "begin" => Fresh(fdtab'[task_fd'[t]])
      BY <1>2, <1>3, <1>4, <1>5, <2>1, <2>2
    <2>4. \A i \in 1 .. Len(backlog') : Fresh(backlog'[i])
      BY <1>2, BacklogTail DEF Inductive, Sessions
    <2> QED
      BY <1>2, <2>3, <2>4 DEF Inductive, Sessions, Fresh
  <1>14. \A t \in Task : Serving(t)' => Serving(t) /\ pc'[t] = pc[t]
    BY <1>2, <1>3, <1>5 DEF Serving
  <1>15. Window'
    BY <1>2, <1>14 DEF Inductive, Window, NotPast, Clock
  <1>16. Cause'
    BY <1>2, <1>3, <1>5, <1>6 DEF Cause, Active
  <1>17. GateExact'
    BY <1>2, Frame
  <1> QED
    BY <1>1, <1>7, <1>8, <1>11, <1>12, <1>13, <1>15, <1>16, <1>17 DEF Inductive

(* The types of the functions the readers' steps update. *)
LEMMA ReaderTypes ==
    ASSUME Inductive
    PROVE  /\ pc \in [Task -> {"yield", "poll"} \cup Active]
           /\ task_fd \in [Task -> Fd \cup {NoFd}] /\ fd \in [Task -> Fd \cup {NoFd}]
           /\ fdtab \in [Fd -> Conn \cup {NoConn}]
           /\ session \in [Task -> Conn \cup {NoConn}]
           /\ accept_timestamp \in [Task -> Nat]
           /\ deadline \in [Task -> Clock \cup {Never}]
           /\ inbox \in [Conn -> Seq(Chunk)]
           /\ sid \in [Conn -> Clock \cup {Never}]
           /\ auth \in [Conn -> BOOLEAN]
           /\ sec \in Nat /\ tick \in 0 .. TICKS - 1 /\ TIMEOUT \in Nat \ {0}
           /\ resumer \in {EventLoop, Acceptor} /\ running \in {EventLoop, Acceptor} \cup Task
           /\ \A t \in Task : t \in Nat /\ t > 0
  BY SMTT(30), TimeAssumption, CountAssumption DEF Inductive, TypeOK, Active

(* Two readers never serve the same connection. *)
LEMMA ServeApart ==
    ASSUME Inductive, NEW t \in Task, NEW u \in Task, t # u,
           pc[t] \notin {"yield", "release"}, Serving(u)
    PROVE  /\ fdtab[task_fd[t]] \in Conn /\ task_fd[t] \in Fd /\ task_fd[u] \in Fd
           /\ task_fd[t] # task_fd[u]
           /\ session[u] # fdtab[task_fd[t]]
           /\ fdtab[task_fd[u]] = session[u] /\ session[u] \in Conn
  <1>1. pc[u] # "yield"
    BY DEF Serving
  <1>2. task_fd[t] \in Fd /\ task_fd[u] \in Fd
    BY <1>1, ReaderTypes DEF Inductive, Pool
  <1>3. task_fd[t] # task_fd[u]
    BY <1>2, FdAssumption DEF Inductive, Owner
  <1>4. fdtab[task_fd[u]] = session[u] /\ session[u] \in Conn
    BY DEF Inductive, Owner
  <1>5. fdtab[task_fd[t]] \in Conn
    <2>1. pc[t] = "begin" \/ Serving(t)
      BY ReaderTypes DEF Serving, Active
    <2>2. CASE pc[t] = "begin"
      BY <2>2 DEF Inductive, Owner
    <2>3. CASE Serving(t)
      BY <2>3 DEF Inductive, Owner
    <2> QED
      BY <2>1, <2>2, <2>3
  <1>6. session[u] # fdtab[task_fd[t]]
    BY <1>2, <1>3, <1>4, <1>5, ConnAssumption DEF Inductive, Once
  <1> QED
    BY <1>2, <1>3, <1>4, <1>5, <1>6

(* ... which begins a session, ... *)
LEMMA BeginStep ==
    ASSUME Inductive, NEW t \in Task, Begin(t)
    PROVE  Inductive'
  <1> DEFINE c == fdtab[task_fd[t]]
  <1>1. TypeOK'
    BY TypeStep DEF Next, Reader
  <1>2. /\ running = t /\ pc[t] = "begin"
        /\ fd' = [fd EXCEPT ![t] = task_fd[t]]
        /\ accept_timestamp' = [accept_timestamp EXCEPT ![t] = sec]
        /\ session' = [session EXCEPT ![t] = c]
        /\ sid' = [sid EXCEPT ![c] = <<sec, tick>>]
        /\ auth' = [auth EXCEPT ![c] = FALSE]
        /\ pc' = [pc EXCEPT ![t] = "top"]
        /\ UNCHANGED <<running, resumer, clock, network, pool, deadline, packets, history>>
    BY DEF Begin, At, Goto
  <1>3. /\ c \in Conn /\ c # NoConn /\ Fresh(c) /\ task_fd[t] \in Fd
        /\ peer[c] # "new" /\ \A i \in 1 .. Len(backlog) : backlog[i] # c
    <2>1. c \in Conn /\ c # NoConn /\ Fresh(c)
      BY <1>2, ConnAssumption DEF Inductive, Owner, Sessions
    <2>2. task_fd[t] \in Fd
      BY <1>2, ReaderTypes DEF Inductive, Pool
    <2> QED
      BY <2>1, <2>2 DEF Inductive, Once
  <1>4. \A u \in Task : u # t => pc[u] \notin Active
    BY <1>2 DEF Inductive, Control
  <1>5. \A u \in Task : u # t /\ Serving(u) => session[u] # c /\ session[u] \in Conn
    BY <1>2, ServeApart
  <1>6. \A u \in Task : Serving(u)' => u = t \/ (Serving(u) /\ pc'[u] = pc[u])
    BY <1>2, ReaderTypes DEF Serving
  <1>7. auth' = auth
    BY <1>2, <1>3, ReaderTypes DEF Fresh
  <1> HIDE DEF c
  <1>8. Control'
    BY <1>2, ReaderTypes DEF Inductive, Control, Active
  <1>9. Pool'
    <2>1. \A u \in Task : pc'[u] = "yield" <=> pc[u] = "yield"
      BY <1>2, ReaderTypes
    <2> QED
      BY <1>2, <2>1, Frame
  <1>10. Owner'
    <2>1. \A u \in Task : Serving(u)' => /\ fd'[u] = task_fd'[u]
                                        /\ session'[u] \in Conn
                                        /\ fdtab'[fd'[u]] = session'[u]
      BY ZenonT(60), <1>2, <1>3, <1>6, ReaderTypes DEF Inductive, Owner, c
    <2>2. \A u \in Task : pc'[u] \notin {"begin", "release"}
      BY <1>2, <1>4, ReaderTypes DEF Active
    <2> QED
      BY <1>2, <2>1, <2>2 DEF Inductive, Owner
  <1>11. Once'
    BY <1>2, Frame
  <1>12. Sessions'
    <2>1. \A d \in Conn : d # c /\ Fresh(d) => Fresh(d)'
      BY <1>2, <1>7, ReaderTypes DEF Fresh
    <2>2. \A u \in Task : pc'[u] # "begin"
      BY <1>2, <1>4, ReaderTypes DEF Active
    <2>3. \A d \in Conn : peer'[d] = "new" => Fresh(d)'
      BY <1>2, <1>3, <2>1 DEF Inductive, Sessions
    <2>4. \A i \in 1 .. Len(backlog) : backlog[i] \in Conn
      BY ElementOfSeq DEF Inductive, TypeOK
    <2>5. \A i \in 1 .. Len(backlog) : Fresh(backlog[i])'
      <3> SUFFICES ASSUME NEW i \in 1 .. Len(backlog) PROVE Fresh(backlog[i])'
        OBVIOUS
      <3>1. backlog[i] \in Conn /\ backlog[i] # c /\ Fresh(backlog[i])
        BY <1>3, <2>4 DEF Inductive, Sessions
      <3> QED
        BY <1>2, <1>7, <3>1, ReaderTypes DEF Fresh
    <2> QED
      BY <1>2, <2>2, <2>3, <2>5 DEF Sessions, Fresh
  <1>13. Window'
    <2>1. \A u \in Task : Serving(u)' =>
            /\ sid'[session'[u]] \in Clock
            /\ accept_timestamp'[u] = sid'[session'[u]][1]
      <3>1. <<sec, tick>> \in Clock /\ <<sec, tick>>[1] = sec
        BY ReaderTypes DEF Clock
      <3>2. \A u \in Task : u # t /\ Serving(u) =>
              /\ session'[u] = session[u] /\ sid'[session[u]] = sid[session[u]]
              /\ accept_timestamp'[u] = accept_timestamp[u]
        BY <1>2, <1>5, ReaderTypes
      <3>3. /\ session'[t] = c /\ sid'[c] = <<sec, tick>> /\ accept_timestamp'[t] = sec
        BY <1>2, <1>3, ReaderTypes
      <3> QED
        BY <1>6, <3>1, <3>2, <3>3 DEF Inductive, Window
    <2>2. \A u \in Task : Serving(u)' /\ pc'[u] = "poll" => u # t
      BY <1>2, ReaderTypes
    <2>3. \A u \in Task : u # t /\ Serving(u) =>
            /\ session'[u] = session[u] /\ accept_timestamp'[u] = accept_timestamp[u]
      BY <1>2, ReaderTypes
    <2>4. \A u \in Task : Serving(u)' /\ ~auth'[session'[u]] /\ pc'[u] = "poll" =>
            /\ deadline'[u] # Never
            /\ deadline'[u][1] = accept_timestamp'[u] + TIMEOUT
            /\ NotPast(deadline[u])
      BY <1>2, <1>6, <1>7, <2>2, <2>3 DEF Inductive, Window
    <2>5. accept_timestamp'[t] = sec /\ sec <= sec + TIMEOUT
      BY <1>2, ReaderTypes
    <2>6. \A u \in Task : Serving(u)' /\ ~auth'[session'[u]] =>
            sec' <= accept_timestamp'[u] + TIMEOUT
      BY <1>2, <1>6, <1>7, <2>3, <2>5 DEF Inductive, Window
    <2> QED
      BY <1>2, <2>1, <2>4, <2>6 DEF Window, NotPast, Clock
  <1>14. Cause'
    BY <1>2, <1>4, ReaderTypes DEF Cause, Active
  <1>15. GateExact'
    BY <1>2, <1>7, Frame
  <1> QED
    BY <1>1, <1>8, <1>9, <1>10, <1>11, <1>12, <1>13, <1>14, <1>15 DEF Inductive

(* close(fd), whichever of the four places it is called from. *)
LEMMA CloseStep ==
    ASSUME Inductive, NEW t \in Task, running = t, pc[t] \in {"top", "read"},
           Close(t), TypeOK'
    PROVE  Inductive'
  <1> DEFINE c == session[t]
             f == fd[t]
  <1>1. /\ pc' = [pc EXCEPT ![t] = "release"]
        /\ fdtab' = [fdtab EXCEPT ![f] = NoConn]
        /\ UNCHANGED <<running, resumer, clock, backlog, peer, sent, pool, locals, packets,
                       objects, history>>
    BY DEF Close, Closed, Goto
  <1>2. f = task_fd[t] /\ f \in Fd /\ c \in Conn /\ fdtab[f] = c
    <2>1. f = task_fd[t] /\ c \in Conn /\ fdtab[f] = c
      BY DEF Inductive, Owner, Serving
    <2>2. task_fd[t] \in Fd
      BY ReaderTypes DEF Inductive, Pool
    <2> QED
      BY <2>1, <2>2
  <1>3. \A u \in Task : u # t => pc[u] \notin Active
    BY DEF Inductive, Control
  <1>4. \A u \in Task : Serving(u)' => u # t /\ Serving(u) /\ pc'[u] = pc[u]
    BY <1>1, ReaderTypes DEF Serving
  <1>5. \A u \in Task : u # t /\ Serving(u) => fd[u] # f
    BY <1>2, ServeApart DEF Inductive, Owner
  <1> HIDE DEF c, f
  <1>6. Control'
    BY <1>1, ReaderTypes DEF Inductive, Control, Active
  <1>7. Pool'
    <2>1. \A u \in Task : pc'[u] = "yield" <=> pc[u] = "yield"
      BY <1>1, ReaderTypes
    <2> QED
      BY <1>1, <2>1, Frame
  <1>8. Owner'
    <2>1. \A g \in Fd : fdtab'[g] # NoConn => fdtab[g] # NoConn
      BY <1>1, <1>2, ReaderTypes
    <2>2. \A u \in Task : Serving(u)' => /\ fd'[u] = task_fd'[u]
                                        /\ session'[u] \in Conn
                                        /\ fdtab'[fd'[u]] = session'[u]
      BY <1>1, <1>2, <1>4, <1>5, ReaderTypes DEF Inductive, Owner
    <2>3. \A u \in Task : pc'[u] # "begin" /\ (pc'[u] = "release" => u = t)
      BY <1>1, <1>3, ReaderTypes DEF Active
    <2>4. fdtab'[task_fd'[t]] = NoConn
      BY <1>1, <1>2, ReaderTypes
    <2> QED
      BY <1>1, <2>1, <2>2, <2>3, <2>4 DEF Inductive, Owner
  <1>9. Once'
    <2>1. \A g \in Fd : fdtab'[g] # NoConn => fdtab'[g] = fdtab[g]
      BY <1>1, <1>2, ReaderTypes
    <2>2. \A i \in 1 .. Len(backlog) : backlog[i] \in Conn
      BY ElementOfSeq DEF Inductive, TypeOK
    <2> QED
      BY <1>1, <2>1, <2>2, ConnAssumption DEF Inductive, Once
  <1>10. Sessions'
    <2>1. \A u \in Task : pc'[u] # "begin"
      BY <1>1, <1>3, ReaderTypes DEF Active
    <2> QED
      BY <1>1, <2>1 DEF Inductive, Sessions, Fresh
  <1>11. Window'
    BY <1>1, <1>4 DEF Inductive, Window, NotPast, Clock
  <1>12. Cause'
    BY <1>1, <1>3, ReaderTypes DEF Cause, Active
  <1>13. GateExact'
    BY <1>1, Frame
  <1> QED
    BY <1>6, <1>7, <1>8, <1>9, <1>10, <1>11, <1>12, <1>13 DEF Inductive

(* ... waits for input, ... *)
LEMMA AwaitStep ==
    ASSUME Inductive, NEW t \in Task, Await(t)
    PROVE  Inductive'
  <1>1. TypeOK'
    BY TypeStep DEF Next, Reader
  <1>2. /\ running = t /\ pc[t] = "top"
        /\ auth[session[t]] \/ TimeLeft(t) > 0
        /\ deadline' = [deadline EXCEPT ![t] = Deadline(t)]
        /\ pc' = [pc EXCEPT ![t] = "poll"]
        /\ running' = resumer /\ resumer' = EventLoop
        /\ UNCHANGED <<clock, network, pool, fd, session, accept_timestamp, packets,
                       objects, history>>
    BY DEF Await, At
  <1>3. \A u \in Task : u # t => pc[u] \notin Active
    BY <1>2 DEF Inductive, Control
  <1>4. \A u \in Task : Serving(u)' <=> Serving(u)
    BY <1>2, ReaderTypes DEF Serving
  <1>5. Control'
    <2>1. \A u \in Task : pc'[u] \notin Active
      BY <1>2, <1>3, ReaderTypes DEF Active
    <2>2. \A u \in Task : running' # u
      BY <1>2, ReaderTypes
    <2> QED
      BY <1>2, <2>1, <2>2 DEF Control
  <1>6. Pool'
    <2>1. \A u \in Task : pc'[u] = "yield" <=> pc[u] = "yield"
      BY <1>2, ReaderTypes
    <2> QED
      BY <1>2, <2>1, Frame
  <1>7. Owner'
    <2>1. \A u \in Task : pc'[u] \notin {"begin", "release"}
      BY <1>2, <1>3, ReaderTypes DEF Active
    <2> QED
      BY <1>2, <1>4, <2>1 DEF Inductive, Owner
  <1>8. Once'
    BY <1>2, Frame
  <1>9. Sessions'
    <2>1. \A u \in Task : pc'[u] # "begin"
      BY <1>2, <1>3, ReaderTypes DEF Active
    <2> QED
      BY <1>2, <2>1 DEF Inductive, Sessions, Fresh
  <1>10. Window'
    <2>1. ~auth[session[t]] =>
            /\ Deadline(t) # Never
            /\ Deadline(t)[1] = accept_timestamp[t] + TIMEOUT
            /\ NotPast(Deadline(t))
      <3> SUFFICES ASSUME ~auth[session[t]]
                   PROVE  /\ Deadline(t) # Never
                          /\ Deadline(t)[1] = accept_timestamp[t] + TIMEOUT
                          /\ NotPast(Deadline(t))
        OBVIOUS
      <3> DEFINE d == sec + TimeLeft(t)
      <3>1. Deadline(t) = <<d, tick>>
        BY DEF Deadline
      <3>2. d = accept_timestamp[t] + TIMEOUT /\ d > sec /\ d \in Nat
        <4>1. TimeLeft(t) > 0
          BY <1>2
        <4>2. accept_timestamp[t] \in Nat
          BY ReaderTypes
        <4> QED
          BY <4>1, <4>2, ReaderTypes DEF TimeLeft
      <3> HIDE DEF d
      <3>3. <<d, tick>>[1] = d /\ d # -1
        BY <3>2
      <3> QED
        BY <3>1, <3>2, <3>3 DEF NotPast
    <2>2. deadline'[t] = Deadline(t) /\ \A u \in Task : u # t => deadline'[u] = deadline[u]
      BY <1>2, ReaderTypes
    <2>3. \A u \in Task : u # t => pc'[u] = pc[u]
      BY <1>2, ReaderTypes
    <2>4. \A u \in Task : Serving(u)' /\ ~auth[session[u]] /\ pc'[u] = "poll" =>
            /\ deadline'[u] # Never
            /\ deadline'[u][1] = accept_timestamp[u] + TIMEOUT
            /\ NotPast(deadline'[u])
      BY <1>4, <2>1, <2>2, <2>3 DEF Inductive, Window
    <2> QED
      BY <1>2, <1>4, <2>4 DEF Inductive, Window, NotPast, Clock
  <1>11. Cause'
    BY <1>2, <1>3, ReaderTypes DEF Cause, Active
  <1>12. GateExact'
    BY <1>2, Frame
  <1> QED
    BY <1>1, <1>5, <1>6, <1>7, <1>8, <1>9, <1>10, <1>11, <1>12 DEF Inductive

(* ... wakes up. *)
LEMMA ResumeStep ==
    ASSUME Inductive, NEW t \in Task, Wake(t) \/ LongPollEnds(t)
    PROVE  Inductive'
  <1>1. TypeOK'
    BY TypeStep DEF Next
  <1>2. /\ running = EventLoop /\ pc[t] = "poll"
        /\ Readable(t) \/ Due(t) \/ deadline[t] = Never
        /\ pc' = [pc EXCEPT ![t] = "read"]
        /\ deadline' = [deadline EXCEPT ![t] = Never]
        /\ running' = t
        /\ UNCHANGED <<clock, network, pool, resumer, fd, session, accept_timestamp,
                       packets, objects, history>>
    BY DEF Wake, LongPollEnds, Parked, Resume
  <1>3. \A u \in Task : pc[u] \notin Active
    BY <1>2, ReaderTypes DEF Inductive, Control
  <1>4. \A u \in Task : Serving(u)' <=> Serving(u)
    BY <1>2, ReaderTypes DEF Serving
  <1>5. Control'
    BY <1>2, <1>3, ReaderTypes DEF Inductive, Control, Active
  <1>6. Pool'
    <2>1. \A u \in Task : pc'[u] = "yield" <=> pc[u] = "yield"
      BY <1>2, ReaderTypes
    <2> QED
      BY <1>2, <2>1, Frame
  <1>7. Owner'
    <2>1. \A u \in Task : pc'[u] \notin {"begin", "release"}
      BY <1>2, <1>3, ReaderTypes DEF Active
    <2> QED
      BY <1>2, <1>4, <2>1 DEF Inductive, Owner
  <1>8. Once'
    BY <1>2, Frame
  <1>9. Sessions'
    <2>1. \A u \in Task : pc'[u] # "begin"
      BY <1>2, <1>3, ReaderTypes DEF Active
    <2> QED
      BY <1>2, <2>1 DEF Inductive, Sessions, Fresh
  <1>10. Window'
    <2>1. \A u \in Task : pc'[u] = "poll" => pc[u] = "poll" /\ deadline'[u] = deadline[u]
      BY <1>2, ReaderTypes
    <2>2. \A u \in Task : Serving(u)' /\ ~auth[session[u]] /\ pc'[u] = "poll" =>
            /\ deadline'[u] # Never
            /\ deadline'[u][1] = accept_timestamp[u] + TIMEOUT
            /\ NotPast(deadline'[u])
      BY <1>4, <2>1 DEF Inductive, Window
    <2> QED
      BY <1>2, <1>4, <2>2 DEF Inductive, Window, NotPast, Clock
  <1>11. ~auth[session[t]] =>
            \/ inbox[session[t]] # << >> \/ peer[session[t]] \in {"fin", "rst"}
            \/ sec - accept_timestamp[t] >= TIMEOUT
    <2>1. Serving(t) /\ fdtab[fd[t]] = session[t]
      BY <1>2 DEF Inductive, Owner, Serving
    <2>2. CASE Readable(t)
      BY <2>1, <2>2 DEF Readable
    <2>3. CASE ~auth[session[t]] /\ ~Readable(t)
      <3>1. deadline[t] # Never /\ deadline[t][1] = accept_timestamp[t] + TIMEOUT
        BY <1>2, <2>1, <2>3 DEF Inductive, Window
      <3>2. deadline[t][1] <= sec
        BY SMTT(30), <1>2, <2>3, <3>1, ReaderTypes DEF Due
      <3>3. accept_timestamp[t] \in Nat
        BY ReaderTypes
      <3>4. accept_timestamp[t] + TIMEOUT <= sec
        BY <3>1, <3>2
      <3> QED
        BY <3>3, <3>4, ReaderTypes
    <2> QED
      BY <2>2, <2>3
  <1>12. Cause'
    <2>1. \A u \in Task : pc'[u] = "read" => u = t
      BY <1>2, <1>3, ReaderTypes DEF Active
    <2> QED
      BY <1>2, <1>11, <2>1 DEF Cause
  <1>13. GateExact'
    BY <1>2, Frame
  <1> QED
    BY <1>1, <1>5, <1>6, <1>7, <1>8, <1>9, <1>10, <1>12, <1>13 DEF Inductive

(* Steps that stay in the reader's loop: Read, HandlerDone and ReadAgain. *)
LEMMA LoopStep ==
    ASSUME Inductive, TypeOK', NEW t \in Task, running = t, pc[t] \in {"read", "packet"},
           NEW where \in {"top", "packet"}, Goto(t, where),
           UNCHANGED <<clock, backlog, fdtab, peer, pool, locals, objects, history>>
    PROVE  Inductive'
  <1>1. pc' = [pc EXCEPT ![t] = where] /\ UNCHANGED <<running, resumer>>
    BY DEF Goto
  <1>2. \A u \in Task : u # t => pc[u] \notin Active
    BY DEF Inductive, Control
  <1>3. \A u \in Task : Serving(u)' <=> Serving(u)
    BY <1>1, ReaderTypes DEF Serving
  <1>4. \A u \in Task : pc'[u] \notin {"begin", "release", "read"}
    BY <1>1, <1>2, ReaderTypes DEF Active
  <1>5. \A u \in Task : pc'[u] = "poll" => pc[u] = "poll"
    BY <1>1, ReaderTypes
  <1>6. Control'
    BY <1>1, ReaderTypes DEF Inductive, Control, Active
  <1>7. Pool'
    <2>1. \A u \in Task : pc'[u] = "yield" <=> pc[u] = "yield"
      BY <1>1, ReaderTypes
    <2> QED
      BY <2>1, Frame
  <1>8. Owner'
    BY <1>3, <1>4 DEF Inductive, Owner
  <1>9. Once'
    BY Frame
  <1>10. Sessions'
    BY <1>4 DEF Inductive, Sessions, Fresh
  <1>11. Window'
    BY <1>3, <1>5 DEF Inductive, Window, NotPast, Clock
  <1>12. Cause'
    BY <1>4 DEF Cause
  <1>13. GateExact'
    BY Frame
  <1> QED
    BY <1>6, <1>7, <1>8, <1>9, <1>10, <1>11, <1>12, <1>13 DEF Inductive

(* Suffixes, and the suffix of a longer sequence. *)
LEMMA SuffixProperties ==
    ASSUME NEW S, NEW s \in Seq(S), NEW k \in 0 .. Len(s)
    PROVE  /\ SubSeq(s, k + 1, Len(s)) \in Seq(S)
           /\ Len(SubSeq(s, k + 1, Len(s))) = Len(s) - k
           /\ \A i \in 1 .. Len(s) - k : SubSeq(s, k + 1, Len(s))[i] = s[k + i]
  <1>1. Len(s) \in Nat /\ k \in Int /\ k <= Len(s) /\ k + 1 \in Int
    BY LenProperties
  <1>2. \A i \in k + 1 .. Len(s) : s[i] \in S
    BY <1>1, ElementOfSeq
  <1> QED
    BY <1>1, <1>2, SubSeqProperties

(* The rest of a sequence, with one entry more. *)
LEMMA SuffixAppend ==
    ASSUME NEW S, NEW s \in Seq(S), NEW e \in S, NEW k \in 0 .. Len(s)
    PROVE  SubSeq(Append(s, e), k + 1, Len(s) + 1) = Append(SubSeq(s, k + 1, Len(s)), e)
  <1> DEFINE n == Len(s)
             s1 == Append(s, e)
             l == SubSeq(s1, k + 1, Len(s1))
             r == SubSeq(s, k + 1, n)
  <1>1. n \in Nat /\ k \in Int /\ k <= n
    BY LenProperties
  <1>2. /\ s1 \in Seq(S) /\ Len(s1) = n + 1 /\ s1[n + 1] = e
        /\ \A i \in 1 .. n : s1[i] = s[i]
    BY AppendProperties
  <1> HIDE DEF s1
  <1>3. k \in 0 .. Len(s1)
    BY <1>1, <1>2
  <1>4. /\ l \in Seq(S) /\ Len(l) = Len(s1) - k
        /\ \A i \in 1 .. Len(s1) - k : l[i] = s1[k + i]
    BY <1>2, <1>3, SuffixProperties
  <1>5. /\ r \in Seq(S) /\ Len(r) = n - k
        /\ \A i \in 1 .. n - k : r[i] = s[k + i]
    BY SuffixProperties
  <1> HIDE DEF l, r
  <1>6. /\ Append(r, e) \in Seq(S) /\ Len(Append(r, e)) = n - k + 1
        /\ \A i \in 1 .. n - k : Append(r, e)[i] = r[i]
        /\ Append(r, e)[n - k + 1] = e
    BY <1>5, AppendProperties
  <1>7. ASSUME NEW i \in 1 .. n - k + 1 PROVE l[i] = Append(r, e)[i]
    <2>1. l[i] = s1[k + i]
      BY <1>1, <1>2, <1>4
    <2>2. CASE i = n - k + 1
      <3>1. k + i = n + 1
        BY <1>1, <2>2
      <3> QED
        BY <2>1, <2>2, <3>1, <1>2, <1>6
    <2>3. CASE i # n - k + 1
      <3>1. i \in 1 .. n - k /\ k + i \in 1 .. n
        BY <1>1, <2>3
      <3> QED
        BY <2>1, <3>1, <1>2, <1>5, <1>6
    <2> QED
      BY <2>2, <2>3
  <1>8. l = Append(r, e)
    BY <1>1, <1>2, <1>4, <1>6, <1>7, SeqEqual
  <1> QED
    BY <1>2, <1>8 DEF l, r, s1

(* GateExact for one session, and what the callback does to it. *)
GateOf(a, r, d) ==
    /\ a <=> d # << >>
    /\ \E k \in 0 .. Len(r) :
          /\ d = SubSeq(r, k + 1, Len(r))
          /\ \A i \in 1 .. k : r[i] # TYPE_INIT
          /\ k < Len(r) => r[k + 1] = TYPE_INIT

(* The gate behind one more packet. *)
LEMMA GateOpened ==
    ASSUME NEW r \in Seq(Type), NEW d \in Seq(Type), NEW a \in BOOLEAN, NEW type \in Type,
           GateOf(a, r, d)
    PROVE  GateOf(a \/ type = TYPE_INIT, Append(r, type),
                  IF type = TYPE_INIT \/ a THEN Append(d, type) ELSE d)
  <1>1. PICK k \in 0 .. Len(r) : /\ d = SubSeq(r, k + 1, Len(r))
                                 /\ \A i \in 1 .. k : r[i] # TYPE_INIT
                                 /\ k < Len(r) => r[k + 1] = TYPE_INIT
    BY DEF GateOf
  <1> DEFINE n == Len(r)
             r1 == Append(r, type)
  <1>2. n \in Nat /\ k \in Nat /\ k <= n
    BY LenProperties
  <1>3. /\ r1 \in Seq(Type) /\ Len(r1) = n + 1 /\ r1[n + 1] = type
        /\ \A i \in 1 .. n : r1[i] = r[i]
    BY AppendProperties
  <1>4. SubSeq(r1, k + 1, n + 1) = Append(d, type)
    BY <1>1, SuffixAppend
  <1>5. Append(d, type) # << >>
    BY AppendProperties, EmptySeq, LenProperties
  <1>6. d = << >> => k = n
    <2> SUFFICES ASSUME d = << >>, k < n PROVE FALSE
      BY <1>2
    <2>1. Len(d) = n - k
      BY <1>1, SuffixProperties
    <2> QED
      BY <1>2, <2>1, EmptySeq
  <1> HIDE DEF r1
  <1>7. CASE type = TYPE_INIT \/ a
    <2>1. k < n + 1 => r1[k + 1] = TYPE_INIT
      <3>1. CASE k < n
        BY SMTT(30), <1>1, <1>2, <1>3, <3>1
      <3>2. CASE k = n
        <4>1. ~a => type = TYPE_INIT
          BY <1>7
        <4>2. a => d # << >>
          BY DEF GateOf
        <4>3. k = n => d = << >>
          BY <1>1, <1>2, SubSeqEmpty
        <4> QED
          BY <1>3, <3>2, <4>1, <4>2, <4>3
      <3> QED
        BY <1>2, <3>1, <3>2
    <2>2. \A i \in 1 .. k : r1[i] # TYPE_INIT
      BY SMTT(30), <1>1, <1>2, <1>3
    <2>3. k \in 0 .. Len(r1)
      BY <1>2, <1>3
    <2>4. GateOf(TRUE, r1, Append(d, type))
      BY <1>3, <1>4, <1>5, <2>1, <2>2, <2>3 DEF GateOf
    <2> QED
      BY <1>7, <2>4 DEF r1
  <1>8. CASE ~(type = TYPE_INIT \/ a)
    <2>1. d = << >> /\ k = n
      BY <1>6, <1>8 DEF GateOf
    <2>2. SubSeq(r1, n + 2, n + 1) = << >>
      BY <1>2, SubSeqEmpty
    <2>3. \A i \in 1 .. n + 1 : r1[i] # TYPE_INIT
      BY <1>1, <1>2, <1>3, <1>8, <2>1
    <2>4. n + 1 \in 0 .. Len(r1) /\ ~(n + 1 < Len(r1)) /\ (n + 1) + 1 = n + 2
      BY <1>2, <1>3
    <2>5. \E j \in 0 .. Len(r1) : /\ d = SubSeq(r1, j + 1, Len(r1))
                                  /\ \A i \in 1 .. j : r1[i] # TYPE_INIT
                                  /\ j < Len(r1) => r1[j + 1] = TYPE_INIT
      BY <1>3, <2>1, <2>2, <2>3, <2>4
    <2>6. GateOf(FALSE, r1, d)
      BY <2>1, <2>5 DEF GateOf
    <2> QED
      BY <1>8, <2>6 DEF r1
  <1> QED
    BY <1>7, <1>8

(* A reader handles what it has read, ... *)
LEMMA CallbackStep ==
    ASSUME Inductive, NEW t \in Task, Callback(t)
    PROVE  Inductive'
  <1> DEFINE c == session[t]
             type == Head(packets)
  <1>1. TypeOK'
    BY TypeStep DEF Next, Reader
  <1>2. /\ running = t /\ pc[t] = "packet" /\ packets # << >>
        /\ received' = [received EXCEPT ![c] = Append(@, type)]
        /\ dispatched' = [dispatched EXCEPT ![c] =
               IF Passes(c, type) THEN Append(@, type) ELSE @]
        /\ auth' = [auth EXCEPT ![c] = @ \/ type = TYPE_INIT]
        /\ UNCHANGED <<clock, network, pool, pc, running, resumer, locals,
                       connections, sid>>
    BY DEF Callback, At
  <1>3. c \in Conn /\ Serving(t) /\ fdtab[fd[t]] = c /\ fd[t] = task_fd[t] /\ fd[t] \in Fd
        /\ c # NoConn
    <2>1. Serving(t) /\ c \in Conn /\ fdtab[fd[t]] = c /\ fd[t] = task_fd[t]
      BY <1>2 DEF Inductive, Owner, Serving
    <2>2. task_fd[t] \in Fd
      BY <1>2, ReaderTypes DEF Inductive, Pool
    <2> QED
      BY <2>1, <2>2, ConnAssumption
  <1>4. packets \in Seq(Type) /\ type \in Type
    BY <1>2, SuffixType DEF Inductive, TypeOK
  <1>5. /\ received \in [Conn -> Seq(Type)] /\ dispatched \in [Conn -> Seq(Type)]
        /\ auth \in [Conn -> BOOLEAN]
    BY DEF Inductive, TypeOK
  <1>6. \A d \in Conn : auth[d] => auth'[d]
    BY <1>2, <1>5
  <1>7. \A u \in Task : pc[u] # "begin" /\ pc[u] # "read"
    BY <1>2 DEF Inductive, Control, Active
  <1>8. peer[c] # "new" /\ \A i \in 1 .. Len(backlog) : backlog[i] # c /\ backlog[i] \in Conn
    <2>1. \A i \in 1 .. Len(backlog) : backlog[i] \in Conn
      BY ElementOfSeq DEF Inductive, TypeOK
    <2> QED
      BY <1>3, <2>1 DEF Inductive, Once
  <1> HIDE DEF c, type
  <1>9. Control' /\ Pool' /\ Owner' /\ Once'
    BY <1>2, Frame
  <1>10. Sessions'
    <2>1. \A d \in Conn : d # c /\ Fresh(d) => Fresh(d)'
      BY <1>2, <1>5 DEF Fresh
    <2>2. \A d \in Conn : peer'[d] = "new" => Fresh(d)'
      BY <1>2, <1>8, <2>1 DEF Inductive, Sessions
    <2>3. \A i \in 1 .. Len(backlog) : Fresh(backlog[i])'
      <3> SUFFICES ASSUME NEW i \in 1 .. Len(backlog) PROVE Fresh(backlog[i])'
        OBVIOUS
      <3>1. backlog[i] \in Conn /\ backlog[i] # c /\ Fresh(backlog[i])
        BY <1>8 DEF Inductive, Sessions
      <3> QED
        BY <1>2, <1>5, <3>1 DEF Fresh
    <2> QED
      BY <1>2, <1>7, <2>2, <2>3 DEF Sessions, Fresh
  <1>11. Window'
    <2>1. \A u \in Task : Serving(u) => session[u] \in Conn
      BY DEF Inductive, Owner
    <2>2. \A u \in Task : Serving(u) /\ ~auth'[session[u]] => ~auth[session[u]]
      BY <1>6, <2>1
    <2> QED
      BY <1>2, <2>2 DEF Inductive, Window, NotPast, Clock, Serving
  <1>12. Cause'
    BY <1>2, <1>7 DEF Cause
  <1>13. GateExact'
    <2>1. \A d \in Conn : GateOf(auth[d], received[d], dispatched[d])
      BY DEF Inductive, GateExact, GateOf
    <2>2. GateOf(auth'[c], received'[c], dispatched'[c])
      <3>1. /\ auth'[c] = (auth[c] \/ type = TYPE_INIT)
            /\ received'[c] = Append(received[c], type)
            /\ dispatched'[c] = IF type = TYPE_INIT \/ auth[c]
                                THEN Append(dispatched[c], type) ELSE dispatched[c]
        BY <1>2, <1>3, <1>5 DEF Passes
      <3>2. /\ received[c] \in Seq(Type) /\ dispatched[c] \in Seq(Type)
            /\ auth[c] \in BOOLEAN
        BY <1>3, <1>5
      <3> QED
        BY <1>3, <1>4, <2>1, <3>1, <3>2, GateOpened
    <2>3. \A d \in Conn : d # c => GateOf(auth'[d], received'[d], dispatched'[d])
      BY <1>2, <1>5, <2>1
    <2> QED
      BY <2>2, <2>3 DEF GateExact, GateOf
  <1> QED
    BY <1>1, <1>9, <1>10, <1>11, <1>12, <1>13 DEF Inductive

(* ... and is given back. *)
LEMMA ReleaseStep ==
    ASSUME Inductive, NEW t \in Task, Release(t)
    PROVE  Inductive'
  <1>1. TypeOK'
    BY TypeStep DEF Next, Reader
  <1>2. /\ running = t /\ pc[t] = "release"
        /\ task_fd' = [task_fd EXCEPT ![t] = NoFd]
        /\ m_tasks' = Append(m_tasks, t)
        /\ pc' = [pc EXCEPT ![t] = "yield"]
        /\ running' = resumer /\ resumer' = EventLoop
        /\ fd' = [fd EXCEPT ![t] = NoFd]
        /\ session' = [session EXCEPT ![t] = NoConn]
        /\ accept_timestamp' = [accept_timestamp EXCEPT ![t] = 0]
        /\ deadline' = [deadline EXCEPT ![t] = Never]
        /\ UNCHANGED <<clock, network, packets, objects, history>>
    BY DEF Release, At, Pushed
  <1>3. \A u \in Task : u # t => pc[u] \notin Active
    BY <1>2 DEF Inductive, Control
  <1>4. task_fd[t] \in Fd /\ task_fd[t] # NoFd /\ fdtab[task_fd[t]] = NoConn /\ ~Pooled(t)
    <2>1. task_fd[t] # NoFd /\ fdtab[task_fd[t]] = NoConn
      BY <1>2 DEF Inductive, Pool, Owner
    <2> QED
      BY <2>1, ReaderTypes DEF Inductive, Pool
  <1>5. \A u \in Task : Serving(u)' =>
            /\ u # t /\ Serving(u) /\ pc'[u] = pc[u]
            /\ fd'[u] = fd[u] /\ task_fd'[u] = task_fd[u] /\ session'[u] = session[u]
            /\ accept_timestamp'[u] = accept_timestamp[u] /\ deadline'[u] = deadline[u]
    BY <1>2, ReaderTypes DEF Serving
  <1>6. Control'
    <2>1. \A u \in Task : pc'[u] \notin Active
      BY <1>2, <1>3, ReaderTypes DEF Active
    <2>2. \A u \in Task : running' # u
      BY <1>2, ReaderTypes
    <2> QED
      BY <1>2, <2>1, <2>2 DEF Control
  <1>7. Pool'
    <2>1. /\ Len(m_tasks) \in Nat /\ Len(m_tasks') = Len(m_tasks) + 1
          /\ \A i \in 1 .. Len(m_tasks) : m_tasks'[i] = m_tasks[i]
          /\ m_tasks'[Len(m_tasks) + 1] = t
      <3>1. m_tasks \in Seq(Task)
        BY DEF Inductive, TypeOK
      <3> QED
        BY <1>2, <3>1, AppendProperties, LenProperties
    <2>2. \A i \in 1 .. Len(m_tasks) : m_tasks[i] # t
      BY <1>4 DEF Pooled
    <2>3. \A i, j \in 1 .. Len(m_tasks') : m_tasks'[i] = m_tasks'[j] => i = j
      BY <2>1, <2>2 DEF Inductive, Pool
    <2>4. \A u \in Task : Pooled(u)' <=> Pooled(u) \/ u = t
      BY <2>1 DEF Pooled
    <2>5. \A u \in Task : Pooled(u)' <=> task_fd'[u] = NoFd
      BY <1>2, <2>4, ReaderTypes DEF Inductive, Pool
    <2>6. \A u \in Task : pc'[u] = "yield" <=> task_fd'[u] = NoFd
      BY <1>2, ReaderTypes DEF Inductive, Pool
    <2> QED
      BY <2>3, <2>5, <2>6 DEF Pool
  <1>8. Owner'
    <2>1. \A u, w \in Task : task_fd'[u] = task_fd'[w] /\ u # w => task_fd'[u] = NoFd
      BY <1>2, ReaderTypes DEF Inductive, Owner
    <2>2. \A g \in Fd : fdtab'[g] # NoConn => \E u \in Task : task_fd'[u] = g
      <3> SUFFICES ASSUME NEW g \in Fd, fdtab[g] # NoConn
                   PROVE  \E u \in Task : task_fd'[u] = g
        BY <1>2
      <3>1. PICK u \in Task : task_fd[u] = g
        BY DEF Inductive, Owner
      <3>2. u # t
        BY <1>4, <3>1
      <3> QED
        BY <1>2, <3>1, <3>2, ReaderTypes
    <2>3. \A u \in Task : pc'[u] \notin {"begin", "release"}
      BY <1>2, <1>3, ReaderTypes DEF Active
    <2>4. \A u \in Task : Serving(u)' => /\ fd'[u] = task_fd'[u]
                                        /\ session'[u] \in Conn
                                        /\ fdtab'[fd'[u]] = session'[u]
      BY <1>2, <1>5 DEF Inductive, Owner
    <2> QED
      BY <2>1, <2>2, <2>3, <2>4 DEF Owner
  <1>9. Once'
    BY <1>2, Frame
  <1>10. Sessions'
    <2>1. \A u \in Task : pc'[u] # "begin"
      BY <1>2, <1>3, ReaderTypes DEF Active
    <2> QED
      BY <1>2, <2>1 DEF Inductive, Sessions, Fresh
  <1>11. Window'
    <2>1. \A u \in Task : Serving(u)' =>
            /\ sid'[session'[u]] \in Clock
            /\ accept_timestamp'[u] = sid'[session'[u]][1]
      BY <1>2, <1>5 DEF Inductive, Window
    <2>2. \A u \in Task : Serving(u)' /\ ~auth'[session'[u]] /\ pc'[u] = "poll" =>
            /\ deadline'[u] # Never
            /\ deadline'[u][1] = accept_timestamp'[u] + TIMEOUT
            /\ NotPast(deadline'[u])
      BY <1>2, <1>5 DEF Inductive, Window
    <2>3. \A u \in Task : Serving(u)' /\ ~auth'[session'[u]] =>
            sec' <= accept_timestamp'[u] + TIMEOUT
      BY <1>2, <1>5 DEF Inductive, Window
    <2> QED
      BY <1>2, <2>1, <2>2, <2>3 DEF Window, NotPast, Clock
  <1>12. Cause'
    BY <1>2, <1>3, ReaderTypes DEF Cause, Active
  <1>13. GateExact'
    BY <1>2, Frame
  <1> QED
    BY <1>1, <1>6, <1>7, <1>8, <1>9, <1>10, <1>11, <1>12, <1>13 DEF Inductive

-----------------------------------------------------------------------------
(* The inductive invariant, and what follows from it.                      *)

(* It holds once init() and start() have run. *)
LEMMA InitInductive ==
    Init => Inductive
  <1> SUFFICES ASSUME Init PROVE Inductive
    OBVIOUS
  <1> USE CountAssumption, TimeAssumption, FdAssumption, BoundAssumption DEF Init
  <1>1. m_tasks \in Seq(Task) /\ Len(m_tasks) = MAX_ACCEPT_COUNT
        /\ \A i \in Task : m_tasks[i] = i
    BY DEF AllTasks
  <1>2. TypeOK
    <2>1. /\ backlog \in Seq(Conn) /\ packets \in Seq(Type)
          /\ inbox \in [Conn -> Seq(Chunk)]
          /\ received \in [Conn -> Seq(Type)] /\ dispatched \in [Conn -> Seq(Type)]
      BY EmptySeq
    <2>2. DOMAIN connections \subseteq Clock /\ connections \in [DOMAIN connections -> Conn]
      OBVIOUS
    <2> QED
      BY <1>1, <2>1, <2>2 DEF TypeOK
  <1>3. Control
    BY DEF Control, Active
  <1>4. Pool
    BY <1>1 DEF Pool, Pooled
  <1>5. Owner
    BY DEF Owner, Serving
  <1>6. Once /\ Sessions
    BY EmptySeq DEF Once, Sessions, Fresh
  <1>7. Window /\ Cause
    BY DEF Window, Cause, Serving
  <1>8. GateExact
    <2>1. Len(<< >>) = 0 /\ SubSeq(<< >>, 0 + 1, 0) = << >>
      BY SubSeqEmpty
    <2> QED
      BY <2>1 DEF GateExact
  <1> QED
    BY <1>2, <1>3, <1>4, <1>5, <1>6, <1>7, <1>8 DEF Inductive

(* Every step preserves it: one lemma above per action. *)
LEMMA StepInductive ==
    Inductive /\ [Next]_vars => Inductive'
  <1> SUFFICES ASSUME Inductive, [Next]_vars PROVE Inductive'
    OBVIOUS
  <1>1. TypeOK'
    BY TypeStep
  <1>2. ASSUME NEW t \in Task, Reader(t) PROVE Inductive'
    <2>1. CASE Expire(t) \/ ReadEnd(t) \/ ReadTimeout(t)
      BY <1>1, <2>1, CloseStep DEF Expire, ReadEnd, ReadTimeout, NothingRead, At
    <2>2. CASE Read(t) \/ HandlerDone(t) \/ ReadAgain(t)
      <3>1. /\ running = t /\ pc[t] \in {"read", "packet"}
            /\ Goto(t, "top") \/ Goto(t, "packet")
            /\ UNCHANGED <<clock, backlog, fdtab, peer, pool, locals, objects, history>>
        BY <2>2 DEF Read, HandlerDone, ReadAgain, NothingRead, At
      <3> QED
        BY <1>1, <3>1, LoopStep
    <2> QED
      BY <1>2, <2>1, <2>2, BeginStep, AwaitStep, CallbackStep, ReleaseStep DEF Reader
  <1>3. CASE UNCHANGED vars
    <2>1. UNCHANGED <<clock, network, pool, pc, running, resumer, locals, objects, history>>
      BY <1>3 DEF vars
    <2> QED
      BY <1>1, <2>1, Frame DEF Inductive
  <1>4. CASE Environment
    BY <1>4, ConnectStep, SendStep, HangupStep, TickStep DEF Environment
  <1>5. CASE Accepting
    BY <1>5, AcceptorStep, RefuseStep, AcceptStep DEF Accepting
  <1>6. ASSUME NEW t \in Task, Wake(t) \/ LongPollEnds(t) PROVE Inductive'
    BY <1>6, ResumeStep
  <1> QED
    BY <1>2, <1>3, <1>4, <1>5, <1>6 DEF Next, IdleLoop

(* The inductive invariant holds of every behaviour. *)
THEOREM InductiveInvariant == Spec => []Inductive
  BY InitInductive, StepInductive, PTL DEF Spec

(* Every variable keeps its type. *)
THEOREM TypeCorrect == Spec => []TypeOK
  <1>1. Inductive => TypeOK
    BY DEF Inductive
  <1> QED
    BY <1>1, InductiveInvariant, PTL

(* The idle stack and the busy readers partition the readers. *)
THEOREM PoolCorrect == Spec => []PoolPartition
  <1>1. Inductive => PoolPartition
    BY DEF Inductive, Pool, PoolPartition
  <1> QED
    BY <1>1, InductiveInvariant, PTL

(* Descriptors are exclusive, never leaked, and never another client's. *)
THEOREM DescriptorsOwned == Spec => []DescriptorOwnership
  <1>1. Inductive => DescriptorOwnership
    BY DEF Inductive, Owner, DescriptorOwnership
  <1> QED
    BY <1>1, InductiveInvariant, PTL

(* What is dispatched is what is received from the first TYPE_INIT on. *)
THEOREM GateCorrect == Spec => []GateExact
  <1>1. Inductive => GateExact
    BY DEF Inductive
  <1> QED
    BY <1>1, InductiveInvariant, PTL

(* An unauthenticated client is gone by the end of its last second. *)
THEOREM WindowCorrect == Spec => []AuthWindow
  <1>1. Inductive => AuthWindow
    <2> SUFFICES ASSUME Inductive, NEW t \in Task, Serving(t), ~auth[session[t]]
                 PROVE  sec <= sid[session[t]][1] + TIMEOUT
      BY DEF AuthWindow
    <2> QED
      BY DEF Inductive, Window
  <1> QED
    BY <1>1, InductiveInvariant, PTL

(* A step that closes a connection is a step of the reader that serves it, *)
(* from the top of its loop or from a read.                                *)
LEMMA CloseCauses ==
    ASSUME Inductive, [Next]_vars, NEW c \in Conn, IsOpen(c), ~IsOpen(c)'
    PROVE  \E t \in Task : session[t] = c /\ (Expire(t) \/ ReadEnd(t) \/ ReadTimeout(t))
  <1>1. PICK f \in Fd : fdtab[f] = c
    BY DEF IsOpen
  <1>2. fdtab'[f] # c
    BY DEF IsOpen
  <1>3. ~UNCHANGED fdtab
    BY <1>1, <1>2
  <1>4. \A g \in Fd : ~Accept(g)
    <2> SUFFICES ASSUME NEW g \in Fd, Accept(g) PROVE FALSE
      OBVIOUS
    <2>1. fdtab[g] = NoConn /\ fdtab' = [fdtab EXCEPT ![g] = Head(backlog)]
      BY DEF Accept, IsLowest, FreeFd
    <2> QED
      BY <1>1, <1>2, <2>1, ReaderTypes, ConnAssumption
  <1>5. PICK t \in Task : Expire(t) \/ ReadEnd(t) \/ ReadTimeout(t)
    BY <1>3, <1>4 DEF Next, Environment, Connect, Send, Hangup, Tick, Accepting, AcceptWake,
       AcceptFail, AcceptRefuse, Reader, Begin, Await, Read, Callback, HandlerDone,
       ReadAgain, Release, Wake, LongPollEnds, Resume, IdleLoop, vars
  <1>6. fdtab' = [fdtab EXCEPT ![fd[t]] = NoConn] /\ pc[t] \in {"top", "read"}
    BY <1>5 DEF Expire, ReadEnd, ReadTimeout, NothingRead, Close, Closed, At
  <1>7. fd[t] = f
    BY <1>1, <1>2, <1>6, ReaderTypes
  <1>8. session[t] = c
    BY <1>1, <1>6, <1>7 DEF Inductive, Owner, Serving
  <1> QED
    BY <1>5, <1>8

(* The server hangs up on a client that is there only for want of          *)
(* authentication, and not before its time.                                *)
THEOREM ClosedCorrect == Spec => ClosedForCause
  <1>1. Inductive /\ [Next]_vars =>
          [\A c \in Conn : IsOpen(c) /\ ~IsOpen(c)' /\ Alive(c) =>
               ~auth[c] /\ sec - sid[c][1] >= TIMEOUT]_vars
    <2> SUFFICES ASSUME Inductive, [Next]_vars,
                        NEW c \in Conn, IsOpen(c), ~IsOpen(c)', Alive(c)
                 PROVE  ~auth[c] /\ sec - sid[c][1] >= TIMEOUT
      OBVIOUS
    <2>1. PICK t \in Task : session[t] = c /\ (Expire(t) \/ ReadEnd(t) \/ ReadTimeout(t))
      BY CloseCauses
    <2>2. /\ pc[t] \in {"top", "read"} /\ Serving(t) /\ fdtab[fd[t]] = c
          /\ accept_timestamp[t] = sid[c][1]
      BY <2>1 DEF Expire, ReadEnd, ReadTimeout, NothingRead, At, Serving, Inductive,
                  Owner, Window
    <2>3. accept_timestamp[t] \in Nat /\ sec \in Nat /\ TIMEOUT \in Nat
      BY ReaderTypes
    <2>4. ~ReadEnd(t)
      BY <2>2 DEF ReadEnd, Alive
    <2>5. CASE Expire(t)
      <3>1. ~auth[c] /\ TimeLeft(t) <= 0
        BY <2>1, <2>5 DEF Expire
      <3>2. sec - accept_timestamp[t] >= TIMEOUT
        BY <2>3, <3>1 DEF TimeLeft
      <3> QED
        BY <2>2, <3>1, <3>2
    <2>6. CASE ReadTimeout(t)
      <3>1. ~auth[c] /\ inbox[c] = << >> /\ peer[c] = "up" /\ pc[t] = "read"
        BY <2>1, <2>2, <2>6 DEF ReadTimeout, NothingRead, At
      <3>2. sec - accept_timestamp[t] >= TIMEOUT
        BY <2>1, <3>1 DEF Inductive, Cause
      <3> QED
        BY <2>2, <3>1, <3>2
    <2> QED
      BY <2>1, <2>4, <2>5, <2>6
  <1> QED
    BY <1>1, InductiveInvariant, PTL DEF Spec, ClosedForCause

-----------------------------------------------------------------------------
(* With the event loop at work the busy readers sleep in co_poll, and each *)
(* of them has an open connection of its own: what debug() counts.         *)
Idle == {t \in Task : Pooled(t)}

(* The idle stack counts the idle readers. *)
LEMMA StackCount ==
    ASSUME Inductive
    PROVE  IsFiniteSet(Idle) /\ Cardinality(Idle) = Len(m_tasks)
  <1> DEFINE n == Len(m_tasks)
             F == [i \in 1 .. n |-> m_tasks[i]]
  <1>1. n \in Nat /\ m_tasks \in Seq(Task)
    BY LenProperties DEF Inductive, TypeOK
  <1>2. \A i \in 1 .. n : m_tasks[i] \in Idle
    BY <1>1, ElementOfSeq DEF Idle, Pooled
  <1>3. F \in [1 .. n -> Idle]
    BY <1>2
  <1>4. \A i, j \in 1 .. n : F[i] = F[j] => i = j
    BY DEF Inductive, Pool
  <1>5. \A t \in Idle : \E i \in 1 .. n : F[i] = t
    BY DEF Idle, Pooled
  <1> HIDE DEF F, n
  <1>6. F \in Bijection(1 .. n, Idle)
    BY <1>3, <1>4, <1>5, Fun_IsBij
  <1>7. ExistsBijection(1 .. n, Idle)
    BY <1>6, Fun_ExistsBij
  <1>8. IsFiniteSet(1 .. n) /\ Cardinality(1 .. n) = n
    BY <1>1, FS_Interval
  <1> QED
    BY <1>7, <1>8, FS_Bijection DEF n

(* So the number debug() prints is that of the busy ones. *)
LEMMA CountFollows == Inductive => DebugCount
  <1> DEFINE Busy == Task \ Idle
             Open == {c \in Conn : IsOpen(c)}
             F    == [t \in Busy |-> session[t]]
  <1> SUFFICES ASSUME Inductive, running = EventLoop
               PROVE  MAX_ACCEPT_COUNT - Len(m_tasks) = Cardinality(Open)
    BY DEF DebugCount
  <1>1. \A t \in Task : running # t
    BY CountAssumption DEF Task, EventLoop
  <1>2. \A t \in Busy : /\ t \in Task /\ pc[t] = "poll" /\ task_fd[t] # NoFd
                       /\ fd[t] = task_fd[t] /\ fd[t] \in Fd
                       /\ session[t] \in Conn /\ fdtab[fd[t]] = session[t]
    <2> TAKE t \in Busy
    <2>1. t \in Task /\ ~Pooled(t)
      BY DEF Idle
    <2>2. task_fd[t] # NoFd /\ pc[t] # "yield"
      BY <2>1 DEF Inductive, Pool
    <2>3. pc[t] = "poll"
      BY <1>1, <2>1, <2>2 DEF Inductive, Control, Active, TypeOK
    <2>4. fd[t] = task_fd[t] /\ session[t] \in Conn /\ fdtab[fd[t]] = session[t]
      BY <2>1, <2>3 DEF Inductive, Owner, Serving
    <2>5. fd[t] \in Fd
      BY <2>1, <2>2, <2>4 DEF Inductive, TypeOK
    <2> QED
      BY <2>1, <2>2, <2>3, <2>4, <2>5
  <1>3. \A t \in Busy : session[t] \in Open
    BY <1>2 DEF IsOpen
  <1>4. \A t, u \in Busy : session[t] = session[u] => t = u
    <2> TAKE t, u \in Busy
    <2> HAVE session[t] = session[u]
    <2>1. fdtab[fd[t]] = fdtab[fd[u]] /\ fdtab[fd[t]] # NoConn
      BY <1>2, ConnAssumption
    <2>2. fd[t] = fd[u]
      BY <1>2, <2>1 DEF Inductive, Once
    <2> QED
      BY <1>2, <2>2 DEF Inductive, Owner
  <1>5. ASSUME NEW c \in Open PROVE \E t \in Busy : session[t] = c
    <2>1. PICK f \in Fd : fdtab[f] = c
      BY DEF IsOpen
    <2>2. c # NoConn
      BY ConnAssumption
    <2>3. PICK t \in Task : task_fd[t] = f
      BY <2>1, <2>2 DEF Inductive, Owner
    <2>4. f # NoFd
      BY FdAssumption DEF NoFd
    <2>5. t \in Busy
      BY <2>3, <2>4 DEF Inductive, Pool, Idle
    <2> QED
      BY <1>2, <2>1, <2>3, <2>5
  <1>6. F \in Bijection(Busy, Open)
    <2>1. F \in [Busy -> Open]
      BY <1>3
    <2>2. \A t, u \in Busy : F[t] = F[u] => t = u
      BY <1>4
    <2>3. \A c \in Open : \E t \in Busy : F[t] = c
      BY <1>5
    <2> HIDE DEF F, Open, Busy
    <2> QED
      BY <2>1, <2>2, <2>3, Fun_IsBij
  <1>7. ExistsBijection(Busy, Open)
    BY <1>6, Fun_ExistsBij
  <1>8. IsFiniteSet(Task) /\ Cardinality(Task) = MAX_ACCEPT_COUNT
    BY CountAssumption, FS_Interval DEF Task
  <1>9. IsFiniteSet(Busy) /\ Cardinality(Busy) = Cardinality(Task) - Cardinality(Task \cap Idle)
    BY <1>8, FS_Difference
  <1>10. Task \cap Idle = Idle
    BY DEF Idle
  <1>11. Cardinality(Idle) = Len(m_tasks)
    BY StackCount
  <1>12. Cardinality(Open) = Cardinality(Busy)
    BY <1>7, <1>9, FS_Bijection
  <1> QED
    BY <1>8, <1>9, <1>10, <1>11, <1>12

(* The connections that debug() prints are the open ones. *)
THEOREM DebugCorrect == Spec => []DebugCount
  BY CountFollows, InductiveInvariant, PTL

-----------------------------------------------------------------------------
(***************************************************************************)
(* ServerChannel implements Gateway for every value of the constants: the  *)
(* initial states map to initial states, and every step of the code maps   *)
(* to a step of the promise or to a stutter.                               *)
(***************************************************************************)

arrived == {c \in Conn : peer[c] # "new"}
gone    == {c \in Conn : peer[c] \in {"fin", "rst"}}
slot    == [t \in Task |-> SlotOf(t)]

pvars == <<arrived, gone, backlog, slot, dispatched>>

USE DEF arrived, gone, slot, clock, network, pool, locals, objects, history,
        Task, EventLoop, Acceptor, NoFd

(* Initial states map to initial states. *)
LEMMA InitMaps ==
    Init => Promise!Init
  BY CountAssumption DEF Init, Promise!Init, SlotOf

(* A connection reaches the listen queue. *)
LEMMA ConnectMaps ==
    ASSUME Inductive, NEW c \in Conn, Connect(c)
    PROVE  Promise!Arrive(c)
  <1>1. peer \in [Conn -> {"new", "up", "fin", "rst"}] /\ peer' = [peer EXCEPT ![c] = "up"]
        /\ peer[c] = "new"
    BY DEF Inductive, TypeOK, Connect
  <1>2. arrived' = arrived \cup {c} /\ gone' = gone /\ c \notin arrived
    BY <1>1
  <1>3. slot' = slot
    BY DEF Connect, SlotOf
  <1> QED
    BY <1>2, <1>3 DEF Promise!Arrive, Connect

(* A client closes or resets its end. *)
LEMMA HangupMaps ==
    ASSUME Inductive, NEW c \in Conn, NEW how \in {"fin", "rst"}, Hangup(c, how)
    PROVE  Promise!Depart(c)
  <1>1. peer \in [Conn -> {"new", "up", "fin", "rst"}] /\ peer' = [peer EXCEPT ![c] = how]
        /\ peer[c] = "up"
    BY DEF Inductive, TypeOK, Hangup
  <1>2. arrived' = arrived /\ gone' = gone \cup {c} /\ c \in arrived
    BY <1>1
  <1>3. slot' = slot
    BY DEF Hangup, SlotOf
  <1> QED
    BY <1>2, <1>3 DEF Promise!Depart, Hangup

(* A connection is refused: no reader is idle, so every slot is taken. *)
LEMMA RefuseMaps ==
    ASSUME Inductive, AcceptRefuse
    PROVE  Promise!Refuse
  <1>1. \A t \in Task : pc[t] \notin Active /\ ~Pooled(t)
    BY CountAssumption DEF AcceptRefuse, PoolFull, Pooled, Inductive, Control
  <1>2. \A t \in Task : task_fd[t] # NoFd /\ pc[t] = "poll"
    BY <1>1, ReaderTypes DEF Inductive, Pool
  <1>3. \A t \in Task : SlotOf(t) # NoConn
    BY <1>2, ConnAssumption DEF SlotOf, Inductive, Owner, Serving
  <1>4. arrived' = arrived /\ gone' = gone /\ slot' = slot
    BY DEF AcceptRefuse, SlotOf
  <1> QED
    BY <1>3, <1>4 DEF Promise!Refuse, AcceptRefuse

(* The first in the queue gets the slot of the reader on top. *)
LEMMA AcceptMaps ==
    ASSUME Inductive, NEW f \in Fd, Accept(f)
    PROVE  Top \in Task /\ Promise!Admit(Top)
  <1> DEFINE u == Top
             c == Head(backlog)
  <1>1. u \in Task /\ task_fd[u] = NoFd
    BY TopIdle DEF Accept
  <1>2. /\ fdtab' = [fdtab EXCEPT ![f] = c] /\ fdtab[f] = NoConn
        /\ task_fd' = [task_fd EXCEPT ![u] = f] /\ f # NoFd
        /\ backlog # << >> /\ backlog' = Tail(backlog)
        /\ running = Acceptor /\ UNCHANGED <<peer, dispatched>>
    BY FdAssumption DEF Accept, IsLowest, FreeFd
  <1> HIDE DEF u, c
  <1>3. \A t \in Task : pc[t] \notin Active
    BY <1>2, CountAssumption DEF Inductive, Control
  <1>4. \A t \in Task : task_fd[t] # f
    <2> SUFFICES ASSUME NEW t \in Task, task_fd[t] = f PROVE FALSE
      OBVIOUS
    <2>1. pc[t] = "poll"
      BY <1>2, <1>3, ReaderTypes DEF Inductive, Pool
    <2> QED
      BY <1>2, <2>1, ConnAssumption DEF Inductive, Owner, Serving
  <1>5. \A t \in Task : SlotOf(t)' = IF t = u THEN c ELSE SlotOf(t)
    BY <1>1, <1>2, <1>4, ReaderTypes DEF SlotOf
  <1>6. slot' = [slot EXCEPT ![u] = c] /\ slot[u] = NoConn
    BY <1>1, <1>5 DEF SlotOf
  <1>7. arrived' = arrived /\ gone' = gone
    BY <1>2
  <1> QED
    BY <1>1, <1>2, <1>6, <1>7 DEF Promise!Admit, u, c

(* The reader closes: its slot is free, and an authenticated client is     *)
(* gone.                                                                   *)
LEMMA CloseMaps ==
    ASSUME Inductive, NEW t \in Task, Expire(t) \/ ReadEnd(t) \/ ReadTimeout(t)
    PROVE  Promise!Leave(t)
  <1> DEFINE c == session[t]
  <1>1. /\ running = t /\ pc[t] \in {"top", "read"} /\ Close(t)
    BY DEF Expire, ReadEnd, ReadTimeout, NothingRead, At
  <1>2. /\ fdtab' = [fdtab EXCEPT ![fd[t]] = NoConn]
        /\ UNCHANGED <<peer, backlog, task_fd, dispatched>>
    BY <1>1 DEF Close, Closed
  <1>3. c \in Conn /\ fdtab[fd[t]] = c /\ fd[t] = task_fd[t]
    BY <1>1 DEF Inductive, Owner, Serving
  <1>4. task_fd[t] \in Fd /\ task_fd[t] # NoFd
    BY <1>1, ReaderTypes, FdAssumption DEF Inductive, Pool
  <1>5. \A u \in Task : u # t => task_fd[u] # task_fd[t]
    BY <1>4 DEF Inductive, Owner
  <1>6. \A u \in Task : SlotOf(u)' = IF u = t THEN NoConn ELSE SlotOf(u)
    BY <1>2, <1>3, <1>4, <1>5, ReaderTypes DEF SlotOf
  <1>7. slot' = [slot EXCEPT ![t] = NoConn] /\ slot[t] = c
    BY <1>3, <1>4, <1>6 DEF SlotOf
  <1>8. dispatched[c] # << >> => c \in gone
    <2>1. CASE ReadEnd(t)
      BY <1>3, <2>1 DEF ReadEnd
    <2>2. CASE Expire(t) \/ ReadTimeout(t)
      <3>1. ~auth[c]
        BY <2>2 DEF Expire, ReadTimeout
      <3> QED
        BY <1>3, <3>1 DEF Inductive, GateExact
    <2> QED
      BY <2>1, <2>2
  <1>9. arrived' = arrived /\ gone' = gone
    BY <1>2
  <1> QED
    BY <1>2, <1>3, <1>7, <1>8, <1>9, ConnAssumption DEF Promise!Leave

(* The callback forwards the packet, or drops it. *)
LEMMA CallbackMaps ==
    ASSUME Inductive, NEW t \in Task, Callback(t)
    PROVE  (\E type \in Type : Promise!Forward(t, type)) \/ UNCHANGED pvars
  <1> DEFINE c == session[t]
             type == Head(packets)
  <1>1. /\ pc[t] = "packet" /\ packets # << >>
        /\ dispatched' = [dispatched EXCEPT ![c] =
               IF Passes(c, type) THEN Append(@, type) ELSE @]
        /\ UNCHANGED <<peer, backlog, task_fd, fdtab>>
    BY DEF Callback, At
  <1>2. c \in Conn /\ fdtab[fd[t]] = c /\ fd[t] = task_fd[t] /\ task_fd[t] # NoFd
    BY <1>1 DEF Inductive, Owner, Serving, Pool
  <1>3. type \in Type
    BY <1>1, SuffixType DEF Inductive, TypeOK
  <1>4. slot[t] = c /\ slot' = slot /\ arrived' = arrived /\ gone' = gone
    BY <1>1, <1>2 DEF SlotOf
  <1>5. dispatched \in [Conn -> Seq(Type)]
    BY DEF Inductive, TypeOK
  <1> HIDE DEF type
  <1>6. CASE ~Passes(c, type)
    <2>1. dispatched' = dispatched
      BY <1>1, <1>5, <1>6
    <2> QED
      BY <1>1, <1>4, <2>1 DEF pvars
  <1>7. CASE Passes(c, type)
    <2>1. dispatched[c] = << >> => type = TYPE_INIT
      BY <1>2, <1>7 DEF Passes, Inductive, GateExact
    <2>2. dispatched' = [dispatched EXCEPT ![c] = Append(@, type)]
      BY <1>1, <1>7
    <2>3. Promise!Forward(t, type)
      BY <1>1, <1>2, <1>4, <2>1, <2>2, ConnAssumption DEF Promise!Forward
    <2> QED
      BY <1>3, <2>3
  <1> QED
    BY <1>6, <1>7

(* Every other step, and a stutter, leaves the promise's state alone. *)
LEMMA OthersStutter ==
    ASSUME UNCHANGED <<peer, backlog, task_fd, fdtab, dispatched>>
    PROVE  UNCHANGED pvars
  BY DEF pvars, SlotOf

(* Release frees a descriptor whose slot is free already. *)
LEMMA ReleaseMaps ==
    ASSUME Inductive, NEW t \in Task, Release(t)
    PROVE  UNCHANGED pvars
  <1>1. /\ pc[t] = "release" /\ task_fd' = [task_fd EXCEPT ![t] = NoFd]
        /\ UNCHANGED <<peer, backlog, fdtab, dispatched>>
    BY DEF Release, At
  <1>2. fdtab[task_fd[t]] = NoConn
    BY <1>1 DEF Inductive, Owner
  <1>3. \A u \in Task : SlotOf(u)' = SlotOf(u)
    BY <1>1, <1>2, ReaderTypes DEF SlotOf
  <1> QED
    BY <1>1, <1>3 DEF pvars

(* Every step maps to a step of the promise or to a stutter. *)
LEMMA StepMaps ==
    ASSUME Inductive, [Next]_vars
    PROVE  [Promise!Next]_pvars
  <1>1. CASE UNCHANGED vars
    BY <1>1, OthersStutter DEF vars
  <1>2. CASE Environment
    <2>1. ASSUME NEW c \in Conn, Connect(c) \/ \E how \in {"fin", "rst"} : Hangup(c, how)
          PROVE  Promise!Next
      BY <2>1, ConnectMaps, HangupMaps DEF Promise!Next
    <2>2. ASSUME NEW c \in Conn, NEW chunk \in Chunk, Send(c, chunk) PROVE UNCHANGED pvars
      BY <2>2, OthersStutter DEF Send
    <2>3. CASE Tick
      BY <2>3, OthersStutter DEF Tick
    <2> QED
      BY <1>2, <2>1, <2>2, <2>3 DEF Environment
  <1>3. CASE Accepting
    <2>1. CASE AcceptWake \/ AcceptFail
      BY <2>1, OthersStutter DEF AcceptWake, AcceptFail
    <2>2. CASE AcceptRefuse
      BY <2>2, RefuseMaps DEF Promise!Next
    <2>3. ASSUME NEW f \in Fd, Accept(f) PROVE Promise!Next
      BY <2>3, AcceptMaps DEF Promise!Next
    <2> QED
      BY <1>3, <2>1, <2>2, <2>3 DEF Accepting
  <1>4. ASSUME NEW t \in Task, Reader(t) PROVE [Promise!Next]_pvars
    <2>1. CASE Begin(t) \/ Await(t) \/ Read(t) \/ HandlerDone(t) \/ ReadAgain(t)
      <3>1. UNCHANGED <<peer, backlog, task_fd, fdtab, dispatched>>
        BY <2>1 DEF Begin, Await, Read, HandlerDone, ReadAgain, NothingRead
      <3> QED
        BY <3>1, OthersStutter
    <2>2. CASE Expire(t) \/ ReadEnd(t) \/ ReadTimeout(t)
      BY <2>2, CloseMaps DEF Promise!Next
    <2>3. CASE Callback(t)
      BY <2>3, CallbackMaps DEF Promise!Next
    <2>4. CASE Release(t)
      BY <2>4, ReleaseMaps
    <2> QED
      BY <1>4, <2>1, <2>2, <2>3, <2>4 DEF Reader
  <1>5. ASSUME NEW t \in Task, Wake(t) \/ LongPollEnds(t) PROVE UNCHANGED pvars
    <2>1. UNCHANGED <<peer, backlog, task_fd, fdtab, dispatched>>
      BY <1>5 DEF Wake, LongPollEnds, Resume
    <2> QED
      BY <2>1, OthersStutter
  <1> QED
    BY <1>1, <1>2, <1>3, <1>4, <1>5 DEF Next, IdleLoop

(* The code keeps the promise: first come, first served; nobody refused    *)
(* while a reader is idle; nothing forwarded before the TYPE_INIT; an      *)
(* authenticated client keeps its place until it leaves.                   *)
THEOREM Implements == Spec => KeepsPromise
  <1>1. Init => Promise!Init
    BY InitMaps
  <1>2. Inductive /\ [Next]_vars => [Promise!Next]_(Promise!vars)
    BY StepMaps DEF pvars, Promise!vars
  <1> QED
    BY <1>1, <1>2, InductiveInvariant, PTL DEF Spec, Promise!Spec, KeepsPromise
=============================================================================
