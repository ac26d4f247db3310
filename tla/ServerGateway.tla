---------------------------- MODULE ServerGateway ----------------------------
(* ServerChannel implements Gateway: the mapping. *)
EXTENDS ServerChannel

(* A reader's slot holds the connection of its descriptor while that is    *)
(* open: from Accept to close().                                           *)
SlotOf(t) == IF task_fd[t] = NoFd THEN NoConn ELSE fdtab[task_fd[t]]

Promise == INSTANCE Gateway WITH
    Slot      <- Task,
    arrived   <- {c \in Conn : peer[c] # "new"},
    gone      <- {c \in Conn : peer[c] \in {"fin", "rst"}},
    waiting   <- backlog,
    slot      <- [t \in Task |-> SlotOf(t)],
    forwarded <- dispatched

(* Every behaviour of the code is one the promise allows: first come first *)
(* served, nobody refused while a reader is idle, nothing forwarded before *)
(* the TYPE_INIT, and an authenticated client is never dropped while it is *)
(* there.                                                                  *)
KeepsPromise == Promise!Spec
=============================================================================
