------------------------------- MODULE Gateway -------------------------------
(***************************************************************************)
(* What the TCP side of the gateway promises, without descriptors,         *)
(* coroutines, timers or buffers: connections are admitted in the order    *)
(* they arrive, into a fixed number of slots; one is turned away only      *)
(* while every slot is taken; a connection's messages are forwarded from   *)
(* its first TYPE_INIT on; and one that has got that far keeps its slot    *)
(* until the client leaves.  ServerChannel implements it.                  *)
(***************************************************************************)
EXTENDS Sequences, Naturals

CONSTANTS Slot, Conn, NoConn, Type, TYPE_INIT

VARIABLES
    arrived, gone,   \* clients that have connected, that have left
    waiting,         \* connections nobody has looked at yet
    slot,            \* the connection in each slot
    forwarded        \* messages passed on for each connection

vars == <<arrived, gone, waiting, slot, forwarded>>

Init ==
    /\ arrived = {} /\ gone = {}
    /\ waiting = << >>
    /\ slot = [s \in Slot |-> NoConn]
    /\ forwarded = [c \in Conn |-> << >>]

Arrive(c) ==
    /\ c \notin arrived
    /\ arrived' = arrived \cup {c}
    /\ waiting' = Append(waiting, c)
    /\ UNCHANGED <<gone, slot, forwarded>>

Depart(c) ==
    /\ c \in arrived
    /\ gone' = gone \cup {c}
    /\ UNCHANGED <<arrived, waiting, slot, forwarded>>

Admit(s) ==
    /\ waiting # << >> /\ slot[s] = NoConn
    /\ slot' = [slot EXCEPT ![s] = Head(waiting)]
    /\ waiting' = Tail(waiting)
    /\ UNCHANGED <<arrived, gone, forwarded>>

Refuse ==
    /\ waiting # << >> /\ \A s \in Slot : slot[s] # NoConn
    /\ waiting' = Tail(waiting)
    /\ UNCHANGED <<arrived, gone, slot, forwarded>>

Forward(s, type) ==
    LET c == slot[s] IN
    /\ c # NoConn
    /\ forwarded[c] = << >> => type = TYPE_INIT
    /\ forwarded' = [forwarded EXCEPT ![c] = Append(@, type)]
    /\ UNCHANGED <<arrived, gone, waiting, slot>>

Leave(s) ==
    /\ slot[s] # NoConn
    /\ forwarded[slot[s]] # << >> => slot[s] \in gone
    /\ slot' = [slot EXCEPT ![s] = NoConn]
    /\ UNCHANGED <<arrived, gone, waiting, forwarded>>

Next ==
    \/ \E c \in Conn : Arrive(c) \/ Depart(c)
    \/ Refuse
    \/ \E s \in Slot : \/ Admit(s) \/ Leave(s)
                       \/ \E type \in Type : Forward(s, type)

Spec == Init /\ [][Next]_vars
=============================================================================
