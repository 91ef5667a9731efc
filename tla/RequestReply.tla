------------------------------ MODULE RequestReply -----------------------------
(***************************************************************************)
(* What the TCP server promises its clients, whatever threads, buffers,    *)
(* descriptors and epoll sets it is made of: the requests of a connection  *)
(* are received, executed and answered one after the other, each once, and *)
(* a connection is dropped only after its client has left it.  Nothing is  *)
(* received, executed or answered on a dropped connection.                 *)
(***************************************************************************)

CONSTANT Conns  \* the connections

VARIABLES
    stage,   \* how far the last request of a connection has come
    left,    \* the connections their clients have closed or reset
    dropped  \* the connections the server has closed

vars == <<stage, left, dropped>>

Init ==
    /\ stage = [c \in Conns |-> "none"]
    /\ left = {}
    /\ dropped = {}

\* The last request of c moves from one stage to the next.
Move(c, from, to) ==
    /\ stage[c] = from
    /\ stage' = [stage EXCEPT ![c] = to]
    /\ UNCHANGED <<left, dropped>>

\* The client sends a request after it has read the last reply.
Ask(c) == c \notin left /\ Move(c, "none", "sent")

\* The server receives all of it, executes it, and sends all of the reply.
Serve(c) ==
    /\ c \notin dropped
    /\ Move(c, "sent", "fed") \/ Move(c, "fed", "reply") \/ Move(c, "reply", "none")

Leave(c) ==
    /\ c \notin left
    /\ left' = left \cup {c}
    /\ UNCHANGED <<stage, dropped>>

Drop(c) ==
    /\ c \in left \ dropped
    /\ dropped' = dropped \cup {c}
    /\ UNCHANGED <<stage, left>>

Next == \E c \in Conns : Ask(c) \/ Serve(c) \/ Leave(c) \/ Drop(c)

Spec == Init /\ [][Next]_vars
================================================================================
