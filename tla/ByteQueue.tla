------------------------------- MODULE ByteQueue -------------------------------
(***************************************************************************)
(* What a socket buffer of libnetxcq promises its caller: a first-in       *)
(* first-out queue of bytes.  A byte is named by its position in the       *)
(* stream it belongs to, so two bytes are never confused and a loss, a     *)
(* duplicate or a reordering shows.  SocketInput and SocketOutput are      *)
(* shown to implement this specification.                                  *)
(***************************************************************************)
EXTENDS Integers, Sequences

CONSTANT MaxChunk  \* the most bytes one step adds or removes

VARIABLES
    queue,  \* the bytes waiting, oldest first
    put,    \* the number of bytes ever added, which is the next byte's name
    last    \* the block of bytes handed to the consumer last

vars == <<queue, put, last>>

Init == queue = <<>> /\ put = 0 /\ last = <<>>

\* The producer appends the next n bytes of its stream.
Enqueue(n) ==
    /\ queue' = queue \o [i \in 1..n |-> put + i - 1]
    /\ put' = put + n
    /\ UNCHANGED last

\* The consumer takes the n oldest bytes, in order.
Dequeue(n) ==
    /\ n <= Len(queue)
    /\ last' = SubSeq(queue, 1, n)
    /\ queue' = SubSeq(queue, n + 1, Len(queue))
    /\ UNCHANGED put

\* The n oldest bytes are thrown away.
Discard(n) ==
    /\ n <= Len(queue)
    /\ queue' = SubSeq(queue, n + 1, Len(queue))
    /\ UNCHANGED <<put, last>>

Next == \E n \in 1..MaxChunk : Enqueue(n) \/ Dequeue(n) \/ Discard(n)

Spec == Init /\ [][Next]_vars
================================================================================
