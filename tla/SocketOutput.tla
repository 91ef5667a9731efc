------------------------------ MODULE SocketOutput -----------------------------
(***************************************************************************)
(* SocketOutput (src/socket/socket_output.cpp): the ring buffer the reply  *)
(* packets are written to and refresh() sends from, together with the one  *)
(* thing its caller does that its memory safety rests on: exec_write of    *)
(* src/connector/connector_thread.cpp deletes the connection when refresh  *)
(* fails.                                                                  *)
(*                                                                         *)
(* A byte is named by its position in the stream of replies.  refresh is   *)
(* one step per send, so that the peer can take bytes, or reset the        *)
(* connection, between two of them.  write runs in the same thread and     *)
(* never overlaps refresh.                                                 *)
(***************************************************************************)
EXTENDS Integers, Sequences

CONSTANTS
    SOCKET_OUTPUT_SIZE,  \* the length of a new buffer
    SendBuffer,          \* the bytes the kernel holds for a peer that is slow
    OutputLen            \* bound: the number of bytes written

ASSUME OutputSizeAssumption ==
    SOCKET_OUTPUT_SIZE \in Nat /\ SOCKET_OUTPUT_SIZE >= 2
ASSUME SendBufferAssumption == SendBuffer \in Nat \ {0}
ASSUME OutputLenAssumption == OutputLen \in Nat

VARIABLES
    buffer, buffer_len, head, tail,  \* the members of SocketOutput
    written,  \* the bytes given to write
    sent,     \* the bytes send has taken
    acked,    \* of those, the bytes the peer has taken
    reset,    \* the peer has reset the connection
    pc,       \* "idle", or "send" inside refresh
    deleted,  \* delete_connector has destroyed the connection
    block     \* the bytes send took last

members == <<buffer, buffer_len, head, tail>>
vars    == <<members, written, sent, acked, reset, pc, deleted, block>>

SOCKET_OUTPUT_SIZE_HALF == SOCKET_OUTPUT_SIZE \div 2

\* A byte of the buffer that holds no byte of the stream.
Junk == -1
--------------------------------------------------------------------------------
(* The kernel's side. *)

Room == SendBuffer - (sent - acked)

\* What send returns on the non-blocking socket for n > 0 bytes.
Send(n) == IF reset \/ Room = 0 THEN -1 ELSE IF n < Room THEN n ELSE Room
--------------------------------------------------------------------------------
(* The data structure. *)

Length ==
    IF head < tail THEN tail - head
    ELSE IF head > tail THEN buffer_len - head + tail
    ELSE 0

NewBuffer(n) == [i \in 0..(n - 1) |-> Junk]

FreeBytes ==
    IF head <= tail THEN buffer_len - tail + head - 1 ELSE head - tail - 1

\* Mutant of MustGrow: a write is taken to fit until there is no room at all.
MustGrowLate(size) == FreeBytes <= 0

\* Mutant of MustGrow: write calls resize whether or not there is room.
MustGrowAlways(size) == TRUE

\* Does write(buff, size) call resize first?  Its argument is then positive.
MustGrow(size) == size >= FreeBytes

\* The length resize(size) gives the buffer.
ResizedLen(size) ==
    buffer_len + (IF size > SOCKET_OUTPUT_SIZE_HALF THEN size
                                                    ELSE SOCKET_OUTPUT_SIZE_HALF)

\* The contents resize copies to the front of the new allocation.
Moved(new_len) ==
    LET right == buffer_len - head
    IN  [i \in 0..(new_len - 1) |->
            IF i >= Length THEN Junk
            ELSE IF head < tail \/ i < right THEN buffer[head + i]
            ELSE buffer[i - right]]

\* The members when write(buff, size) starts to copy.
Grown(size) ==
    IF MustGrow(size)
    THEN LET new_len == ResizedLen(size - FreeBytes + 1)
         IN  [len |-> new_len, h |-> 0, t |-> Length, buf |-> Moved(new_len)]
    ELSE [len |-> buffer_len, h |-> head, t |-> tail, buf |-> buffer]

\* One past the last index that write's first memcpy touches: it copies all of
\* size bytes at tail_, in every branch.
WriteEnd(size) == Grown(size).t + size

\* The buffer after both copies.  What lies past the allocation is not kept.
Copied(g, size) ==
    LET tail_bytes == g.len - g.t
    IN  [i \in 0..(g.len - 1) |->
            IF g.t <= i /\ i < g.t + size THEN written + (i - g.t)
            ELSE IF 0 < g.h /\ g.h < g.t /\ i < size - tail_bytes
                 THEN written + tail_bytes + i
            ELSE g.buf[i]]
--------------------------------------------------------------------------------
Init ==
    /\ buffer = NewBuffer(SOCKET_OUTPUT_SIZE)
    /\ buffer_len = SOCKET_OUTPUT_SIZE
    /\ head = 0 /\ tail = 0
    /\ written = 0 /\ sent = 0 /\ acked = 0 /\ reset = FALSE
    /\ pc = "idle" /\ deleted = FALSE /\ block = <<>>

\* The peer takes n of the bytes the kernel holds for it.
Ack(n) ==
    /\ n <= sent - acked
    /\ acked' = acked + n
    /\ UNCHANGED <<members, written, sent, reset, pc, deleted, block>>

Reset ==
    /\ ~reset
    /\ reset' = TRUE
    /\ UNCHANGED <<members, written, sent, acked, pc, deleted, block>>

Write(size) ==
    /\ pc = "idle" /\ ~deleted
    /\ LET g == Grown(size)
       IN  /\ buffer' = Copied(g, size)
           /\ buffer_len' = g.len
           /\ head' = g.h
           /\ tail' = (g.t + size) % g.len
    /\ written' = written + size
    /\ UNCHANGED <<sent, acked, reset, pc, deleted, block>>

\* epoll reports EPOLLOUT only for a socket with room; exec_write calls refresh.
\* On an empty ring it resets head_ and tail_ and returns at once.
Refresh ==
    /\ pc = "idle" /\ ~deleted
    /\ Room > 0
    /\ IF head = tail
       THEN head' = 0 /\ tail' = 0 /\ UNCHANGED pc
       ELSE pc' = "send" /\ UNCHANGED <<head, tail>>
    /\ UNCHANGED <<buffer, buffer_len, written, sent, acked, reset, deleted, block>>

\* The bytes up to tail_, or up to the end of the allocation when the ring wraps.
LeftBytes == IF head < tail THEN tail - head ELSE buffer_len - head

\* Mutant of SendSome: a send is taken to have sent all it was given.
SendSomeAsAll ==
    LET r == Send(LeftBytes)
    IN  /\ pc = "send" /\ r > 0
        /\ block' = [i \in 1..r |-> buffer[head + i - 1]]
        /\ sent' = sent + r
        /\ pc' = "idle" /\ head' = 0 /\ tail' = 0
        /\ UNCHANGED <<buffer, buffer_len, written, acked, reset, deleted>>

\* Mutant of SendSome: the -1 of a failed send is taken for a number of bytes.
SendSomeUnchecked ==
    LET r == Send(LeftBytes)
        h == IF head + r = buffer_len THEN 0 ELSE head + r
    IN  /\ pc = "send"
        /\ block' = [i \in 1..r |-> buffer[head + i - 1]]
        /\ sent' = sent + r
        /\ IF h = tail
           THEN pc' = "idle" /\ head' = 0 /\ tail' = 0
           ELSE head' = h /\ UNCHANGED <<pc, tail>>
        /\ UNCHANGED <<buffer, buffer_len, written, acked, reset, deleted>>

\* One turn of a loop of refresh; the last one empties the ring.
SendSome ==
    LET r == Send(LeftBytes)
        h == IF head + r = buffer_len THEN 0 ELSE head + r
    IN  /\ pc = "send" /\ r > 0
        /\ block' = [i \in 1..r |-> buffer[head + i - 1]]
        /\ sent' = sent + r
        /\ IF h = tail
           THEN pc' = "idle" /\ head' = 0 /\ tail' = 0
           ELSE head' = h /\ UNCHANGED <<pc, tail>>
        /\ UNCHANGED <<buffer, buffer_len, written, acked, reset, deleted>>

\* Mutant of SendFails: a send that would block leaves the rest for later.
SendFailsLater ==
    /\ pc = "send" /\ Send(LeftBytes) < 0
    /\ pc' = "idle" /\ deleted' = reset
    /\ UNCHANGED <<members, written, sent, acked, reset, block>>

\* send fails (EAGAIN, EPIPE, ECONNRESET): refresh returns -1 and exec_write
\* calls delete_connector, which destroys the Socket and its buffers.
SendFails ==
    /\ pc = "send" /\ Send(LeftBytes) < 0
    /\ pc' = "idle" /\ deleted' = TRUE
    /\ UNCHANGED <<members, written, sent, acked, reset, block>>

Next ==
    \/ \E n \in 1..(sent - acked) : Ack(n)
    \/ Reset
    \/ \E size \in 1..(OutputLen - written) : Write(size)
    \/ Refresh \/ SendSome \/ SendFails

Spec == Init /\ [][Next]_vars
--------------------------------------------------------------------------------
(* Properties. *)

\* The members keep their types and index the allocation, which the code
\* (socket_output.cpp:30, :58) relies on without a check.
TypeOK ==
    /\ buffer_len \in Nat /\ buffer_len >= SOCKET_OUTPUT_SIZE
    /\ head \in 0..(buffer_len - 1) /\ tail \in 0..(buffer_len - 1)
    /\ buffer \in [0..(buffer_len - 1) -> Int]
    /\ written \in Nat /\ sent \in Nat /\ acked \in Nat
    /\ acked <= sent /\ sent - acked <= SendBuffer
    /\ pc \in {"idle", "send"}
    /\ reset \in BOOLEAN /\ deleted \in BOOLEAN

\* No write copies past the end of the allocation, and one slot stays free so
\* that a full ring is not taken for an empty one, although write
\* (socket_output.cpp:45, :51) always copies all of its bytes at tail_.
WriteFits ==
    pc = "idle" /\ ~deleted =>
        \A size \in 1..OutputLen :
            WriteEnd(size) < Grown(size).len

\* Why: between two operations of a live connection the ring starts at index 0
\* (a refresh that sent everything resets it, one that did not destroys it),
\* so it never wraps and the wrapped branches of write, refresh and resize are
\* never taken.
NeverWraps ==
    /\ head <= tail
    /\ pc = "idle" /\ ~deleted => head = 0
    /\ pc = "send" => head < tail

\* The i-th slot after head_, around the end of the allocation.
Slot(i) == IF head + i < buffer_len THEN head + i ELSE head + i - buffer_len

\* The ring holds exactly the bytes written and not sent, in order, however
\* often send took only a part, write grew the buffer or the ring was reset.
RingHoldsReplies ==
    /\ Length = written - sent
    /\ \A i \in 0..(Length - 1) : buffer[Slot(i)] = sent + i

\* The inductive invariant.
OutputInv == TypeOK /\ NeverWraps /\ RingHoldsReplies

\* The ring implements a FIFO queue of bytes between write and send.
Queue == INSTANCE ByteQueue WITH
    MaxChunk <- OutputLen,
    queue    <- [i \in 1..Length |-> buffer[Slot(i - 1)]],
    put      <- written,
    last     <- block

\* Every step adds the bytes of one write at the end of the queue, hands its
\* oldest bytes to the kernel, or leaves the queue alone.
ImplementsQueue == Queue!Spec
================================================================================
