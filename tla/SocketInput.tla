------------------------------ MODULE SocketInput ------------------------------
(***************************************************************************)
(* SocketInput (src/socket/socket_input.cpp): the growing ring buffer that *)
(* recv() fills and the packet parser empties.                             *)
(*                                                                         *)
(* A byte is named by its position in the peer's stream: 0, 1, 2, ...      *)
(* The connector thread runs every operation, so the only concurrency is   *)
(* with the kernel: bytes may reach the socket between any two system      *)
(* calls of feed, which is therefore up to three steps (recv, ioctl with   *)
(* what follows it, recv).                                                 *)
(***************************************************************************)
EXTENDS Integers, Sequences

CONSTANTS
    SOCKET_INPUT_SIZE,     \* the length of a new buffer
    SOCKET_INPUT_MAXSIZE,  \* the length past which feed gives up growing
    StreamLen,             \* bound: the number of bytes the peer sends
    LateArrival            \* may bytes reach the socket between the FIONREAD
                           \* and the second recv of the head_ == 0 branch?

ASSUME SizeAssumption ==
    /\ SOCKET_INPUT_SIZE \in Nat /\ SOCKET_INPUT_SIZE >= 4
    /\ SOCKET_INPUT_MAXSIZE \in Nat /\ SOCKET_INPUT_MAXSIZE >= SOCKET_INPUT_SIZE
ASSUME StreamAssumption == StreamLen \in Nat
ASSUME ArrivalAssumption == LateArrival \in BOOLEAN

VARIABLES
    buffer, buffer_len, head, tail,  \* the members of SocketInput
    arrived,   \* bytes of the stream that have reached the socket
    received,  \* bytes of the stream that recv has handed over
    fin,       \* the peer has closed its side
    pc,        \* how far a call of feed has come
    want,      \* the length its second recv is called with
    filled,    \* filled_bytes
    ret,       \* what feed returned last
    base,      \* the stream position of the next byte fetch hands over
    out        \* the bytes fetch handed over last

members == <<buffer, buffer_len, head, tail>>
kernel  == <<arrived, received, fin>>
locals  == <<pc, want, filled>>
vars    == <<members, kernel, locals, ret, base, out>>

SOCKET_INPUT_SIZE_HALF == SOCKET_INPUT_SIZE \div 2

\* A byte of the buffer that holds no byte of the stream.
Junk == -1

Overflow == -1000

\* The value of ret before feed has been called.
NoCall == -2
--------------------------------------------------------------------------------
(* The kernel's side: what recv and FIONREAD see. *)

Avail == arrived - received

\* The bytes a recv of length n copies.  The length is unsigned to the kernel.
RecvCount(n) == IF n < 0 \/ n > Avail THEN Avail ELSE n

\* What recv returns on the non-blocking socket: the bytes copied, 0 at the end
\* of the stream (and for a length of 0), -1 (EAGAIN) when there is nothing.
Recv(n) == IF Avail > 0 THEN RecvCount(n) ELSE IF fin THEN 0 ELSE -1
--------------------------------------------------------------------------------
(* The data structure. *)

Length ==
    IF head < tail THEN tail - head
    ELSE IF head > tail THEN buffer_len - head + tail
    ELSE 0

NewBuffer(n) == [i \in 0..(n - 1) |-> Junk]

\* The buffer after recv stored n bytes at index at.
Stored(at, n) ==
    [i \in 0..(buffer_len - 1) |->
        IF at <= i /\ i < at + n THEN received + (i - at) ELSE buffer[i]]

\* Mutant of ResizedLen: resize always grows by the default step.
ResizedByHalf(size) == buffer_len + SOCKET_INPUT_SIZE_HALF

\* The length resize(size) gives the buffer.
ResizedLen(size) ==
    buffer_len + (IF size > SOCKET_INPUT_SIZE_HALF THEN size
                                                   ELSE SOCKET_INPUT_SIZE_HALF)

\* Mutant of Moved: resize copies a wrapped ring from its two ends swapped.
MovedSwapped(new_len) ==
    [i \in 0..(new_len - 1) |->
        IF i >= Length THEN Junk
        ELSE IF head < tail THEN buffer[head + i]
        ELSE IF i < tail THEN buffer[i]
        ELSE buffer[head + i - tail]]

\* The contents resize copies to the front of the new allocation.
Moved(new_len) ==
    LET right == buffer_len - head
    IN  [i \in 0..(new_len - 1) |->
            IF i >= Length THEN Junk
            ELSE IF head < tail \/ i < right THEN buffer[head + i]
            ELSE buffer[i - right]]

\* Mutant of CopiedOut: the second piece overwrites the first.
CopiedOverFirst(n) ==
    LET right == buffer_len - head
    IN  IF head < tail \/ n < right
        THEN [i \in 1..n |-> buffer[head + i - 1]]
        ELSE [i \in 1..n |-> IF i <= n - right THEN buffer[i - 1]
                             ELSE IF i <= right THEN buffer[head + i - 1]
                             ELSE Junk]

\* The n bytes fetch copies out, in one or two pieces.
CopiedOut(n) ==
    LET right == buffer_len - head
    IN  IF head < tail \/ n < right
        THEN [i \in 1..n |-> buffer[head + i - 1]]
        ELSE [i \in 1..n |-> IF i <= right THEN buffer[head + i - 1]
                                           ELSE buffer[i - 1 - right]]
--------------------------------------------------------------------------------
Init ==
    /\ buffer = NewBuffer(SOCKET_INPUT_SIZE)
    /\ buffer_len = SOCKET_INPUT_SIZE
    /\ head = 0 /\ tail = 0
    /\ arrived = 0 /\ received = 0 /\ fin = FALSE
    /\ pc = "idle" /\ want = 0 /\ filled = 0
    /\ ret = NoCall
    /\ base = 0 /\ out = <<>>

\* n more bytes reach the socket.
Arrive(n) ==
    /\ ~fin
    /\ pc = "rest0" => LateArrival
    /\ arrived' = arrived + n
    /\ UNCHANGED <<members, received, fin, locals, ret, base, out>>

PeerClose ==
    /\ ~fin
    /\ fin' = TRUE
    /\ UNCHANGED <<members, arrived, received, locals, ret, base, out>>

FeedReturn(r) ==
    /\ pc' = "idle" /\ want' = 0 /\ filled' = 0
    /\ ret' = r

\* The recv that starts at tail_, for free bytes; when it fills them all feed
\* goes on to the probe of its branch, otherwise it returns.
FeedRecv(free, probe, newtail) ==
    LET r == Recv(free)
    IN  /\ IF r <= 0
           THEN /\ FeedReturn(r)
                /\ UNCHANGED <<members, received>>
           ELSE /\ buffer' = Stored(tail, r)
                /\ tail' = newtail
                /\ received' = received + r
                /\ IF r = free
                   THEN pc' = probe /\ want' = free /\ filled' = r /\ UNCHANGED ret
                   ELSE FeedReturn(r)
                /\ UNCHANGED <<buffer_len, head>>
        /\ UNCHANGED <<arrived, fin, base, out>>

\* head_ <= tail_ and head_ == 0, with room after the tail.
FeedFront ==
    LET free == buffer_len - tail - 1
    IN  /\ pc = "idle" /\ head = 0
        /\ free > 0
        /\ FeedRecv(free, "probe0", tail + Recv(free))

\* head_ <= tail_ and head_ == 0, with no room left: straight to the probe.
FeedFull ==
    LET free == buffer_len - tail - 1
    IN  /\ pc = "idle" /\ head = 0
        /\ free <= 0
        /\ pc' = "probe0" /\ want' = free /\ filled' = 0
        /\ UNCHANGED <<members, kernel, ret, base, out>>

\* Mutant of FeedBack: tail_ is not wrapped.
FeedBackUnwrapped ==
    LET free == buffer_len - tail
    IN  /\ pc = "idle" /\ head <= tail /\ head # 0
        /\ FeedRecv(free, "probeBack", tail + Recv(free))

\* head_ <= tail_ and head_ > 0: fill up to the end of the allocation.
FeedBack ==
    LET free == buffer_len - tail
    IN  /\ pc = "idle" /\ head <= tail /\ head # 0
        /\ FeedRecv(free, "probeBack", (tail + Recv(free)) % buffer_len)

\* Mutant of FeedGap: the free slot is filled too.
FeedGapFull ==
    LET free == head - tail
    IN  /\ pc = "idle" /\ head > tail
        /\ FeedRecv(free, "probeGap", tail + Recv(free))

\* head_ > tail_: fill the gap, but for one byte.
FeedGap ==
    LET free == head - tail - 1
    IN  /\ pc = "idle" /\ head > tail
        /\ FeedRecv(free, "probeGap", tail + Recv(free))

\* ioctl(FIONREAD) finds nothing more.
ProbeNone ==
    /\ pc \in {"probe0", "probeBack", "probeGap"}
    /\ Avail <= 0
    /\ FeedReturn(filled)
    /\ UNCHANGED <<members, kernel, base, out>>

\* Mutant of ProbeWrap: the other answer to the question in the code's comment,
\* "### head_ or head_ - 1 ?".
ProbeWrapToHead ==
    /\ pc = "probeBack"
    /\ Avail > 0 /\ Avail <= head
    /\ pc' = "rest" /\ want' = Avail
    /\ UNCHANGED <<members, kernel, filled, ret, base, out>>

\* The rest fits in front of head_.
ProbeWrap ==
    /\ pc = "probeBack"
    /\ Avail > 0 /\ Avail <= head - 1
    /\ pc' = "rest" /\ want' = Avail
    /\ UNCHANGED <<members, kernel, filled, ret, base, out>>

\* More bytes than there is room for: the buffer has to grow.
MustGrow ==
    /\ pc \in {"probe0", "probeBack", "probeGap"}
    /\ Avail > 0
    /\ pc = "probeBack" => Avail > head - 1

\* Mutant of TooLong: only the new bytes are compared with the maximum.
TooLongAlone(remain) == remain + 1 > SOCKET_INPUT_MAXSIZE

TooLong(remain) == buffer_len + remain + 1 > SOCKET_INPUT_MAXSIZE

\* It would grow past the maximum: init() drops what was received.
ProbeOverflow ==
    /\ MustGrow
    /\ TooLong(Avail)
    /\ buffer' = NewBuffer(SOCKET_INPUT_SIZE)
    /\ buffer_len' = SOCKET_INPUT_SIZE
    /\ head' = 0 /\ tail' = 0
    /\ base' = received
    /\ FeedReturn(Overflow)
    /\ UNCHANGED <<kernel, out>>

\* The length of the recv that follows the resize: the head_ == 0 branch passes
\* free_bytes, computed before its first recv; the others pass remain_bytes.
RestLength(remain) == IF pc = "probe0" THEN want ELSE remain

\* resize(remain_bytes + 1), which cannot fail here.
ProbeGrow ==
    LET new_len == ResizedLen(Avail + 1)
    IN  /\ MustGrow
        /\ ~TooLong(Avail)
        /\ buffer' = Moved(new_len)
        /\ buffer_len' = new_len
        /\ head' = 0 /\ tail' = Length
        /\ pc' = (IF pc = "probe0" THEN "rest0" ELSE "rest")
        /\ want' = RestLength(Avail)
        /\ UNCHANGED <<kernel, filled, ret, base, out>>

\* The second recv, at tail_ (which is 0 after ProbeWrap).
FeedRest ==
    LET r == Recv(want)
    IN  /\ pc \in {"rest0", "rest"}
        /\ IF r <= 0
           THEN FeedReturn(r) /\ UNCHANGED <<members, received>>
           ELSE /\ buffer' = Stored(tail, r)
                /\ tail' = tail + r
                /\ received' = received + r
                /\ FeedReturn(filled + r)
                /\ UNCHANGED <<buffer_len, head>>
        /\ UNCHANGED <<arrived, fin, base, out>>

\* fetch(buff, n); it does nothing when n is 0 or exceeds length().
Fetch(n) ==
    /\ pc = "idle"
    /\ n > 0 /\ n <= Length
    /\ out' = CopiedOut(n)
    /\ head' = (head + n) % buffer_len
    /\ base' = base + n
    /\ UNCHANGED <<buffer, buffer_len, tail, kernel, locals, ret>>

\* skip(n): fetch without the copy.
Skip(n) ==
    /\ pc = "idle"
    /\ n > 0 /\ n <= Length
    /\ head' = (head + n) % buffer_len
    /\ base' = base + n
    /\ UNCHANGED <<buffer, buffer_len, tail, kernel, locals, ret, out>>

Feed == \/ FeedFront \/ FeedFull \/ FeedBack \/ FeedGap
        \/ ProbeNone \/ ProbeWrap \/ ProbeOverflow \/ ProbeGrow
        \/ FeedRest

Next ==
    \/ \E n \in 1..(StreamLen - arrived) : Arrive(n)
    \/ PeerClose
    \/ Feed
    \/ \E n \in 1..(buffer_len - 1) : Fetch(n) \/ Skip(n)

Spec == Init /\ [][Next]_vars
--------------------------------------------------------------------------------
(* Properties. *)

Locations == {"idle", "probe0", "probeBack", "probeGap", "rest0", "rest"}

\* The members and feed's locals keep their types; head_ and tail_ index the
\* current allocation (socket_input.cpp uses both as indexes without a check).
TypeOK ==
    /\ buffer_len \in Nat /\ buffer_len >= SOCKET_INPUT_SIZE
    /\ head \in 0..(buffer_len - 1) /\ tail \in 0..(buffer_len - 1)
    /\ buffer \in [0..(buffer_len - 1) -> Int]
    /\ arrived \in Nat /\ received \in Nat /\ received <= arrived
    /\ fin \in BOOLEAN
    /\ pc \in Locations /\ want \in Int /\ filled \in Nat
    /\ ret \in Int /\ base \in Nat

\* The i-th slot after head_, around the end of the allocation.
Slot(i) == IF head + i < buffer_len THEN head + i ELSE head + i - buffer_len

\* From head_ the ring holds exactly the bytes recv handed over and fetch has
\* not: none lost, duplicated, overwritten or reordered by a wrap of feed, a
\* resize or a split fetch; and a full ring is never taken for an empty one.
RingHoldsStream ==
    /\ Length = received - base
    /\ \A i \in 0..(Length - 1) : buffer[Slot(i)] = base + i

\* What feed relies on between its system calls: a probe runs when the ring is
\* full or has just wrapped, and the second recv has its bytes' room after
\* tail_, before the end of the allocation or before head_.
FeedInv ==
    /\ pc = "probe0" => head = 0 /\ tail = buffer_len - 1
    /\ pc = "probeBack" => head > 0 /\ tail = 0
    /\ pc = "probeGap" => head = tail + 1
    /\ pc = "rest0" => head = 0 /\ tail + Avail < buffer_len
    /\ pc = "rest" => /\ want > 0 /\ want <= Avail
                      /\ \/ head = 0 /\ tail + want < buffer_len
                         \/ head > tail /\ tail + want < head

\* The bytes the second recv is about to store end inside the allocation and
\* leave one slot free, whatever has arrived since FIONREAD.
RecvFits == pc \in {"rest0", "rest"} => tail + RecvCount(want) < buffer_len

\* The same without the free slot: no recv stores past the allocation's end.
RecvInside == pc \in {"rest0", "rest"} => tail + RecvCount(want) <= buffer_len

\* A fetch hands over the bytes that follow those handed over, dropped or
\* skipped before, in the order of the stream, and as many as it removes.
FetchInOrder ==
    [][out' # out => out' = [i \in 1..(base' - base) |-> base + i - 1]]_vars

\* The buffer outgrows the maximum by less than the smallest growth: the check
\* in feed counts the bytes asked for, resize rounds them up.
GrowthBounded ==
    buffer_len <= SOCKET_INPUT_MAXSIZE + SOCKET_INPUT_SIZE_HALF - 2

\* The inductive invariant.
RingInv == TypeOK /\ RingHoldsStream /\ FeedInv /\ GrowthBounded

\* The ring implements a FIFO queue of bytes.
Queue == INSTANCE ByteQueue WITH
    MaxChunk <- StreamLen,
    queue    <- [i \in 1..Length |-> buffer[Slot(i - 1)]],
    put      <- received,
    last     <- out

\* Every step of SocketInput adds the next bytes of the stream at the end of
\* the queue, removes its oldest bytes, or leaves it alone.
ImplementsQueue == Queue!Spec
================================================================================
