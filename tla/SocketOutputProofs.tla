--------------------------- MODULE SocketOutputProofs --------------------------
(***************************************************************************)
(* The memory safety of SocketOutput for every size of its buffer, of the  *)
(* kernel's buffer and of the stream of replies.                           *)
(***************************************************************************)
EXTENDS SocketOutput, StreamBytes, TLAPS

\* The modulo of write does nothing below the length of the buffer.
LEMMA NoWrap ==
    ASSUME NEW n \in Nat, n > 0, NEW a \in Nat, a < n
    PROVE  a % n = a
  OBVIOUS

\* Half of a new buffer is at least one byte.
LEMMA HalfSize ==
    /\ SOCKET_OUTPUT_SIZE_HALF \in Nat
    /\ SOCKET_OUTPUT_SIZE_HALF >= 1
  BY OutputSizeAssumption DEF SOCKET_OUTPUT_SIZE_HALF

\* A ring that does not wrap holds the bytes between head_ and tail_.
LEMMA FlatRing ==
    ASSUME TypeOK, head <= tail
    PROVE  /\ Length = tail - head
           /\ \A i \in 0..(Length - 1) : Slot(i) = head + i
  BY DEF TypeOK, Length, Slot

\* The invariant holds of a new SocketOutput.
LEMMA InitOutput == Init => OutputInv
  <1> SUFFICES ASSUME Init PROVE OutputInv
    OBVIOUS
  <1>1. TypeOK
    <2>1. buffer \in [0..(buffer_len - 1) -> Int]
      BY OutputSizeAssumption DEF Init, NewBuffer, Junk
    <2>2. reset \in BOOLEAN /\ deleted \in BOOLEAN /\ pc \in {"idle", "send"}
      BY DEF Init
    <2>. QED BY <2>1, <2>2, OutputSizeAssumption, SendBufferAssumption
             DEF Init, TypeOK
  <1>2. NeverWraps
    BY DEF Init, NeverWraps
  <1>3. RingHoldsReplies
    BY DEF Init, RingHoldsReplies, Length
  <1>. QED BY <1>1, <1>2, <1>3 DEF OutputInv

\* Where a write starts to copy on a ring that begins at index 0: at the old
\* tail_, with the old contents before it and room for its bytes and one more
\* after it, whether or not it had to grow.
LEMMA GrownFits ==
    ASSUME OutputInv, pc = "idle", ~deleted, NEW size \in Nat, size > 0
    PROVE  /\ Grown(size).len \in Nat /\ Grown(size).len >= buffer_len
           /\ Grown(size).h = 0
           /\ Grown(size).t = tail
           /\ tail + size < Grown(size).len
           /\ Grown(size).buf \in [0..(Grown(size).len - 1) -> Int]
           /\ \A i \in 0..(tail - 1) : Grown(size).buf[i] = buffer[i]
  <1>1. TypeOK /\ head = 0 /\ head <= tail
    BY DEF OutputInv, NeverWraps
  <1>2. Length = tail
    BY <1>1, FlatRing DEF TypeOK
  <1>3. FreeBytes = buffer_len - tail - 1
    BY <1>1 DEF FreeBytes, TypeOK
  <1>4. CASE MustGrow(size)
    <2> DEFINE n == ResizedLen(size - FreeBytes + 1)
    <2>1. n \in Nat /\ n >= buffer_len /\ tail + size < n
      BY <1>1, <1>3, <1>4, HalfSize DEF TypeOK, ResizedLen, MustGrow
    <2>2. Grown(size) = [len |-> n, h |-> 0, t |-> tail, buf |-> Moved(n)]
      BY <1>2, <1>4 DEF Grown
    <2> HIDE DEF n
    <2>3. Moved(n) \in [0..(n - 1) -> Int]
      <3>1. ASSUME NEW i \in 0..(n - 1)
            PROVE  (IF i >= Length THEN Junk
                    ELSE IF head < tail \/ i < buffer_len - head
                         THEN buffer[head + i]
                         ELSE buffer[i - (buffer_len - head)]) \in Int
        BY <1>1, <1>2, <2>1 DEF TypeOK, Junk
      <3>. QED BY <3>1 DEF Moved
    <2>4. \A i \in 0..(tail - 1) : Moved(n)[i] = buffer[i]
      BY <1>1, <1>2, <2>1 DEF Moved, TypeOK
    <2>. QED BY <2>1, <2>2, <2>3, <2>4
  <1>5. CASE ~MustGrow(size)
    <2>1. Grown(size) = [len |-> buffer_len, h |-> head, t |-> tail,
                         buf |-> buffer]
      BY <1>5 DEF Grown
    <2>2. tail + size < buffer_len
      BY <1>1, <1>3, <1>5 DEF MustGrow, TypeOK
    <2>. QED BY <1>1, <2>1, <2>2 DEF TypeOK
  <1>. QED BY <1>4, <1>5

\* A write keeps the invariant.
LEMMA WriteKeeps ==
    ASSUME OutputInv, NEW size \in Nat, size > 0, Write(size)
    PROVE  OutputInv'
  <1> DEFINE g == Grown(size)
  <1>1. pc = "idle" /\ ~deleted
    BY DEF Write
  <1>2. /\ g.len \in Nat /\ g.len >= buffer_len
        /\ g.h = 0 /\ g.t = tail
        /\ tail + size < g.len
        /\ g.buf \in [0..(g.len - 1) -> Int]
        /\ \A i \in 0..(tail - 1) : g.buf[i] = buffer[i]
    BY <1>1, GrownFits
  <1>3. /\ buffer' = Copied(g, size) /\ buffer_len' = g.len
        /\ head' = g.h /\ tail' = (g.t + size) % g.len
        /\ written' = written + size
        /\ UNCHANGED <<sent, acked, reset, pc, deleted, block>>
    BY DEF Write
  <1> HIDE DEF g
  <1>4. TypeOK /\ head = 0 /\ head <= tail
    BY <1>1 DEF OutputInv, NeverWraps
  <1>5. Length = tail /\ written - sent = tail
    BY <1>4, FlatRing DEF OutputInv, RingHoldsReplies, TypeOK
  <1>6. \A i \in 0..(tail - 1) : buffer[i] = sent + i
    <2>1. \A i \in 0..(tail - 1) : Slot(i) = i
      BY <1>4, <1>5 DEF Slot, TypeOK
    <2>. QED BY <1>5, <2>1 DEF OutputInv, RingHoldsReplies
  <1>7. tail' = tail + size
    <2>1. tail + size \in Nat /\ g.len > 0
      BY <1>2, <1>4 DEF TypeOK
    <2>2. (tail + size) % g.len = tail + size
      BY <1>2, <2>1, NoWrap
    <2>. QED BY <1>2, <1>3, <2>2
  <1>8. /\ buffer' \in [0..(g.len - 1) -> Int]
        /\ \A i \in 0..(tail + size - 1) : buffer'[i] = sent + i
    <2>1. buffer' = [i \in 0..(g.len - 1) |->
                        IF tail <= i /\ i < tail + size THEN written + (i - tail)
                        ELSE g.buf[i]]
      <3>1. ~(0 < g.h /\ g.h < g.t)
        BY <1>2
      <3>2. buffer' = Copied(g, size) /\ g.t = tail
        BY <1>2, <1>3
      <3>. QED BY <3>1, <3>2 DEF Copied
    <2>2. ASSUME NEW i \in 0..(g.len - 1)
          PROVE  (IF tail <= i /\ i < tail + size THEN written + (i - tail)
                  ELSE g.buf[i]) \in Int
      <3>1. g.buf[i] \in Int
        BY <1>2
      <3>. QED BY <1>4, <1>2, <3>1 DEF TypeOK
    <2>3. buffer' \in [0..(g.len - 1) -> Int]
      BY <2>1, <2>2
    <2>4. ASSUME NEW i \in 0..(tail + size - 1)
          PROVE  buffer'[i] = sent + i
      <3>1. i \in 0..(g.len - 1)
        BY <1>2, <1>4 DEF TypeOK
      <3>2. CASE i < tail
        BY <1>2, <1>4, <1>6, <2>1, <3>1, <3>2 DEF TypeOK
      <3>3. CASE i >= tail
        BY <1>2, <1>4, <1>5, <2>1, <3>1, <3>3 DEF TypeOK
      <3>. QED BY <3>2, <3>3, <1>4 DEF TypeOK
    <2>. QED BY <2>3, <2>4
  <1>9. TypeOK'
    <2>1. pc' \in {"idle", "send"} /\ reset' \in BOOLEAN /\ deleted' \in BOOLEAN
      BY <1>3, <1>4 DEF TypeOK
    <2>2. buffer' \in [0..(buffer_len' - 1) -> Int]
      BY <1>3, <1>8
    <2>3. /\ buffer_len' \in Nat /\ buffer_len' >= SOCKET_OUTPUT_SIZE
          /\ head' \in 0..(buffer_len' - 1) /\ tail' \in 0..(buffer_len' - 1)
      <3>1. head' = 0 /\ buffer_len' = g.len
        BY <1>2, <1>3
      <3>2. /\ buffer_len \in Nat /\ buffer_len >= SOCKET_OUTPUT_SIZE
            /\ tail \in Nat
        BY <1>4 DEF TypeOK
      <3>3. g.len \in Nat /\ g.len >= buffer_len /\ tail + size < g.len
        BY <1>2
      <3>. QED BY <1>7, <3>1, <3>2, <3>3, OutputSizeAssumption
    <2>4. /\ written' \in Nat /\ sent' \in Nat /\ acked' \in Nat
          /\ acked' <= sent' /\ sent' - acked' <= SendBuffer
      BY <1>3, <1>4 DEF TypeOK
    <2>. QED BY <2>1, <2>2, <2>3, <2>4 DEF TypeOK
  <1>10. NeverWraps'
    BY <1>1, <1>2, <1>3, <1>4, <1>7 DEF NeverWraps, TypeOK
  <1>11. RingHoldsReplies'
    <2>1. Length' = tail + size
      BY <1>2, <1>3, <1>4, <1>7 DEF Length, TypeOK
    <2>2. \A i \in 0..(Length' - 1) : Slot(i)' = i
      BY <1>2, <1>3, <1>4, <1>7, <2>1 DEF Slot, TypeOK
    <2>. QED BY <1>3, <1>4, <1>5, <1>8, <2>1, <2>2 DEF RingHoldsReplies, TypeOK
  <1>. QED BY <1>9, <1>10, <1>11 DEF OutputInv

\* A turn of refresh's loop keeps the invariant.
LEMMA SendKeeps ==
    ASSUME OutputInv, SendSome
    PROVE  OutputInv'
  <1> DEFINE r == Send(LeftBytes)
  <1>1. TypeOK /\ pc = "send" /\ head < tail
    BY DEF OutputInv, NeverWraps, SendSome
  <1>2. /\ Length = tail - head /\ written - sent = tail - head
        /\ \A i \in 0..(tail - head - 1) : buffer[head + i] = sent + i
    <2>1. head <= tail
      BY <1>1 DEF TypeOK
    <2>2. Length = tail - head /\ \A i \in 0..(Length - 1) : Slot(i) = head + i
      BY <1>1, <2>1, FlatRing
    <2>. QED BY <2>2 DEF OutputInv, RingHoldsReplies
  <1>3. r \in Nat /\ r > 0 /\ r <= tail - head /\ r <= Room
    BY <1>1, SendBufferAssumption DEF Send, LeftBytes, Room, SendSome, TypeOK
  <1>4. head + r # buffer_len
    BY <1>1, <1>3 DEF TypeOK
  <1>5. /\ sent' = sent + r
        /\ IF head + r = tail
           THEN pc' = "idle" /\ head' = 0 /\ tail' = 0
           ELSE head' = head + r /\ UNCHANGED <<pc, tail>>
        /\ UNCHANGED <<buffer, buffer_len, written, acked, reset, deleted>>
    BY <1>4 DEF SendSome
  <1> HIDE DEF r
  <1>6. TypeOK'
    <2>1. pc' \in {"idle", "send"} /\ reset' \in BOOLEAN /\ deleted' \in BOOLEAN
      BY <1>1, <1>5 DEF TypeOK
    <2>2. head' \in 0..(buffer_len - 1) /\ tail' \in 0..(buffer_len - 1)
      BY <1>1, <1>3, <1>5 DEF TypeOK
    <2>. QED BY <1>1, <1>3, <1>5, <2>1, <2>2, SendBufferAssumption DEF TypeOK, Room
  <1>7. NeverWraps'
    <2>1. CASE head + r = tail
      BY <1>5, <2>1 DEF NeverWraps
    <2>2. CASE head + r # tail
      BY <1>1, <1>3, <1>5, <2>2 DEF NeverWraps, TypeOK
    <2>. QED BY <2>1, <2>2
  <1>8. RingHoldsReplies'
    <2>1. CASE head + r = tail
      BY <1>1, <1>2, <1>3, <1>5, <2>1 DEF RingHoldsReplies, Length, TypeOK
    <2>2. CASE head + r # tail
      <3>1. Length' = tail - head - r
        BY <1>1, <1>3, <1>5, <2>2 DEF Length, TypeOK
      <3>2. \A i \in 0..(Length' - 1) : Slot(i)' = head + r + i
        BY <1>1, <1>3, <1>5, <2>2, <3>1 DEF Slot, TypeOK
      <3>3. \A i \in 0..(Length' - 1) : buffer[head + r + i] = sent + r + i
        <4> SUFFICES ASSUME NEW i \in 0..(Length' - 1)
                     PROVE  buffer[head + r + i] = sent + r + i
          OBVIOUS
        <4>1. r + i \in 0..(tail - head - 1)
          BY <1>1, <1>3, <3>1 DEF TypeOK
        <4>2. buffer[head + (r + i)] = sent + (r + i)
          BY <1>2, <4>1
        <4>. QED BY <1>1, <1>3, <3>1, <4>2 DEF TypeOK
      <3>4. Length' = written' - sent'
        BY <1>1, <1>2, <1>3, <1>5, <3>1 DEF TypeOK
      <3>5. \A i \in 0..(Length' - 1) : buffer'[Slot(i)'] = sent' + i
        BY <1>5, <3>2, <3>3
      <3>. QED BY <3>4, <3>5 DEF RingHoldsReplies
    <2>. QED BY <2>1, <2>2
  <1>. QED BY <1>6, <1>7, <1>8 DEF OutputInv

\* Every step keeps the invariant.
LEMMA OutputStep == OutputInv /\ [Next]_vars => OutputInv'
  <1> SUFFICES ASSUME OutputInv, [Next]_vars PROVE OutputInv'
    OBVIOUS
  <1>1. ASSUME NEW n \in 1..(sent - acked), Ack(n) PROVE OutputInv'
    <2>1. UNCHANGED <<members, written, sent, reset, pc, deleted, block>>
          /\ acked' = acked + n /\ n <= sent - acked
      BY <1>1 DEF Ack
    <2>2. acked' \in Nat /\ acked' <= sent' /\ sent' - acked' <= SendBuffer
      BY <1>1, <2>1, SendBufferAssumption DEF OutputInv, TypeOK
    <2>3. TypeOK'
      BY <2>1, <2>2 DEF OutputInv, TypeOK, members
    <2>4. NeverWraps'
      BY <2>1 DEF OutputInv, NeverWraps, members
    <2>5. RingHoldsReplies'
      BY <2>1 DEF OutputInv, RingHoldsReplies, Length, Slot, members
    <2>. QED BY <2>3, <2>4, <2>5 DEF OutputInv
  <1>2. CASE Reset
    BY <1>2 DEF Reset, OutputInv, TypeOK, NeverWraps, RingHoldsReplies, Length,
                Slot, members
  <1>3. ASSUME NEW size \in 1..(OutputLen - written), Write(size)
        PROVE  OutputInv'
    <2>1. size \in Nat /\ size > 0
      BY OutputLenAssumption DEF OutputInv, TypeOK
    <2>. QED BY <1>3, <2>1, WriteKeeps
  <1>4. CASE Refresh
    <2>1. pc = "idle" /\ ~deleted /\ head = 0 /\ head <= tail
      BY <1>4 DEF Refresh, OutputInv, NeverWraps
    <2>2. /\ head' = head /\ tail' = tail
          /\ UNCHANGED <<buffer, buffer_len, written, sent, acked, reset,
                         deleted, block>>
          /\ pc' = IF head = tail THEN "idle" ELSE "send"
      BY <1>4, <2>1 DEF Refresh
    <2>3. TypeOK'
      BY <2>2 DEF OutputInv, TypeOK
    <2>4. NeverWraps'
      BY <2>1, <2>2 DEF OutputInv, NeverWraps, TypeOK
    <2>5. RingHoldsReplies'
      BY <2>2 DEF OutputInv, RingHoldsReplies, Length, Slot
    <2>. QED BY <2>3, <2>4, <2>5 DEF OutputInv
  <1>5. CASE SendSome
    BY <1>5, SendKeeps
  <1>6. CASE SendFails
    <2>1. UNCHANGED <<members, written, sent, acked, reset, block>>
          /\ pc' = "idle" /\ deleted' = TRUE
      BY <1>6 DEF SendFails
    <2>2. TypeOK'
      BY <2>1 DEF OutputInv, TypeOK, members
    <2>3. NeverWraps'
      BY <2>1 DEF OutputInv, NeverWraps, members
    <2>4. RingHoldsReplies'
      BY <2>1 DEF OutputInv, RingHoldsReplies, Length, Slot, members
    <2>. QED BY <2>2, <2>3, <2>4 DEF OutputInv
  <1>7. CASE UNCHANGED vars
    BY <1>7 DEF vars, members, OutputInv, TypeOK, NeverWraps, RingHoldsReplies,
                Length, Slot
  <1>. QED BY <1>1, <1>2, <1>3, <1>4, <1>5, <1>6, <1>7 DEF Next

\* The invariant keeps every write inside the allocation.
LEMMA InvFits == OutputInv => WriteFits
  <1> SUFFICES ASSUME OutputInv, pc = "idle", ~deleted, NEW size \in 1..OutputLen
               PROVE  WriteEnd(size) < Grown(size).len
    BY DEF WriteFits
  <1>1. size \in Nat /\ size > 0
    BY OutputLenAssumption
  <1>. QED BY <1>1, GrownFits DEF WriteEnd

LEMMA AlwaysOutput == Spec => []OutputInv
  <1>1. Init => OutputInv
    BY InitOutput
  <1>2. OutputInv /\ [Next]_vars => OutputInv'
    BY OutputStep
  <1>. QED BY <1>1, <1>2, PTL DEF Spec

\* For every size of the buffer and of the kernel's: head_ and tail_ stay inside
\* the current allocation.
THEOREM OutputTypes == Spec => []TypeOK
  <1>1. OutputInv => TypeOK
    BY DEF OutputInv
  <1>. QED BY <1>1, AlwaysOutput, PTL

\* No write copies past the allocation, grown or not.
THEOREM OutputSafety == Spec => []WriteFits
  <1>. QED BY InvFits, AlwaysOutput, PTL

\* The ring never wraps, because exec_write destroys the connection as soon as a
\* send fails and refresh starts over at the front otherwise.
THEOREM WrapSafety == Spec => []NeverWraps
  <1>1. OutputInv => NeverWraps
    BY DEF OutputInv
  <1>. QED BY <1>1, AlwaysOutput, PTL

\* No byte of a reply is lost, duplicated or reordered between write and send.
THEOREM ReplySafety == Spec => []RingHoldsReplies
  <1>1. OutputInv => RingHoldsReplies
    BY DEF OutputInv
  <1>. QED BY <1>1, AlwaysOutput, PTL

\* The bytes of the ring from head_ on: what Queue takes for the queue.
Waiting == [i \in 1..Length |-> buffer[Slot(i - 1)]]

\* Under the invariant they are the block of the stream of replies between what
\* send has taken and what was written.
LEMMA WaitingBytes ==
    OutputInv => /\ written - sent \in Nat
                 /\ Waiting = Bytes(sent, written - sent)
  <1> SUFFICES ASSUME OutputInv
               PROVE  /\ written - sent \in Nat
                      /\ Waiting = Bytes(sent, written - sent)
    OBVIOUS
  <1>1. /\ Length \in Nat /\ Length = written - sent /\ sent \in Nat
        /\ \A i \in 0..(Length - 1) : buffer[Slot(i)] = sent + i
    BY DEF OutputInv, RingHoldsReplies, TypeOK, Length
  <1>2. ASSUME NEW i \in 1..Length PROVE buffer[Slot(i - 1)] = sent + i - 1
    <2>1. i - 1 \in 0..(Length - 1)
      BY <1>1
    <2>2. buffer[Slot(i - 1)] = sent + (i - 1)
      BY <1>1, <2>1
    <2>. QED BY <1>1, <2>2
  <1>3. Waiting = Bytes(sent, Length)
    BY <1>2 DEF Waiting, Bytes
  <1>. QED BY <1>1, <1>3

\* What one send of refresh takes is the oldest bytes written and not sent.
LEMMA SentBytes ==
    ASSUME OutputInv, SendSome
    PROVE  \E r \in Nat : /\ r > 0 /\ r <= written - sent
                          /\ sent' = sent + r /\ block' = Bytes(sent, r)
                          /\ UNCHANGED written
  <1>. DEFINE r == Send(LeftBytes)
  <1>1. TypeOK /\ head < tail
    BY DEF OutputInv, NeverWraps, SendSome
  <1>2. /\ written - sent = tail - head
        /\ \A i \in 0..(tail - head - 1) : buffer[head + i] = sent + i
    <2>1. head <= tail
      BY <1>1 DEF TypeOK
    <2>2. Length = tail - head /\ \A i \in 0..(Length - 1) : Slot(i) = head + i
      BY <1>1, <2>1, FlatRing
    <2>. QED BY <2>2 DEF OutputInv, RingHoldsReplies
  <1>3. r \in Nat /\ r > 0 /\ r <= tail - head
    BY <1>1, SendBufferAssumption DEF Send, LeftBytes, Room, SendSome, TypeOK
  <1>4. /\ block' = [i \in 1..r |-> buffer[head + i - 1]]
        /\ sent' = sent + r /\ UNCHANGED written
    BY DEF SendSome
  <1>. HIDE DEF r
  <1>5. ASSUME NEW i \in 1..r PROVE buffer[head + i - 1] = sent + i - 1
    <2>1. i - 1 \in 0..(tail - head - 1)
      BY <1>1, <1>3 DEF TypeOK
    <2>2. buffer[head + (i - 1)] = sent + (i - 1)
      BY <1>2, <2>1
    <2>3. head + (i - 1) = head + i - 1 /\ sent + (i - 1) = sent + i - 1
      BY <1>1, <1>3 DEF TypeOK
    <2>. QED BY <2>2, <2>3
  <1>6. block' = Bytes(sent, r)
    BY <1>4, <1>5 DEF Bytes
  <1>. QED BY <1>2, <1>3, <1>4, <1>6

\* A step of the ring is a step of the queue or leaves the queue alone.
LEMMA QueueStep ==
    ASSUME OutputInv, OutputInv', written' <= OutputLen, [Next]_vars
    PROVE  [Queue!Next]_(Queue!vars)
  <1>1. /\ written \in Nat /\ sent \in Nat /\ written - sent \in Nat
        /\ Waiting = Bytes(sent, written - sent)
    BY WaitingBytes DEF OutputInv, TypeOK
  <1>2. /\ written' \in Nat /\ sent' \in Nat /\ written' - sent' \in Nat
        /\ Waiting' = Bytes(sent', written' - sent')
    <2>1. OutputInv' => /\ (written - sent \in Nat)'
                        /\ (Waiting = Bytes(sent, written - sent))'
      BY WaitingBytes, PTL
    <2>. QED BY <2>1 DEF OutputInv, TypeOK
  <1>3. ASSUME UNCHANGED <<written, sent, block>>
        PROVE  UNCHANGED Queue!vars
    <2>1. Waiting' = Waiting
      BY <1>1, <1>2, <1>3
    <2>. QED BY <1>3, <2>1 DEF Queue!vars, Waiting
  <1>4. ASSUME NEW size \in 1..(OutputLen - written), Write(size)
        PROVE  Queue!Next
    <2>1. /\ size \in Nat /\ size \in 1..OutputLen
      BY <1>1, OutputLenAssumption
    <2>2. written' = written + size /\ UNCHANGED <<sent, block>>
      BY <1>4 DEF Write
    <2>3. Waiting' = Waiting \o Bytes(written, size)
      <3>. DEFINE k == written - sent
      <3>1. k \in Nat /\ written' - sent' = k + size /\ sent + k = written
        BY <1>1, <2>1, <2>2
      <3>2. Waiting = Bytes(sent, k) /\ Waiting' = Bytes(sent', written' - sent')
        BY <1>1, <1>2
      <3>. HIDE DEF k
      <3>3. Bytes(sent, k) \o Bytes(sent + k, size) = Bytes(sent, k + size)
        <4>1. sent \in Nat
          BY <1>1
        <4>. QED BY <2>1, <3>1, <4>1, BytesConcat
      <3>. QED BY <2>2, <3>1, <3>2, <3>3, Zenon
    <2>4. Queue!Enqueue(size)
      BY <2>2, <2>3 DEF Queue!Enqueue, Waiting, Bytes
    <2>. QED BY <2>1, <2>4 DEF Queue!Next
  <1>5. CASE SendSome
    <2>1. PICK r \in Nat : /\ r > 0 /\ r <= written - sent
                           /\ sent' = sent + r /\ block' = Bytes(sent, r)
                           /\ UNCHANGED written
      BY <1>5, SentBytes
    <2>2. r \in 1..OutputLen
      BY <1>1, <2>1, OutputLenAssumption
    <2>3. /\ r <= Len(Waiting)
          /\ SubSeq(Waiting, 1, r) = Bytes(sent, r)
          /\ SubSeq(Waiting, r + 1, Len(Waiting)) =
                 Bytes(sent + r, written - sent - r)
      <3>1. PICK k \in Nat : k = written - sent
        BY <1>1
      <3>2. Waiting = Bytes(sent, k) /\ sent \in Nat /\ r \in Nat /\ r <= k
        BY <1>1, <2>1, <3>1
      <3>3. Len(Bytes(sent, k)) = k
        BY <3>2, BytesSeq
      <3>4. /\ SubSeq(Bytes(sent, k), 1, r) = Bytes(sent, r)
            /\ SubSeq(Bytes(sent, k), r + 1, Len(Bytes(sent, k))) = Bytes(sent + r, k - r)
        BY <3>2, BytesSplit
      <3>. QED BY <3>1, <3>2, <3>3, <3>4
    <2>4. Waiting' = SubSeq(Waiting, r + 1, Len(Waiting))
      <3>1. written' - sent' = written - sent - r
        BY <1>1, <2>1
      <3>. QED BY <1>2, <2>1, <2>3, <3>1
    <2>5. Queue!Dequeue(r)
      BY <2>1, <2>3, <2>4 DEF Queue!Dequeue, Waiting
    <2>. QED BY <2>2, <2>5 DEF Queue!Next
  <1>6. ASSUME \/ \E n \in 1..(sent - acked) : Ack(n)
               \/ Reset \/ Refresh \/ SendFails \/ UNCHANGED vars
        PROVE  UNCHANGED <<written, sent, block>>
    BY <1>6 DEF Ack, Reset, Refresh, SendFails, vars
  <1>. QED BY <1>3, <1>4, <1>5, <1>6 DEF Next

\* For every size of the ring and of the kernel's buffer: SocketOutput is a
\* first-in first-out queue of the bytes of the replies.  write adds its bytes
\* at the end, whether or not it grows the buffer, every send of refresh takes
\* the oldest ones however few it takes, and a reset of the ring is invisible.
THEOREM OutputIsQueue == Spec => ImplementsQueue
  <1>. DEFINE Inv == OutputInv /\ written <= OutputLen
  <1>1. Init => Inv
    BY InitOutput, OutputLenAssumption DEF Init
  <1>2. Inv /\ [Next]_vars => Inv'
    <2> SUFFICES ASSUME OutputInv, written <= OutputLen, [Next]_vars
                 PROVE  written' <= OutputLen
      BY OutputStep
    <2>1. CASE \E size \in 1..(OutputLen - written) : Write(size)
      BY <2>1, OutputLenAssumption DEF Write, OutputInv, TypeOK
    <2>2. CASE ~\E size \in 1..(OutputLen - written) : Write(size)
      <3>1. written' = written
        BY <2>2 DEF Next, vars, Ack, Reset, Refresh, SendSome, SendFails
      <3>. QED BY <3>1
    <2>. QED BY <2>1, <2>2
  <1>3. Init => Queue!Init
    <2> SUFFICES ASSUME Init PROVE Queue!Init
      OBVIOUS
    <2>1. Length = 0 /\ written = 0 /\ block = <<>>
      BY DEF Init, Length
    <2>2. Waiting = <<>>
      BY <2>1 DEF Waiting
    <2>. QED BY <2>1, <2>2 DEF Queue!Init, Waiting
  <1>4. Inv /\ Inv' /\ [Next]_vars => [Queue!Next]_(Queue!vars)
    BY QueueStep
  <1>. QED BY <1>1, <1>2, <1>3, <1>4, PTL DEF Spec, ImplementsQueue, Queue!Spec
================================================================================
