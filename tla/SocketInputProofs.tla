--------------------------- MODULE SocketInputProofs ---------------------------
(***************************************************************************)
(* Proofs about SocketInput for every buffer size, maximum and stream      *)
(* length, in the environment where no byte arrives between the FIONREAD   *)
(* and the second recv of feed's head_ == 0 branch.                        *)
(***************************************************************************)
EXTENDS SocketInput, StreamBytes, TLAPS

\* The wrap of head_ and tail_: an index below twice the length comes back
\* into the allocation by at most one subtraction.
LEMMA WrapIndex ==
    ASSUME NEW n \in Nat, n > 0, NEW a \in Nat, a < 2 * n
    PROVE  a % n = IF a < n THEN a ELSE a - n
  <1>1. CASE a < n
    BY <1>1
  <1>2. CASE a >= n
    BY <1>2
  <1>. QED BY <1>1, <1>2

\* Half of a new buffer is at least two bytes.
LEMMA HalfSize ==
    /\ SOCKET_INPUT_SIZE_HALF \in Nat
    /\ SOCKET_INPUT_SIZE_HALF >= 2
  BY SizeAssumption DEF SOCKET_INPUT_SIZE_HALF

\* The invariant holds of a new SocketInput.
LEMMA InitRing == Init => RingInv
  <1> SUFFICES ASSUME Init PROVE RingInv
    OBVIOUS
  <1>1. TypeOK
    <2>1. buffer \in [0..(buffer_len - 1) -> Int]
      BY SizeAssumption DEF Init, NewBuffer, Junk
    <2>2. fin \in BOOLEAN /\ pc \in Locations
      BY DEF Init, Locations
    <2>. QED BY <2>1, <2>2, SizeAssumption DEF Init, TypeOK, NoCall
  <1>2. RingHoldsStream
    BY DEF Init, RingHoldsStream, Length
  <1>3. FeedInv
    BY DEF Init, FeedInv
  <1>4. GrowthBounded
    BY SizeAssumption, HalfSize DEF Init, GrowthBounded
  <1>. QED BY <1>1, <1>2, <1>3, <1>4 DEF RingInv

\* Fewer bytes are in the ring than it has slots.
LEMMA LengthRange == TypeOK => Length \in 0..(buffer_len - 1)
  BY DEF TypeOK, Length

\* What recv returns and copies.
LEMMA RecvResult ==
    ASSUME TypeOK, NEW n \in Int
    PROVE  /\ Recv(n) \in Int
           /\ RecvCount(n) \in Nat
           /\ Recv(n) > 0 => /\ Recv(n) = RecvCount(n)
                             /\ Recv(n) <= Avail
                             /\ n >= 0 => Recv(n) <= n
  BY DEF TypeOK, Recv, RecvCount, Avail

\* A recv of r bytes at tail_ that leaves a slot free extends the ring by the
\* next r bytes of the stream.
LEMMA StoreExtends ==
    ASSUME TypeOK, RingHoldsStream,
           NEW r \in Nat, r > 0, r < buffer_len - Length,
           head <= tail => tail + r <= buffer_len,
           buffer' = Stored(tail, r),
           tail' = IF tail + r < buffer_len THEN tail + r ELSE 0,
           received' = received + r,
           UNCHANGED <<buffer_len, head, base>>
    PROVE  /\ tail' \in 0..(buffer_len - 1)
           /\ buffer' \in [0..(buffer_len - 1) -> Int]
           /\ RingHoldsStream'
  <1>1. tail' \in 0..(buffer_len - 1)
    BY DEF TypeOK, Length
  <1>2. buffer' \in [0..(buffer_len - 1) -> Int]
    BY DEF TypeOK, Stored
  <1>3. Length' = Length + r
    BY DEF TypeOK, Length
  <1>4. ASSUME NEW i \in 0..(Length' - 1)
        PROVE  buffer'[Slot(i)'] = base' + i
    <2>1. Slot(i)' = Slot(i) /\ Slot(i) \in 0..(buffer_len - 1)
      BY <1>3 DEF TypeOK, Slot, Length
    <2>2. CASE i < Length
      <3>1. ~(tail <= Slot(i) /\ Slot(i) < tail + r)
        BY <2>2, <1>3 DEF TypeOK, Slot, Length
      <3>. QED BY <2>1, <2>2, <3>1 DEF TypeOK, Stored, RingHoldsStream
    <2>3. CASE i >= Length
      <3>1. tail <= Slot(i) /\ Slot(i) < tail + r /\ Slot(i) - tail = i - Length
        BY <2>3, <1>3 DEF TypeOK, Slot, Length
      <3>2. buffer'[Slot(i)] = received + (i - Length)
        BY <2>1, <3>1 DEF Stored
      <3>. QED BY <2>1, <3>2, LengthRange DEF RingHoldsStream, TypeOK
    <2>. QED BY <2>2, <2>3, LengthRange DEF TypeOK
  <1>. QED BY <1>1, <1>2, <1>3, <1>4 DEF RingHoldsStream, TypeOK

\* resize moves the bytes to the front of the new allocation in order.
LEMMA ResizeKeeps ==
    ASSUME TypeOK, RingHoldsStream,
           NEW new_len \in Nat, new_len > buffer_len,
           buffer' = Moved(new_len), buffer_len' = new_len,
           head' = 0, tail' = Length,
           UNCHANGED <<received, base>>
    PROVE  /\ buffer' \in [0..(new_len - 1) -> Int]
           /\ RingHoldsStream'
  <1>1. Length \in 0..(buffer_len - 1)
    BY LengthRange
  <1>2. buffer' \in [0..(new_len - 1) -> Int]
    <2>. DEFINE right == buffer_len - head
    <2>1. ASSUME NEW i \in 0..(new_len - 1)
          PROVE  (IF i >= Length THEN Junk
                  ELSE IF head < tail \/ i < right THEN buffer[head + i]
                  ELSE buffer[i - right]) \in Int
      BY <1>1 DEF TypeOK, Junk, Length
    <2>. QED BY <2>1 DEF Moved
  <1>3. Length' = Length
    BY <1>1 DEF Length
  <1>4. ASSUME NEW i \in 0..(Length - 1)
        PROVE  buffer'[Slot(i)'] = base' + i
    <2>1. Slot(i)' = i
      BY <1>1 DEF Slot, TypeOK
    <2>2. buffer'[i] = buffer[Slot(i)]
      BY <1>1 DEF Moved, Slot, TypeOK, Length
    <2>. QED BY <2>1, <2>2 DEF RingHoldsStream
  <1>. QED BY <1>2, <1>3, <1>4 DEF RingHoldsStream

\* Removing n bytes at head_ leaves the rest of the ring as it was.
LEMMA AdvanceKeeps ==
    ASSUME TypeOK, RingHoldsStream,
           NEW n \in Nat, n > 0, n <= Length,
           head' = (head + n) % buffer_len, base' = base + n,
           UNCHANGED <<buffer, buffer_len, tail, received>>
    PROVE  /\ head' \in 0..(buffer_len - 1)
           /\ RingHoldsStream'
  <1>1. Length \in 0..(buffer_len - 1)
    BY LengthRange
  <1>2. head' = IF head + n < buffer_len THEN head + n ELSE head + n - buffer_len
    BY <1>1, SizeAssumption, WrapIndex, SMTT(30) DEF TypeOK
  <1>3. head' \in 0..(buffer_len - 1)
    BY <1>1, <1>2 DEF TypeOK
  <1>4. Length' = Length - n
    BY <1>2 DEF TypeOK, Length
  <1>5. ASSUME NEW i \in 0..(Length' - 1)
        PROVE  buffer'[Slot(i)'] = base' + i
    <2>1. Slot(i)' = Slot(i + n)
      BY <1>1, <1>2, <1>4, SMTT(30) DEF Slot, TypeOK
    <2>2. i + n \in 0..(Length - 1)
      BY <1>1, <1>4
    <2>. QED BY <2>1, <2>2 DEF RingHoldsStream, TypeOK
  <1>. QED BY <1>1, <1>3, <1>4, <1>5 DEF RingHoldsStream, TypeOK

\* The first recv of feed, in any of its branches: either feed returns, or the
\* free bytes are filled and the probe of the branch comes next.
LEMMA FeedRecvKeeps ==
    ASSUME RingInv,
           NEW free \in Nat, free < buffer_len - Length,
           head <= tail => tail + free <= buffer_len,
           NEW probe \in {"probe0", "probeBack", "probeGap"},
           NEW newtail,
           Recv(free) > 0 =>
               newtail = IF tail + Recv(free) < buffer_len
                         THEN tail + Recv(free) ELSE 0,
           FeedRecv(free, probe, newtail)
    PROVE  /\ TypeOK' /\ RingHoldsStream' /\ GrowthBounded'
           /\ \/ pc' = "idle"
              \/ /\ pc' = probe /\ tail' = newtail
                 /\ Recv(free) = free /\ free > 0
                 /\ UNCHANGED <<head, buffer_len>>
  <1>. DEFINE r == Recv(free)
  <1>1. /\ r \in Int
        /\ r > 0 => r <= free /\ r <= Avail
        /\ TypeOK /\ RingHoldsStream /\ GrowthBounded
    BY RecvResult DEF RingInv
  <1>2. CASE r <= 0
    <2>1. TypeOK'
      BY <1>1, <1>2 DEF FeedRecv, FeedReturn, TypeOK, members, Locations
    <2>2. RingHoldsStream' /\ GrowthBounded'
      BY <1>1, <1>2 DEF FeedRecv, RingHoldsStream, GrowthBounded, members,
                        Length, Slot
    <2>3. pc' = "idle"
      BY <1>1, <1>2 DEF FeedRecv, FeedReturn
    <2>. QED BY <2>1, <2>2, <2>3
  <1>3. CASE r > 0
    <2>1. /\ buffer' = Stored(tail, r) /\ received' = received + r
          /\ tail' = newtail /\ UNCHANGED <<buffer_len, head, base, arrived, fin>>
          /\ IF r = free
             THEN pc' = probe /\ want' = free /\ filled' = r /\ UNCHANGED ret
             ELSE FeedReturn(r)
      BY <1>1, <1>3 DEF FeedRecv
    <2>2. /\ tail' \in 0..(buffer_len - 1)
          /\ buffer' \in [0..(buffer_len - 1) -> Int]
          /\ RingHoldsStream'
      <3>1. r \in Nat /\ r < buffer_len - Length
        BY <1>1, <1>3, LengthRange DEF TypeOK
      <3>2. tail' = IF tail + r < buffer_len THEN tail + r ELSE 0
        BY <1>3, <2>1
      <3>3. head <= tail => tail + r <= buffer_len
        BY <1>1, <1>3 DEF TypeOK
      <3>. HIDE DEF r
      <3>. QED BY <1>1, <1>3, <2>1, <3>1, <3>2, <3>3, StoreExtends
    <2>3. pc' \in Locations /\ want' \in Int /\ filled' \in Nat /\ ret' \in Int
      BY <1>1, <1>3, <2>1 DEF FeedReturn, TypeOK, Locations
    <2>4. TypeOK'
      <3>1. arrived' \in Nat /\ received' \in Nat /\ received' <= arrived'
        BY <1>1, <1>3, <2>1 DEF TypeOK, Avail
      <3>2. fin' \in BOOLEAN /\ base' \in Nat
        BY <1>1, <2>1 DEF TypeOK
      <3>. QED BY <1>1, <2>1, <2>2, <2>3, <3>1, <3>2 DEF TypeOK
    <2>5. GrowthBounded'
      BY <1>1, <2>1 DEF GrowthBounded
    <2>6. \/ pc' = "idle"
          \/ /\ pc' = probe /\ tail' = newtail /\ r = free /\ free > 0
             /\ UNCHANGED <<head, buffer_len>>
      BY <1>3, <2>1 DEF FeedReturn
    <2>. QED BY <2>2, <2>4, <2>5, <2>6
  <1>. QED BY <1>1, <1>2, <1>3

\* A step that leaves the ring and the counts alone keeps its invariants.
LEMMA SameRing ==
    ASSUME RingHoldsStream, GrowthBounded, UNCHANGED <<members, received, base>>
    PROVE  RingHoldsStream' /\ GrowthBounded'
  BY DEF RingHoldsStream, GrowthBounded, members, Length, Slot

\* The second recv of feed.
LEMMA FeedRestKeeps == ASSUME RingInv, FeedRest PROVE RingInv'
  <1>. DEFINE r == Recv(want)
  <1>1. /\ TypeOK /\ RingHoldsStream /\ GrowthBounded /\ FeedInv
        /\ want \in Int
    BY DEF RingInv, TypeOK
  <1>2. /\ r \in Int
        /\ r > 0 => r <= Avail /\ (want >= 0 => r <= want)
    BY <1>1, RecvResult
  <1>3. FeedInv'
    BY DEF FeedRest, FeedReturn, FeedInv
  <1>4. CASE r <= 0
    <2>1. UNCHANGED <<members, received, base, arrived, fin>> /\ FeedReturn(r)
      BY <1>4 DEF FeedRest
    <2>2. TypeOK'
      BY <1>1, <1>2, <2>1 DEF TypeOK, FeedReturn, members, Locations
    <2>. QED BY <1>1, <1>3, <2>1, <2>2, SameRing DEF RingInv
  <1>5. CASE r > 0
    <2>1. /\ buffer' = Stored(tail, r) /\ tail' = tail + r
          /\ received' = received + r /\ FeedReturn(filled + r)
          /\ UNCHANGED <<buffer_len, head, arrived, fin, base>>
      BY <1>2, <1>5 DEF FeedRest
    <2>2. /\ tail + r < buffer_len
          /\ r < buffer_len - Length
      <3>. HIDE DEF r
      <3>1. CASE pc = "rest0"
        BY <1>1, <1>2, <1>5, <3>1 DEF FeedInv, TypeOK, Length, Avail
      <3>2. CASE pc = "rest"
        BY <1>1, <1>2, <1>5, <3>2 DEF FeedInv, TypeOK, Length, Avail
      <3>. QED BY <3>1, <3>2 DEF FeedRest
    <2>3. /\ tail' \in 0..(buffer_len - 1)
          /\ buffer' \in [0..(buffer_len - 1) -> Int]
          /\ RingHoldsStream'
      <3>1. r \in Nat
        BY <1>2, <1>5
      <3>. HIDE DEF r
      <3>. QED BY <1>1, <1>5, <2>1, <2>2, <3>1, StoreExtends DEF TypeOK
    <2>4. TypeOK'
      <3>1. received' \in Nat /\ received' <= arrived' /\ arrived' \in Nat
        BY <1>1, <1>2, <1>5, <2>1 DEF TypeOK, Avail
      <3>2. /\ pc' \in Locations /\ want' \in Int
            /\ filled' \in Nat /\ ret' \in Int
        BY <1>1, <1>2, <1>5, <2>1 DEF FeedReturn, TypeOK, Locations
      <3>3. fin' \in BOOLEAN
        BY <1>1, <2>1 DEF TypeOK
      <3>. QED BY <1>1, <2>1, <2>3, <3>1, <3>2, <3>3 DEF TypeOK
    <2>5. GrowthBounded'
      BY <1>1, <2>1 DEF GrowthBounded
    <2>. QED BY <1>3, <2>3, <2>4, <2>5 DEF RingInv
  <1>. QED BY <1>2, <1>4, <1>5

\* The buffer grows for the bytes FIONREAD reported.
LEMMA ProbeGrowKeeps == ASSUME RingInv, ProbeGrow PROVE RingInv'
  <1>. DEFINE new_len == ResizedLen(Avail + 1)
  <1>1. TypeOK /\ RingHoldsStream /\ GrowthBounded /\ FeedInv
    BY DEF RingInv
  <1>2. Avail \in Nat /\ Avail > 0 /\ Length \in 0..(buffer_len - 1)
    BY <1>1, LengthRange DEF ProbeGrow, MustGrow, TypeOK, Avail
  <1>3. /\ new_len \in Nat
        /\ new_len >= buffer_len + Avail + 1
        /\ new_len >= buffer_len + 2
        /\ new_len <= SOCKET_INPUT_MAXSIZE + SOCKET_INPUT_SIZE_HALF - 2
    BY <1>1, <1>2, HalfSize, SizeAssumption
    DEF ResizedLen, ProbeGrow, TooLong, TypeOK
  <1>4. /\ buffer' = Moved(new_len) /\ buffer_len' = new_len
        /\ head' = 0 /\ tail' = Length
        /\ UNCHANGED <<received, base, arrived, fin, filled, ret>>
        /\ want' = RestLength(Avail)
        /\ pc' = IF pc = "probe0" THEN "rest0" ELSE "rest"
    BY DEF ProbeGrow, kernel
  <1>. HIDE DEF new_len
  <1>5. buffer' \in [0..(new_len - 1) -> Int] /\ RingHoldsStream'
    BY <1>1, <1>3, <1>4, ResizeKeeps DEF TypeOK
  <1>6. TypeOK'
    <2>1. want' \in Int /\ pc' \in Locations
      BY <1>1, <1>2, <1>4 DEF RestLength, TypeOK, Locations
    <2>2. fin' \in BOOLEAN
      BY <1>1, <1>4 DEF TypeOK
    <2>. QED BY <1>1, <1>2, <1>3, <1>4, <1>5, <2>1, <2>2, SizeAssumption DEF TypeOK
  <1>7. FeedInv'
    <2>1. tail' + Avail < new_len
      BY <1>1, <1>2, <1>3, <1>4 DEF TypeOK
    <2>2. Avail' = Avail
      BY <1>4 DEF Avail
    <2>. QED BY <1>2, <1>4, <2>1, <2>2 DEF FeedInv, RestLength
  <1>8. GrowthBounded'
    BY <1>3, <1>4 DEF GrowthBounded
  <1>. QED BY <1>5, <1>6, <1>7, <1>8 DEF RingInv

\* Every step keeps the invariant when no byte arrives late.
LEMMA RingStep == ASSUME ~LateArrival PROVE RingInv /\ [Next]_vars => RingInv'
  <1> SUFFICES ASSUME RingInv, [Next]_vars PROVE RingInv'
    OBVIOUS
  <1>1. TypeOK /\ RingHoldsStream /\ GrowthBounded /\ FeedInv
    BY DEF RingInv
  <1>2. ASSUME NEW n \in 1..(StreamLen - arrived), Arrive(n) PROVE RingInv'
    <2>1. pc # "rest0" /\ arrived' = arrived + n
          /\ UNCHANGED <<members, received, fin, locals, ret, base>>
      BY <1>2 DEF Arrive
    <2>2. TypeOK'
      BY <1>1, <2>1, StreamAssumption DEF TypeOK, members, locals
    <2>3. FeedInv'
      BY <1>1, <2>1, StreamAssumption DEF FeedInv, TypeOK, Avail, members, locals
    <2>. QED BY <1>1, <2>1, <2>2, <2>3, SameRing DEF RingInv
  <1>3. CASE PeerClose
    <2>1. TypeOK'
      BY <1>1, <1>3 DEF PeerClose, TypeOK, members, locals
    <2>2. FeedInv'
      BY <1>1, <1>3 DEF PeerClose, FeedInv, Avail, members, locals
    <2>. QED BY <1>1, <1>3, <2>1, <2>2, SameRing DEF RingInv, PeerClose
  <1>4. CASE FeedFront
    <2>. DEFINE free == buffer_len - tail - 1
    <2>1. /\ free \in Nat /\ free < buffer_len - Length
          /\ tail + free <= buffer_len /\ head = 0
      BY <1>1, <1>4 DEF FeedFront, TypeOK, Length
    <2>2. Recv(free) \in Int /\ (Recv(free) > 0 => tail + Recv(free) < buffer_len)
      <3>. HIDE DEF free
      <3>1. Recv(free) \in Int /\ (Recv(free) > 0 => Recv(free) <= free)
        BY <1>1, <2>1, RecvResult
      <3>2. free + tail < buffer_len
        BY <1>1, <2>1 DEF free, TypeOK
      <3>. QED BY <1>1, <2>1, <3>1, <3>2 DEF TypeOK
    <2>3. FeedRecv(free, "probe0", tail + Recv(free))
      BY <1>4 DEF FeedFront
    <2>4. /\ TypeOK' /\ RingHoldsStream' /\ GrowthBounded'
          /\ \/ pc' = "idle"
             \/ /\ pc' = "probe0" /\ tail' = tail + Recv(free)
                /\ Recv(free) = free /\ UNCHANGED <<head, buffer_len>>
      <3>. HIDE DEF free
      <3>. QED BY <2>1, <2>2, <2>3, FeedRecvKeeps
    <2>5. FeedInv'
      <3>1. CASE pc' = "idle"
        BY <3>1 DEF FeedInv
      <3>2. CASE pc' # "idle"
        <4>1. tail + free = buffer_len - 1
          BY <1>1 DEF TypeOK
        <4>. HIDE DEF free
        <4>2. /\ pc' = "probe0" /\ tail' = tail + free
              /\ head' = head /\ buffer_len' = buffer_len
          BY <2>4, <3>2
        <4>. QED BY <2>1, <4>1, <4>2 DEF FeedInv
      <3>. QED BY <3>1, <3>2
    <2>. QED BY <2>4, <2>5 DEF RingInv
  <1>5. CASE FeedFull
    <2>1. TypeOK'
      BY <1>1, <1>5 DEF FeedFull, TypeOK, members, kernel, Locations
    <2>2. FeedInv'
      BY <1>1, <1>5 DEF FeedFull, FeedInv, TypeOK, members, kernel
    <2>. QED BY <1>1, <1>5, <2>1, <2>2, SameRing DEF RingInv, FeedFull, kernel
  <1>6. CASE FeedBack
    <2>. DEFINE free == buffer_len - tail
    <2>1. /\ free \in Nat /\ free > 0 /\ free < buffer_len - Length
          /\ tail + free <= buffer_len /\ head > 0
      BY <1>1, <1>6 DEF FeedBack, TypeOK, Length
    <2>2. /\ Recv(free) \in Int
          /\ Recv(free) > 0 => Recv(free) <= free
      BY <1>1, <2>1, RecvResult
    <2>3. Recv(free) > 0 => (tail + Recv(free)) % buffer_len =
                IF tail + Recv(free) < buffer_len THEN tail + Recv(free) ELSE 0
      <3> SUFFICES ASSUME Recv(free) > 0
                   PROVE  (tail + Recv(free)) % buffer_len =
                          IF tail + Recv(free) < buffer_len
                          THEN tail + Recv(free) ELSE 0
        OBVIOUS
      <3>. DEFINE a == tail + Recv(free)
      <3>1. a \in Nat /\ a <= buffer_len
        BY <1>1, <2>1, <2>2 DEF TypeOK
      <3>2. buffer_len \in Nat /\ buffer_len > 0
        BY <1>1, SizeAssumption DEF TypeOK
      <3>3. a < 2 * buffer_len
        BY <3>1, <3>2
      <3>. HIDE DEF a
      <3>4. a % buffer_len = IF a < buffer_len THEN a ELSE a - buffer_len
        BY <3>1, <3>2, <3>3, WrapIndex
      <3>5. a % buffer_len = IF a < buffer_len THEN a ELSE 0
        BY <3>1, <3>2, <3>4
      <3>. QED BY <3>5 DEF a
    <2>4. FeedRecv(free, "probeBack", (tail + Recv(free)) % buffer_len)
      BY <1>6 DEF FeedBack
    <2>5. /\ TypeOK' /\ RingHoldsStream' /\ GrowthBounded'
          /\ \/ pc' = "idle"
             \/ /\ pc' = "probeBack" /\ tail' = (tail + Recv(free)) % buffer_len
                /\ Recv(free) = free /\ UNCHANGED <<head, buffer_len>>
      <3>. HIDE DEF free
      <3>. QED BY <2>1, <2>3, <2>4, FeedRecvKeeps
    <2>6. FeedInv'
      <3>1. CASE pc' = "idle"
        BY <3>1 DEF FeedInv
      <3>2. CASE pc' # "idle"
        <4>1. tail + free = buffer_len
          BY <1>1 DEF TypeOK
        <4>. HIDE DEF free
        <4>2. /\ pc' = "probeBack" /\ tail' = (tail + Recv(free)) % buffer_len
              /\ Recv(free) = free /\ head' = head
          BY <2>5, <3>2
        <4>3. tail' = 0
          <5>1. (tail + free) % buffer_len =
                    IF tail + free < buffer_len THEN tail + free ELSE 0
            BY <2>1, <2>3, <4>2
          <5>2. ~(tail + free < buffer_len)
            BY <1>1, <2>1, <4>1 DEF TypeOK
          <5>. QED BY <4>2, <5>1, <5>2
        <4>. QED BY <2>1, <4>2, <4>3 DEF FeedInv
      <3>. QED BY <3>1, <3>2
    <2>. QED BY <2>5, <2>6 DEF RingInv
  <1>7. CASE FeedGap
    <2>. DEFINE free == head - tail - 1
    <2>1. free \in Nat /\ free < buffer_len - Length /\ head > tail
      BY <1>1, <1>7 DEF FeedGap, TypeOK, Length
    <2>2. Recv(free) \in Int /\ (Recv(free) > 0 => tail + Recv(free) < buffer_len)
      <3>. HIDE DEF free
      <3>1. Recv(free) \in Int /\ (Recv(free) > 0 => Recv(free) <= free)
        BY <1>1, <2>1, RecvResult
      <3>2. free + tail < buffer_len
        BY <1>1, <2>1 DEF free, TypeOK
      <3>. QED BY <1>1, <2>1, <3>1, <3>2 DEF TypeOK
    <2>3. FeedRecv(free, "probeGap", tail + Recv(free))
      BY <1>7 DEF FeedGap
    <2>4. /\ TypeOK' /\ RingHoldsStream' /\ GrowthBounded'
          /\ \/ pc' = "idle"
             \/ /\ pc' = "probeGap" /\ tail' = tail + Recv(free)
                /\ Recv(free) = free /\ UNCHANGED <<head, buffer_len>>
      <3>1. head <= tail => tail + free <= buffer_len
        BY <1>1, <2>1 DEF TypeOK
      <3>. HIDE DEF free
      <3>. QED BY <2>1, <2>2, <2>3, <3>1, FeedRecvKeeps
    <2>5. FeedInv'
      <3>1. CASE pc' = "idle"
        BY <3>1 DEF FeedInv
      <3>2. CASE pc' # "idle"
        <4>1. head = tail + free + 1
          BY <1>1 DEF TypeOK
        <4>. HIDE DEF free
        <4>2. /\ pc' = "probeGap" /\ tail' = tail + free
              /\ head' = head /\ buffer_len' = buffer_len
          BY <2>4, <3>2
        <4>. QED BY <2>1, <4>1, <4>2 DEF FeedInv
      <3>. QED BY <3>1, <3>2
    <2>. QED BY <2>4, <2>5 DEF RingInv
  <1>8. CASE ProbeNone
    <2>1. TypeOK'
      BY <1>1, <1>8 DEF ProbeNone, FeedReturn, TypeOK, members, kernel, Locations
    <2>2. FeedInv'
      BY <1>8 DEF ProbeNone, FeedReturn, FeedInv
    <2>. QED BY <1>1, <1>8, <2>1, <2>2, SameRing DEF RingInv, ProbeNone, kernel
  <1>9. CASE ProbeWrap
    <2>1. TypeOK'
      BY <1>1, <1>9 DEF ProbeWrap, TypeOK, members, kernel, Locations, Avail
    <2>2. FeedInv'
      BY <1>1, <1>9 DEF ProbeWrap, FeedInv, TypeOK, members, kernel, Avail
    <2>. QED BY <1>1, <1>9, <2>1, <2>2, SameRing DEF RingInv, ProbeWrap, kernel
  <1>10. CASE ProbeOverflow
    <2>1. TypeOK'
      <3>1. buffer' \in [0..(buffer_len' - 1) -> Int]
        BY <1>10, SizeAssumption DEF ProbeOverflow, NewBuffer, Junk
      <3>. QED
        BY <1>1, <1>10, <3>1, SizeAssumption
        DEF ProbeOverflow, FeedReturn, TypeOK, kernel, Locations, Overflow
    <2>2. RingHoldsStream'
      BY <1>1, <1>10 DEF ProbeOverflow, RingHoldsStream, Length, kernel, TypeOK
    <2>3. FeedInv'
      BY <1>10 DEF ProbeOverflow, FeedReturn, FeedInv
    <2>4. GrowthBounded'
      BY <1>10, SizeAssumption, HalfSize DEF ProbeOverflow, GrowthBounded
    <2>. QED BY <2>1, <2>2, <2>3, <2>4 DEF RingInv
  <1>11. CASE ProbeGrow
    BY <1>11, ProbeGrowKeeps
  <1>12. CASE FeedRest
    BY <1>12, FeedRestKeeps
  <1>13. ASSUME NEW n \in 1..(buffer_len - 1), Fetch(n) \/ Skip(n) PROVE RingInv'
    <2>1. /\ pc = "idle" /\ n \in Nat /\ n > 0 /\ n <= Length
          /\ head' = (head + n) % buffer_len /\ base' = base + n
          /\ UNCHANGED <<buffer, buffer_len, tail, kernel, locals, ret>>
      BY <1>1, <1>13 DEF Fetch, Skip, TypeOK
    <2>2. head' \in 0..(buffer_len - 1) /\ RingHoldsStream'
      BY <1>1, <2>1, AdvanceKeeps DEF kernel
    <2>3. TypeOK'
      BY <1>1, <2>1, <2>2 DEF TypeOK, kernel, locals
    <2>4. FeedInv' /\ GrowthBounded'
      BY <1>1, <2>1 DEF FeedInv, GrowthBounded, locals
    <2>. QED BY <2>2, <2>3, <2>4 DEF RingInv
  <1>14. CASE UNCHANGED vars
    <2>1. TypeOK' /\ FeedInv'
      BY <1>1, <1>14 DEF vars, members, kernel, locals, TypeOK, FeedInv, Avail
    <2>. QED BY <1>1, <1>14, <2>1, SameRing DEF RingInv, vars, kernel
  <1>. QED
    BY <1>2, <1>3, <1>4, <1>5, <1>6, <1>7, <1>8, <1>9, <1>10, <1>11, <1>12,
       <1>13, <1>14
    DEF Next, Feed

LEMMA AlwaysRing ==
    ASSUME ~LateArrival
    PROVE  Spec => []RingInv
  <1>1. Init => RingInv
    BY InitRing
  <1>2. RingInv /\ [Next]_vars => RingInv'
    BY RingStep
  <1>. QED BY <1>1, <1>2, PTL DEF Spec

\* For every size, maximum and stream: head_ and tail_ stay inside the current
\* allocation.
THEOREM RingTypes ==
    ASSUME ~LateArrival
    PROVE  Spec => []TypeOK
  <1>1. RingInv => TypeOK
    BY DEF RingInv
  <1>. QED BY <1>1, AlwaysRing, PTL

\* The ring holds exactly the bytes received and not yet fetched, in the order of
\* the stream, through every wrap, resize and split fetch.
THEOREM RingSafety ==
    ASSUME ~LateArrival
    PROVE  Spec => []RingHoldsStream
  <1>1. RingInv => RingHoldsStream
    BY DEF RingInv
  <1>. QED BY <1>1, AlwaysRing, PTL

\* What each branch of feed knows of the ring when it comes back from a system
\* call still holds: the ring is full or has just wrapped at the probe, and there
\* is room at the second recv.
THEOREM FeedSafety ==
    ASSUME ~LateArrival
    PROVE  Spec => []FeedInv
  <1>1. RingInv => FeedInv
    BY DEF RingInv
  <1>. QED BY <1>1, AlwaysRing, PTL

\* The second recv of feed stores inside the allocation and leaves a slot free.
THEOREM RecvSafety ==
    ASSUME ~LateArrival
    PROVE  Spec => []RecvFits
  <1>1. RingInv => RecvFits
    BY DEF RingInv, RecvFits, FeedInv, RecvCount, Avail, TypeOK
  <1>. QED BY <1>1, AlwaysRing, PTL

\* However the growths add up, the buffer exceeds the maximum by less than half
\* a new buffer.
THEOREM GrowthSafety ==
    ASSUME ~LateArrival
    PROVE  Spec => []GrowthBounded
  <1>1. RingInv => GrowthBounded
    BY DEF RingInv
  <1>. QED BY <1>1, AlwaysRing, PTL

\* What fetch copies out, in one or two pieces, is the n bytes after head_.
LEMMA CopiedBytes ==
    ASSUME RingInv, NEW n \in Nat, n > 0, n <= Length
    PROVE  CopiedOut(n) = [i \in 1..n |-> base + i - 1]
  <1>1. TypeOK /\ Length \in 0..(buffer_len - 1)
    BY LengthRange DEF RingInv
  <1>2. ASSUME NEW i \in 1..n
        PROVE  /\ i - 1 \in 0..(Length - 1)
               /\ buffer[Slot(i - 1)] = base + i - 1
    <2>1. i - 1 \in 0..(Length - 1)
      BY <1>1
    <2>2. buffer[Slot(i - 1)] = base + (i - 1)
      BY <2>1 DEF RingInv, RingHoldsStream
    <2>. QED BY <1>1, <2>1, <2>2 DEF TypeOK
  <1>3. CASE head < tail \/ n < buffer_len - head
    <2>1. ASSUME NEW i \in 1..n PROVE Slot(i - 1) = head + i - 1
      BY <1>1, <1>3 DEF Slot, Length, TypeOK
    <2>2. CopiedOut(n) = [i \in 1..n |-> buffer[head + i - 1]]
      BY <1>3 DEF CopiedOut
    <2>. QED BY <1>2, <2>1, <2>2
  <1>4. CASE ~(head < tail \/ n < buffer_len - head)
    <2>1. CopiedOut(n) = [i \in 1..n |->
                            IF i <= buffer_len - head THEN buffer[head + i - 1]
                            ELSE buffer[i - 1 - (buffer_len - head)]]
      BY <1>4 DEF CopiedOut
    <2>2. ASSUME NEW i \in 1..n
          PROVE  (IF i <= buffer_len - head THEN buffer[head + i - 1]
                  ELSE buffer[i - 1 - (buffer_len - head)]) = base + i - 1
      <3>1. CASE i <= buffer_len - head
        <4>1. Slot(i - 1) = head + i - 1
          BY <1>1, <3>1 DEF Slot, TypeOK
        <4>. QED BY <1>2, <3>1, <4>1
      <3>2. CASE ~(i <= buffer_len - head)
        <4>1. Slot(i - 1) = i - 1 - (buffer_len - head)
          BY <1>1, <3>2 DEF Slot, TypeOK
        <4>. QED BY <1>2, <3>2, <4>1
      <3>. QED BY <3>1, <3>2
    <2>. QED BY <2>1, <2>2
  <1>. QED BY <1>3, <1>4

\* Only fetch hands bytes over, and it hands over the next ones.
LEMMA StepInOrder ==
    ASSUME RingInv, [Next]_vars
    PROVE  out' # out => out' = [i \in 1..(base' - base) |-> base + i - 1]
  <1>1. ASSUME NEW n \in 1..(buffer_len - 1), Fetch(n)
        PROVE  out' = [i \in 1..(base' - base) |-> base + i - 1]
    <2>1. n \in Nat /\ n > 0 /\ base \in Nat
      BY DEF RingInv, TypeOK
    <2>2. n <= Length /\ out' = CopiedOut(n) /\ base' = base + n
      BY <1>1 DEF Fetch
    <2>3. out' = [i \in 1..n |-> base + i - 1]
      BY <2>1, <2>2, CopiedBytes
    <2>4. base' - base = n
      BY <2>1, <2>2
    <2>. QED BY <2>3, <2>4
  <1>2. ASSUME ~\E n \in 1..(buffer_len - 1) : Fetch(n)
        PROVE  out' = out
    BY <1>2 DEF Next, Feed, vars, Arrive, PeerClose, FeedFront, FeedFull,
                FeedBack, FeedGap, FeedRecv, ProbeNone, ProbeWrap,
                ProbeOverflow, ProbeGrow, FeedRest, Skip
  <1>. QED BY <1>1, <1>2

\* Whatever recv returned, however the ring wrapped or grew in between, the
\* parser sees the bytes of the stream in order and each at most once.
THEOREM FetchOrder ==
    ASSUME ~LateArrival
    PROVE  Spec => FetchInOrder
  <1>1. RingInv /\ [Next]_vars =>
            [out' # out =>
                out' = [i \in 1..(base' - base) |-> base + i - 1]]_vars
    BY StepInOrder
  <1>. QED BY <1>1, AlwaysRing, PTL DEF Spec, FetchInOrder

\* The bytes of the ring from head_ on: what Queue takes for the queue.
Waiting == [i \in 1..Length |-> buffer[Slot(i - 1)]]

\* Under the invariant they are the block of the stream between what fetch has
\* handed over and what recv has.
LEMMA WaitingBytes ==
    RingInv => /\ received - base \in Nat
               /\ Waiting = Bytes(base, received - base)
  <1> SUFFICES ASSUME RingInv
               PROVE  /\ received - base \in Nat
                      /\ Waiting = Bytes(base, received - base)
    OBVIOUS
  <1>1. /\ Length \in Nat /\ Length = received - base /\ base \in Nat
        /\ \A i \in 0..(Length - 1) : buffer[Slot(i)] = base + i
    BY LengthRange DEF RingInv, RingHoldsStream, TypeOK
  <1>2. ASSUME NEW i \in 1..Length PROVE buffer[Slot(i - 1)] = base + i - 1
    <2>1. i - 1 \in 0..(Length - 1)
      BY <1>1
    <2>2. buffer[Slot(i - 1)] = base + (i - 1)
      BY <1>1, <2>1
    <2>. QED BY <1>1, <2>2
  <1>3. Waiting = Bytes(base, Length)
    BY <1>2 DEF Waiting, Bytes
  <1>. QED BY <1>1, <1>3

\* The queue's part of a step, read off the two counts of the model: bytes are
\* received, fetched, dropped, or nothing happens to the ring.
LEMMA StepCounts ==
    ASSUME RingInv, [Next]_vars
    PROVE  \/ UNCHANGED <<received, base, out>>
           \/ /\ \E r \in Nat : r > 0 /\ received' = received + r
              /\ UNCHANGED <<base, out>>
           \/ \E n \in Nat :
                /\ n > 0 /\ n <= Length /\ base' = base + n
                /\ out' = Bytes(base, n) \/ out' = out
                /\ UNCHANGED received
  <1>1. TypeOK /\ Length \in Nat /\ Length = received - base
    BY LengthRange DEF RingInv, RingHoldsStream, TypeOK
  <1>2. ASSUME NEW n \in 1..(StreamLen - arrived), Arrive(n)
        PROVE  UNCHANGED <<received, base, out>>
    BY <1>2 DEF Arrive
  <1>3. ASSUME NEW free \in Int, NEW probe, NEW newtail,
               FeedRecv(free, probe, newtail)
        PROVE  \/ UNCHANGED <<received, base, out>>
               \/ /\ \E r \in Nat : r > 0 /\ received' = received + r
                  /\ UNCHANGED <<base, out>>
    <2>1. Recv(free) \in Int
      BY <1>1, RecvResult
    <2>2. CASE Recv(free) <= 0
      BY <1>3, <2>2 DEF FeedRecv
    <2>3. CASE Recv(free) > 0
      <3>1. Recv(free) \in Nat /\ ~(Recv(free) <= 0)
        BY <2>1, <2>3
      <3>2. received' = received + Recv(free) /\ UNCHANGED <<base, out>>
        BY <1>3, <3>1 DEF FeedRecv
      <3>. QED BY <2>3, <3>1, <3>2
    <2>. QED BY <2>1, <2>2, <2>3
  <1>4. CASE FeedFront \/ FeedBack \/ FeedGap
    <2>1. /\ buffer_len - tail - 1 \in Int
          /\ buffer_len - tail \in Int /\ head - tail - 1 \in Int
      BY <1>1 DEF TypeOK
    <2>. QED BY <1>3, <1>4, <2>1 DEF FeedFront, FeedBack, FeedGap
  <1>5. CASE PeerClose \/ FeedFull \/ ProbeNone \/ ProbeWrap \/ ProbeGrow
    BY <1>5 DEF PeerClose, FeedFull, ProbeNone, ProbeWrap, ProbeGrow, kernel
  <1>6. CASE ProbeOverflow
    <2>1. base' = received /\ UNCHANGED <<received, out>>
      BY <1>6 DEF ProbeOverflow, kernel
    <2>2. base' = base + Length
      BY <1>1, <2>1 DEF TypeOK
    <2>3. CASE Length = 0
      BY <1>1, <2>1, <2>2, <2>3 DEF TypeOK
    <2>4. CASE Length > 0
      BY <1>1, <2>1, <2>2, <2>4
    <2>. QED BY <1>1, <2>3, <2>4
  <1>7. CASE FeedRest
    <2>1. Recv(want) \in Int
      BY <1>1, RecvResult DEF TypeOK
    <2>2. CASE Recv(want) <= 0
      BY <1>7, <2>2 DEF FeedRest
    <2>3. CASE Recv(want) > 0
      <3>1. Recv(want) \in Nat /\ ~(Recv(want) <= 0)
        BY <2>1, <2>3
      <3>2. received' = received + Recv(want) /\ UNCHANGED <<base, out>>
        BY <1>7, <3>1 DEF FeedRest
      <3>. QED BY <2>3, <3>1, <3>2
    <2>. QED BY <2>1, <2>2, <2>3
  <1>8. ASSUME NEW n \in 1..(buffer_len - 1), Fetch(n) \/ Skip(n)
        PROVE  \E m \in Nat :
                  /\ m > 0 /\ m <= Length /\ base' = base + m
                  /\ out' = Bytes(base, m) \/ out' = out
                  /\ UNCHANGED received
    <2>1. /\ n \in Nat /\ n > 0 /\ n <= Length /\ base' = base + n
          /\ UNCHANGED received
      BY <1>1, <1>8 DEF Fetch, Skip, kernel, TypeOK
    <2>2. CASE Fetch(n)
      <3>1. out' = Bytes(base, n)
        BY <2>1, <2>2, CopiedBytes DEF Fetch, Bytes
      <3>. QED BY <2>1, <3>1
    <2>3. CASE Skip(n)
      BY <2>1, <2>3 DEF Skip
    <2>. QED BY <1>8, <2>2, <2>3
  <1>9. CASE UNCHANGED vars
    BY <1>9 DEF vars, kernel
  <1>. QED
    BY <1>2, <1>4, <1>5, <1>6, <1>7, <1>8, <1>9 DEF Next, Feed

\* A step of the ring is a step of the queue or leaves the queue alone.
LEMMA QueueStep ==
    ASSUME RingInv, RingInv', arrived' <= StreamLen, [Next]_vars
    PROVE  [Queue!Next]_(Queue!vars)
  <1>1. /\ received \in Nat /\ base \in Nat /\ received - base \in Nat
        /\ Waiting = Bytes(base, received - base)
        /\ Length = received - base
    BY WaitingBytes DEF RingInv, TypeOK, RingHoldsStream
  <1>2. /\ received' \in Nat /\ base' \in Nat /\ received' - base' \in Nat
        /\ Waiting' = Bytes(base', received' - base')
    <2>1. RingInv' => /\ (received - base \in Nat)'
                      /\ (Waiting = Bytes(base, received - base))'
      BY WaitingBytes, PTL
    <2>. QED BY <2>1 DEF RingInv, TypeOK
  <1>3. received' <= StreamLen
    BY StreamAssumption DEF RingInv, TypeOK
  <1>4. CASE UNCHANGED <<received, base, out>>
    <2>1. Waiting' = Waiting
      BY <1>1, <1>2, <1>4
    <2>. QED BY <1>4, <2>1 DEF Queue!vars, Waiting
  <1>5. ASSUME NEW r \in Nat, r > 0, received' = received + r,
               UNCHANGED <<base, out>>
        PROVE  Queue!Next
    <2>1. r \in 1..StreamLen
      BY <1>1, <1>3, <1>5, StreamAssumption
    <2>2. Waiting' = Waiting \o Bytes(received, r)
      <3>1. received' - base' = (received - base) + r
        BY <1>1, <1>5
      <3>2. base + (received - base) = received
        BY <1>1
      <3>. DEFINE k == received - base
      <3>3. k \in Nat
        BY <1>1
      <3>. HIDE DEF k
      <3>4. Bytes(base, k) \o Bytes(base + k, r) = Bytes(base, k + r)
        BY <1>1, <3>3, BytesConcat
      <3>. QED BY <1>1, <1>2, <1>5, <3>1, <3>2, <3>4, Zenon DEF k
    <2>3. Queue!Enqueue(r)
      BY <1>5, <2>2 DEF Queue!Enqueue, Waiting, Bytes
    <2>. QED BY <2>1, <2>3 DEF Queue!Next
  <1>6. ASSUME NEW n \in Nat, n > 0, n <= Length, base' = base + n,
               out' = Bytes(base, n) \/ out' = out, UNCHANGED received
        PROVE  Queue!Next
    <2>1. n \in 1..StreamLen
      BY <1>1, <1>3, <1>6, StreamAssumption
    <2>2. /\ n <= Len(Waiting)
          /\ SubSeq(Waiting, 1, n) = Bytes(base, n)
          /\ SubSeq(Waiting, n + 1, Len(Waiting)) =
                 Bytes(base + n, received - base - n)
      <3>1. PICK k \in Nat : k = received - base
        BY <1>1
      <3>2. Waiting = Bytes(base, k) /\ base \in Nat /\ n \in Nat /\ n <= k
        BY <1>1, <1>6, <3>1
      <3>3. Len(Bytes(base, k)) = k
        BY <3>2, BytesSeq
      <3>4. /\ SubSeq(Bytes(base, k), 1, n) = Bytes(base, n)
            /\ SubSeq(Bytes(base, k), n + 1, Len(Bytes(base, k))) = Bytes(base + n, k - n)
        BY <3>2, BytesSplit
      <3>. QED BY <3>1, <3>2, <3>3, <3>4
    <2>3. Waiting' = SubSeq(Waiting, n + 1, Len(Waiting))
      <3>1. received' - base' = received - base - n
        BY <1>1, <1>6
      <3>. QED BY <1>2, <1>6, <2>2, <3>1
    <2>4. CASE out' = Bytes(base, n)
      <3>1. Queue!Dequeue(n)
        BY <1>6, <2>2, <2>3, <2>4 DEF Queue!Dequeue, Waiting
      <3>. QED BY <2>1, <3>1 DEF Queue!Next
    <2>5. CASE out' = out
      <3>1. Queue!Discard(n)
        BY <1>6, <2>2, <2>3, <2>5 DEF Queue!Discard, Waiting
      <3>. QED BY <2>1, <3>1 DEF Queue!Next
    <2>. QED BY <1>6, <2>4, <2>5
  <1>. QED BY <1>4, <1>5, <1>6, StepCounts

\* For every size, maximum and stream: SocketInput is a first-in first-out
\* queue of the bytes recv hands over.  Wherever head_ and tail_ stand, a feed
\* adds the next bytes of the stream at its end, fetch takes its oldest ones,
\* skip and an overflow throw its oldest ones away, and resize is invisible.
THEOREM InputIsQueue ==
    ASSUME ~LateArrival
    PROVE  Spec => ImplementsQueue
  <1>. DEFINE Inv == RingInv /\ arrived <= StreamLen
  <1>1. Init => Inv
    BY InitRing, StreamAssumption DEF Init
  <1>2. Inv /\ [Next]_vars => Inv'
    <2> SUFFICES ASSUME RingInv, arrived <= StreamLen, [Next]_vars
                 PROVE  arrived' <= StreamLen
      BY RingStep
    <2>1. CASE \E n \in 1..(StreamLen - arrived) : Arrive(n)
      BY <2>1, StreamAssumption DEF Arrive, RingInv, TypeOK
    <2>2. CASE ~\E n \in 1..(StreamLen - arrived) : Arrive(n)
      <3>1. arrived' = arrived
        BY <2>2 DEF Next, Feed, vars, kernel, PeerClose, FeedFront, FeedFull,
                    FeedBack, FeedGap, FeedRecv, ProbeNone, ProbeWrap,
                    ProbeOverflow, ProbeGrow, FeedRest, Fetch, Skip
      <3>. QED BY <3>1
    <2>. QED BY <2>1, <2>2
  <1>3. Init => Queue!Init
    <2> SUFFICES ASSUME Init PROVE Queue!Init
      OBVIOUS
    <2>1. Length = 0 /\ received = 0 /\ out = <<>>
      BY DEF Init, Length
    <2>2. Waiting = <<>>
      BY <2>1 DEF Waiting
    <2>. QED BY <2>1, <2>2 DEF Queue!Init, Waiting
  <1>4. Inv /\ Inv' /\ [Next]_vars => [Queue!Next]_(Queue!vars)
    BY QueueStep
  <1>. QED BY <1>1, <1>2, <1>3, <1>4, PTL DEF Spec, ImplementsQueue, Queue!Spec
================================================================================
