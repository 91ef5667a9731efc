---------------------------- MODULE ConnectorProofs ----------------------------
(***************************************************************************)
(* One connection of the TCP server over its two ring buffers, for every   *)
(* size of the buffers and of the packets.  What the buffers keep by       *)
(* themselves is taken from their own proofs.                              *)
(***************************************************************************)
EXTENDS Connector, SequenceTheorems, FiniteSetTheorems, TLAPS

InP == INSTANCE SocketInputProofs WITH pc <- ipc, out <- got

OutP == INSTANCE SocketOutputProofs WITH
    buffer <- obuffer, buffer_len <- obuffer_len, head <- ohead, tail <- otail,
    pc <- opc

--------------------------------------------------------------------------------
(* The invariants. *)

\* Between two calls of feed the parser has taken something from the ring, so
\* that the first recv of a feed has room; feed comes as far as its probe only
\* when recv has handed bytes over, and to its second recv with more waiting.
ReadInv ==
    /\ cpc \in {"wait", "read", "parse", "content", "write"}
    /\ reset \in BOOLEAN /\ deleted \in BOOLEAN
    /\ header.size \in Nat /\ \A q \in packets : q.size \in Nat
    /\ ipc # "idle" => cpc = "read" /\ filled > 0
    /\ ipc = "idle" /\ cpc # "parse" => In!Length < buffer_len - 1
    /\ ipc = "idle" /\ cpc = "read" => Readable
    /\ ipc \in {"probe0", "rest0"} => want > 0
    /\ ipc = "rest0" => In!Avail > 0

InputInv == In!RingInv /\ ReadInv

\* A client that sends whole packets and reads every reply before the next one;
\* the kernel takes a reply in one send, and a packet fits what feed can receive.
PoliteClient ==
    /\ ~LateArrival /\ ~Segmented /\ ~Pipelined
    /\ ReplySize <= SendBuffer
    /\ \A n \in PacketSizes : /\ n <= 2 * (SOCKET_INPUT_SIZE - 1)
                               /\ 2 * n <= SOCKET_INPUT_MAXSIZE

\* The packets of the client lie in its stream one after the other.
PacketsInv ==
    /\ IsFiniteSet(packets)
    /\ packets \subseteq [at : Nat, size : PacketSizes, id : {"CS_PING"}]
    /\ Streamed \in Nat /\ Streamed <= StreamLen
    /\ \A q \in packets : q.at + q.size <= Streamed
    /\ \A q, r \in packets : q.at = r.at => q = r

\* The end of the last packet that was executed.
Done ==
    IF executed = <<>> THEN 0
    ELSE executed[Len(executed)].at + executed[Len(executed)].size

\* Every packet is executed and everything read, and of the replies all but the
\* last one have been read by the client.
Answering ==
    /\ Len(executed) = Cardinality(packets) /\ Done = Streamed
    /\ base = Streamed /\ received = Streamed /\ arrived = Streamed
    /\ cpc \in {"wait", "read", "write"} /\ ipc = "idle"
    /\ \/ sent = written
       \/ sent = acked /\ sent + ReplySize = written

\* Packet p is on its way to the handler, and the client has read every reply.
Asks(p) ==
    /\ Len(executed) + 1 = Cardinality(packets)
    /\ p.at = Done /\ p.at + p.size = Streamed
    /\ sent = written /\ acked = sent
    /\ \/ /\ cpc \in {"wait", "read"} /\ ipc = "idle"
          /\ received = p.at /\ base = p.at /\ arrived \in {p.at, Streamed}
       \/ /\ cpc = "read" /\ ipc \in {"probe0", "probeBack", "rest0", "rest"}
          /\ base = p.at /\ arrived = Streamed
       \/ /\ cpc = "parse" /\ ipc = "idle"
          /\ base = p.at /\ received = Streamed /\ arrived = Streamed
       \/ /\ cpc = "content" /\ ipc = "idle" /\ header = p
          /\ base = p.at + PACKET_HEADER_SIZE
          /\ received = Streamed /\ arrived = Streamed

\* The second recv of feed asks for all that is left of the packet.
PlanInv ==
    /\ ipc = "probe0" => want = buffer_len - 1
    /\ ipc = "rest0" => In!Avail <= want
    /\ ipc = "rest" => want = In!Avail

\* The output buffer is sent only when there is something to send.
WriteInv ==
    /\ opc = "send" => cpc = "write"
    /\ cpc = "write" => sent # written

\* The packets, those the handler was given and the replies it wrote.
Ledger ==
    /\ PacketsInv /\ OutputGrowsOnce
    /\ executed \in Seq(packets) /\ ExecutedAsSent
    /\ written = ReplySize * Len(executed)

\* Where the event loop is with the client's last packet.
Turn ==
    /\ PlanInv /\ WriteInv
    /\ CrashesOnlyOnBrokenPipe /\ (deleted => fin \/ reset)
    /\ Answering \/ \E p \in packets : Asks(p)

\* The inductive invariant of a connection with such a client.
TurnInv == InputInv /\ Out!OutputInv /\ Ledger /\ Turn
--------------------------------------------------------------------------------
(* What is proved of the two buffers, for the buffers of a connection. *)

\* The lengths of the client's packets and of a reply.
LEMMA Sizes ==
    /\ PACKET_HEADER_SIZE \in Nat \ {0} /\ ReplySize \in Nat \ {0}
    /\ PacketSizes \subseteq Nat /\ \A n \in PacketSizes : n >= PACKET_HEADER_SIZE
    /\ StraySizes \subseteq Nat
  BY FramingAssumption

LEMMA SameInput ==
    /\ In!RingInv <=> InP!RingInv
    /\ [In!Next]_(In!vars) <=> [InP!Next]_(InP!vars)
  <1>1. In!RingInv <=> InP!RingInv
    BY DEF In!RingInv, InP!RingInv, In!TypeOK, InP!TypeOK, In!RingHoldsStream,
           InP!RingHoldsStream, In!FeedInv, InP!FeedInv, In!GrowthBounded,
           InP!GrowthBounded, In!Length, InP!Length, In!Slot, InP!Slot, In!Avail,
           InP!Avail, In!Locations, InP!Locations, In!SOCKET_INPUT_SIZE_HALF,
           InP!SOCKET_INPUT_SIZE_HALF
  <1>2. In!Next <=> InP!Next
    BY DEF In!Next, InP!Next, In!Arrive, InP!Arrive, In!PeerClose, InP!PeerClose,
           In!Feed, InP!Feed, In!FeedFront, InP!FeedFront, In!FeedFull, InP!FeedFull,
           In!FeedBack, InP!FeedBack, In!FeedGap, InP!FeedGap, In!ProbeNone,
           InP!ProbeNone, In!ProbeWrap, InP!ProbeWrap, In!ProbeOverflow,
           InP!ProbeOverflow, In!ProbeGrow, InP!ProbeGrow, In!FeedRest, InP!FeedRest,
           In!Fetch, InP!Fetch, In!Skip, InP!Skip, In!FeedReturn, InP!FeedReturn,
           In!FeedRecv, InP!FeedRecv, In!MustGrow, InP!MustGrow, In!TooLong,
           InP!TooLong, In!RestLength, InP!RestLength, In!ResizedLen, InP!ResizedLen,
           In!Moved, InP!Moved, In!CopiedOut, InP!CopiedOut, In!Stored, InP!Stored,
           In!NewBuffer, InP!NewBuffer, In!Length, InP!Length, In!Recv, InP!Recv,
           In!RecvCount, InP!RecvCount, In!Avail, InP!Avail, In!members, InP!members,
           In!kernel, InP!kernel, In!locals, InP!locals, In!SOCKET_INPUT_SIZE_HALF,
           InP!SOCKET_INPUT_SIZE_HALF, In!Junk, InP!Junk, In!Overflow, InP!Overflow
  <1>3. UNCHANGED In!vars <=> UNCHANGED InP!vars
    BY DEF In!vars, InP!vars, In!members, InP!members, In!kernel, InP!kernel,
           In!locals, InP!locals
  <1>. QED BY <1>1, <1>2, <1>3

LEMMA SameOutput ==
    /\ Out!OutputInv <=> OutP!OutputInv
    /\ [Out!Next]_(Out!vars) <=> [OutP!Next]_(OutP!vars)
    /\ \A size : Out!Write(size) <=> OutP!Write(size)
  <1>1. Out!OutputInv <=> OutP!OutputInv
    BY DEF Out!OutputInv, OutP!OutputInv, Out!TypeOK, OutP!TypeOK, Out!NeverWraps,
           OutP!NeverWraps, Out!RingHoldsReplies, OutP!RingHoldsReplies, Out!Length,
           OutP!Length, Out!Slot, OutP!Slot
  <1>2. Out!Next <=> OutP!Next
    BY DEF Out!Next, OutP!Next, Out!Ack, OutP!Ack, Out!Reset, OutP!Reset, Out!Write,
           OutP!Write, Out!Refresh, OutP!Refresh, Out!SendSome, OutP!SendSome,
           Out!SendFails, OutP!SendFails, Out!Grown, OutP!Grown, Out!MustGrow,
           OutP!MustGrow, Out!FreeBytes, OutP!FreeBytes, Out!ResizedLen,
           OutP!ResizedLen, Out!Moved, OutP!Moved, Out!Copied, OutP!Copied,
           Out!Length, OutP!Length, Out!LeftBytes, OutP!LeftBytes, Out!Send,
           OutP!Send, Out!Room, OutP!Room, Out!members, OutP!members,
           Out!SOCKET_OUTPUT_SIZE_HALF, OutP!SOCKET_OUTPUT_SIZE_HALF, Out!Junk,
           OutP!Junk
  <1>3. UNCHANGED Out!vars <=> UNCHANGED OutP!vars
    BY DEF Out!vars, OutP!vars, Out!members, OutP!members
  <1>4. ASSUME NEW size PROVE Out!Write(size) <=> OutP!Write(size)
    BY DEF Out!Write, OutP!Write, Out!Grown, OutP!Grown, Out!MustGrow, OutP!MustGrow,
           Out!FreeBytes, OutP!FreeBytes, Out!ResizedLen, OutP!ResizedLen, Out!Moved,
           OutP!Moved, Out!Copied, OutP!Copied, Out!Length, OutP!Length, Out!members,
           OutP!members, Out!SOCKET_OUTPUT_SIZE_HALF, OutP!SOCKET_OUTPUT_SIZE_HALF,
           Out!Junk, OutP!Junk
  <1>. QED BY <1>1, <1>2, <1>3, <1>4

\* SocketInput's invariant is kept by every step on the input buffer,
LEMMA InputKept ==
    ASSUME ~LateArrival, In!RingInv, [In!Next]_(In!vars)
    PROVE  In!RingInv'
  <1>1. InP!RingInv /\ [InP!Next]_(InP!vars)
    BY SameInput
  <1>2. InP!RingInv'
    BY <1>1, BufferAssumption, InP!RingStep
  <1>3. In!RingInv' <=> InP!RingInv'
    BY SameInput, PTL
  <1>. QED BY <1>2, <1>3

\* and SocketOutput's by every step on the output buffer, whatever its size.
LEMMA OutputKept ==
    ASSUME Out!OutputInv, [Out!Next]_(Out!vars) \/ Out!Write(ReplySize)
    PROVE  Out!OutputInv'
  <1>1. OutP!OutputInv /\ ([OutP!Next]_(OutP!vars) \/ OutP!Write(ReplySize))
    BY SameOutput
  <1>2. ReplySize \in Nat /\ ReplySize > 0
    BY Sizes
  <1>3. OutP!OutputInv'
    <2>1. CASE [OutP!Next]_(OutP!vars)
      BY <1>1, <2>1, BufferAssumption, OutP!OutputStep
    <2>2. CASE OutP!Write(ReplySize)
      BY <1>1, <1>2, <2>2, BufferAssumption, OutP!WriteKeeps
    <2>. QED BY <1>1, <2>1, <2>2
  <1>4. Out!OutputInv' <=> OutP!OutputInv'
    BY SameOutput, PTL
  <1>. QED BY <1>3, <1>4

LEMMA InitKept == Init => In!RingInv /\ Out!OutputInv
  <1> SUFFICES ASSUME Init PROVE In!RingInv /\ Out!OutputInv
    OBVIOUS
  <1>1. InP!Init /\ OutP!Init
    BY DEF Init, In!Init, InP!Init, Out!Init, OutP!Init, In!NewBuffer, InP!NewBuffer,
           Out!NewBuffer, OutP!NewBuffer, In!Junk, InP!Junk, Out!Junk, OutP!Junk,
           In!NoCall, InP!NoCall
  <1>2. InP!RingInv
    BY <1>1, BufferAssumption, InP!InitRing
  <1>3. OutP!OutputInv
    BY <1>1, BufferAssumption, OutP!InitOutput
  <1>. QED BY <1>2, <1>3, SameInput, SameOutput
--------------------------------------------------------------------------------
(* exec_read. *)

\* Every step of the connection is a step of its input buffer.
LEMMA InputSteps ==
    ASSUME InputInv, [Next]_vars
    PROVE  [In!Next]_(In!vars)
  <1>1. CASE UNCHANGED input
    BY <1>1 DEF input, In!vars, In!members, In!kernel, In!locals
  <1>2. CASE \E n \in 1..(StreamLen - arrived) : Arrive(n)
    BY <1>2 DEF Arrive, In!Next
  <1>3. CASE PeerClose
    BY <1>3 DEF PeerClose, In!Next
  <1>4. CASE ExecRead
    BY <1>4 DEF ExecRead, In!Next
  <1>5. ASSUME NEW n \in Int, In!Fetch(n) PROVE In!Next
    <2>1. In!TypeOK
      BY DEF InputInv, In!RingInv
    <2>2. n \in 1..(buffer_len - 1)
      BY <1>5, <2>1 DEF In!Fetch, In!Length, In!TypeOK
    <2>. QED BY <1>5, <2>2 DEF In!Next
  <1>6. CASE ParseHeader
    <2>1. PACKET_HEADER_SIZE \in Int
      BY Sizes
    <2>. QED BY <1>5, <1>6, <2>1 DEF ParseHeader
  <1>7. CASE ParseContent
    <2>1. ContentSize(header) \in Int
      BY Sizes DEF InputInv, ReadInv, ContentSize
    <2>2. In!Fetch(ContentSize(header)) \/ UNCHANGED input
      BY <1>7 DEF ParseContent
    <2>. QED BY <1>1, <1>5, <2>1, <2>2
  <1>8. CASE Client \/ PeerReset \/ EpollWait \/ Crash \/ ExecWrite
    BY <1>1, <1>8 DEF Client, SendPacket, PeerReset, EpollWait, Crash, ExecWrite
  <1>9. CASE \E n \in 1..(sent - acked) : ReadReply(n)
    BY <1>1, <1>9 DEF ReadReply
  <1>10. CASE UNCHANGED vars
    BY <1>1, <1>10 DEF vars
  <1>. QED BY <1>2, <1>3, <1>4, <1>6, <1>7, <1>8, <1>9, <1>10 DEF Next, Network, EventLoop

\* The first recv of feed, for at least one byte: it hands bytes over, or there
\* is nothing to hand over.
LEMMA FirstRecv ==
    ASSUME In!TypeOK, NEW free \in Nat, free > 0, NEW probe, NEW newtail,
           probe # "idle", In!FeedRecv(free, probe, newtail)
    PROVE  /\ UNCHANGED <<arrived, fin, base, got, buffer_len, head>>
           /\ \/ /\ ipc' = "idle" /\ ret' \in {0, -1} /\ (ret' = 0 => fin)
                 /\ In!Avail = 0 /\ UNCHANGED <<buffer, tail, received>>
              \/ /\ ipc' = "idle" /\ ret' = In!Avail /\ In!Avail > 0
                 /\ In!Avail < free /\ received' = arrived
              \/ /\ ipc' = probe /\ want' = free /\ filled' = free
                 /\ In!Avail >= free /\ received' = received + free
                 /\ ret' = ret
  <1>. DEFINE r == In!Recv(free)
  <1>1. /\ arrived \in Nat /\ received \in Nat /\ received <= arrived
        /\ In!Avail = arrived - received
    BY DEF In!TypeOK, In!Avail
  <1>2. r = IF In!Avail > 0 THEN (IF free > In!Avail THEN In!Avail ELSE free)
            ELSE IF fin THEN 0 ELSE -1
    BY <1>1 DEF In!Recv, In!RecvCount
  <1>3. UNCHANGED <<arrived, fin, base, got, buffer_len, head>>
    BY DEF In!FeedRecv, In!members
  <1>4. CASE In!Avail = 0
    BY <1>1, <1>2, <1>3, <1>4 DEF In!FeedRecv, In!FeedReturn, In!members
  <1>5. CASE In!Avail > 0 /\ In!Avail < free
    BY <1>1, <1>2, <1>3, <1>5 DEF In!FeedRecv, In!FeedReturn
  <1>6. CASE In!Avail >= free
    BY <1>1, <1>2, <1>3, <1>6 DEF In!FeedRecv, In!FeedReturn
  <1>. QED BY <1>1, <1>4, <1>5, <1>6

\* The first recv has room, because the ring is not full.
LEMMA FirstStep ==
    ASSUME InputInv, cpc = "read", ipc = "idle", In!Feed
    PROVE  \E free \in Nat, probe \in {"probe0", "probeBack", "probeGap"} :
                /\ free > 0 /\ \E newtail : In!FeedRecv(free, probe, newtail)
                /\ probe = "probe0" => head = 0 /\ free = buffer_len - tail - 1
                /\ probe = "probeBack" => /\ head <= tail /\ head # 0
                                          /\ free = buffer_len - tail
                /\ probe = "probeGap" => head > tail
  <1>1. In!TypeOK /\ In!Length < buffer_len - 1
    BY DEF InputInv, In!RingInv, ReadInv
  <1>2. CASE In!FeedFront
    <2>1. buffer_len - tail - 1 \in Nat /\ buffer_len - tail - 1 > 0
      BY <1>1, <1>2 DEF In!FeedFront, In!TypeOK
    <2>. QED BY <1>2, <2>1 DEF In!FeedFront
  <1>3. ~In!FeedFull
    BY <1>1 DEF In!FeedFull, In!Length, In!TypeOK
  <1>4. CASE In!FeedBack
    <2>1. buffer_len - tail \in Nat /\ buffer_len - tail > 0
      BY <1>1 DEF In!TypeOK
    <2>. QED BY <1>4, <2>1 DEF In!FeedBack
  <1>5. CASE In!FeedGap
    <2>1. head - tail - 1 \in Nat /\ head - tail - 1 > 0
      BY <1>1, <1>5 DEF In!FeedGap, In!Length, In!TypeOK
    <2>. QED BY <1>5, <2>1 DEF In!FeedGap
  <1>. QED BY <1>2, <1>3, <1>4, <1>5 DEF In!Feed, In!ProbeNone, In!ProbeWrap,
         In!ProbeOverflow, In!ProbeGrow, In!MustGrow, In!FeedRest

\* The second recv hands over what feed asks for.
LEMMA RestStep ==
    ASSUME InputInv, In!FeedRest
    PROVE  /\ ipc' = "idle" /\ ret' > 0
           /\ UNCHANGED <<arrived, fin, base, got, buffer_len, head>>
           /\ received' = IF want <= In!Avail THEN received + want ELSE arrived
  <1>1. /\ In!TypeOK /\ In!Avail = arrived - received /\ filled \in Nat
        /\ want \in Int /\ want > 0 /\ In!Avail > 0 /\ filled > 0
    BY DEF InputInv, ReadInv, In!RingInv, In!FeedInv, In!TypeOK, In!Avail, In!FeedRest
  <1>2. In!Recv(want) = IF want <= In!Avail THEN want ELSE In!Avail
    BY <1>1 DEF In!Recv, In!RecvCount, In!TypeOK
  <1>3. In!Recv(want) > 0 /\ In!Recv(want) \in Int
    BY <1>1, <1>2 DEF In!TypeOK
  <1>4. /\ received' = received + In!Recv(want) /\ ret' = filled + In!Recv(want)
        /\ ipc' = "idle" /\ UNCHANGED <<arrived, fin, base, got, buffer_len, head>>
    BY <1>3 DEF In!FeedRest, In!FeedReturn
  <1>. QED BY <1>1, <1>2, <1>3, <1>4 DEF In!TypeOK

\* feed returns 0 or -1 from its first recv only, which found nothing; the
\* ring is then as it was.
LEMMA FeedTurn ==
    ASSUME InputInv, cpc = "read", In!Feed
    PROVE  /\ UNCHANGED <<arrived, fin>>
           /\ ipc' # "idle" => filled' > 0
           /\ ipc' \in {"probe0", "rest0"} => want' > 0
           /\ ipc' = "rest0" => In!Avail' > 0
           /\ ipc' = "idle" /\ ReadFails =>
                /\ ipc = "idle" /\ UNCHANGED <<buffer_len, head, tail, received>>
                /\ In!Avail = 0
  <1>1. In!TypeOK /\ ReadInv
    BY DEF InputInv, In!RingInv
  <1>2. CASE ipc = "idle"
    <2>1. PICK free \in Nat, probe \in {"probe0", "probeBack", "probeGap"} :
              free > 0 /\ \E newtail : In!FeedRecv(free, probe, newtail)
      BY <1>2, FirstStep
    <2>2. probe # "idle"
      BY <2>1
    <2>3. /\ UNCHANGED <<arrived, fin, base, got, buffer_len, head>>
          /\ \/ /\ ipc' = "idle" /\ ret' \in {0, -1} /\ (ret' = 0 => fin)
                /\ In!Avail = 0 /\ UNCHANGED <<buffer, tail, received>>
             \/ /\ ipc' = "idle" /\ ret' = In!Avail /\ In!Avail > 0
                /\ In!Avail < free /\ received' = arrived
             \/ /\ ipc' = probe /\ want' = free /\ filled' = free
                /\ In!Avail >= free /\ received' = received + free
                /\ ret' = ret
      BY <1>1, <2>1, <2>2, FirstRecv
    <2>. QED BY <1>1, <1>2, <2>1, <2>3 DEF ReadFails, In!TypeOK, In!Avail
  <1>3. CASE In!ProbeNone
    BY <1>1, <1>3 DEF In!ProbeNone, In!FeedReturn, In!kernel, ReadInv, ReadFails, In!TypeOK
  <1>4. CASE In!ProbeWrap
    BY <1>1, <1>4 DEF In!ProbeWrap, In!kernel, ReadInv, In!TypeOK
  <1>5. CASE In!ProbeOverflow
    BY <1>1, <1>5 DEF In!ProbeOverflow, In!FeedReturn, In!Overflow, In!kernel, ReadFails
  <1>6. CASE In!ProbeGrow
    BY <1>1, <1>6 DEF In!ProbeGrow, In!MustGrow, In!RestLength, In!kernel, ReadInv,
       In!TypeOK, In!Avail
  <1>7. CASE In!FeedRest
    BY <1>7, RestStep DEF ReadFails
  <1>. QED BY <1>2, <1>3, <1>4, <1>5, <1>6, <1>7 DEF In!Feed, In!FeedFront, In!FeedFull,
         In!FeedBack, In!FeedGap

\* A fetch takes its bytes from the ring.
LEMMA FetchTakes ==
    ASSUME In!RingInv, In!RingInv', NEW n \in Int, In!Fetch(n)
    PROVE  /\ n > 0 /\ n <= In!Length /\ In!Length' = In!Length - n
           /\ base' = base + n /\ ipc' = "idle"
           /\ UNCHANGED <<arrived, received, fin, buffer_len, filled, want>>
  <1>1. /\ n > 0 /\ n <= In!Length /\ base' = base + n /\ ipc = "idle"
        /\ UNCHANGED <<ipc, arrived, received, fin, buffer_len, filled, want>>
    BY DEF In!Fetch, In!kernel, In!locals
  <1>2. In!Length = received - base /\ base \in Nat /\ received \in Nat
    BY DEF In!RingInv, In!RingHoldsStream, In!TypeOK
  <1>3. In!Length' = received' - base'
    BY DEF In!RingInv, In!RingHoldsStream
  <1>. QED BY <1>1, <1>2, <1>3

\* What there is to fetch, and to receive, while the input buffer is left alone.
LEMMA StillInput ==
    ASSUME UNCHANGED input
    PROVE  /\ UNCHANGED <<ipc, want, filled, fin, buffer_len, arrived, received, base>>
           /\ In!Length' = In!Length /\ In!Avail' = In!Avail
  BY DEF input, In!Length, In!Avail

\* Every step keeps the invariant of exec_read.
LEMMA ReadStep ==
    ASSUME ~LateArrival, InputInv, [Next]_vars
    PROVE  InputInv'
  <1>1. In!RingInv /\ In!TypeOK /\ ReadInv
    BY DEF InputInv, In!RingInv
  <1>2. In!RingInv'
    BY <1>1, InputSteps, InputKept
  <1>3. In!TypeOK'
    BY <1>2 DEF In!RingInv
  <1>4. In!Length \in Nat /\ In!Length <= buffer_len - 1 /\ buffer_len \in Nat
    BY <1>1 DEF In!TypeOK, In!Length
  <1>5. CASE UNCHANGED vars
    <2>1. UNCHANGED input /\ UNCHANGED <<reset, deleted, packets, cpc, header>>
      BY <1>5 DEF vars, output
    <2>. QED BY <1>1, <1>2, <2>1, StillInput DEF InputInv, ReadInv, Readable
  <1>6. CASE Client
    <2>1. PICK size \in PacketSizes : SendPacket(size)
      BY <1>6 DEF Client
    <2>2. /\ UNCHANGED input /\ UNCHANGED <<reset, deleted, cpc, header>>
          /\ packets' = packets \cup {[at |-> Streamed, size |-> size, id |-> "CS_PING"]}
      BY <2>1 DEF SendPacket, output
    <2>3. \A q \in packets' : q.size \in Nat
      BY <1>1, <2>2, Sizes DEF ReadInv
    <2>. QED BY <1>1, <1>2, <2>2, <2>3, StillInput DEF InputInv, ReadInv, Readable
  <1>7. CASE \E n \in 1..(StreamLen - arrived) : Arrive(n)
    <2>1. PICK n \in 1..(StreamLen - arrived) : Arrive(n)
      BY <1>7
    <2>2. /\ arrived' = arrived + n
          /\ UNCHANGED <<head, tail, buffer_len, received, fin, ipc, want, filled, base>>
          /\ UNCHANGED <<reset, deleted, packets, cpc, header>>
      BY <2>1 DEF Arrive, In!Arrive, In!members, In!locals, output
    <2>3. In!Length' = In!Length /\ (In!Avail > 0 => In!Avail' > 0)
      BY <1>1, <2>1, <2>2, BufferAssumption DEF In!Length, In!Avail, In!TypeOK
    <2>. QED BY <1>1, <1>2, <2>2, <2>3 DEF InputInv, ReadInv, Readable
  <1>8. CASE PeerClose
    <2>1. /\ fin' = TRUE
          /\ UNCHANGED <<head, tail, buffer_len, received, arrived, ipc, want, filled, base>>
          /\ UNCHANGED <<reset, deleted, packets, cpc, header>>
      BY <1>8 DEF PeerClose, In!PeerClose, In!members, In!locals, output
    <2>2. In!Length' = In!Length /\ In!Avail' = In!Avail
      BY <2>1 DEF In!Length, In!Avail
    <2>. QED BY <1>1, <1>2, <2>1, <2>2 DEF InputInv, ReadInv, Readable
  <1>9. CASE PeerReset \/ \E n \in 1..(sent - acked) : ReadReply(n)
    <2>1. /\ reset' \in {reset, TRUE} /\ UNCHANGED input
          /\ UNCHANGED <<deleted, packets, cpc, header>>
      BY <1>9 DEF PeerReset, Out!Reset, ReadReply, Out!Ack, Out!members
    <2>2. reset' \in BOOLEAN /\ (reset => reset')
      BY <1>1, <2>1 DEF ReadInv
    <2>. QED BY <1>1, <1>2, <2>1, <2>2, StillInput DEF InputInv, ReadInv, Readable
  <1>10. CASE EpollWait
    <2>1. /\ cpc = "wait" /\ cpc' \in {"read", "write"} /\ (cpc' = "read" => Readable)
          /\ UNCHANGED input /\ UNCHANGED <<reset, deleted, packets, header>>
      BY <1>10 DEF EpollWait, output
    <2>. QED BY <1>1, <1>2, <2>1, StillInput DEF InputInv, ReadInv, Readable
  <1>11. CASE ExecRead
    <2>1. cpc = "read" /\ In!Feed /\ UNCHANGED <<reset, packets, header>>
      BY <1>11 DEF ExecRead
    <2>2. CASE ipc' # "idle"
      <3>1. UNCHANGED <<cpc, deleted>>
        BY <1>11, <2>2 DEF ExecRead
      <3>2. /\ filled' > 0 /\ (ipc' \in {"probe0", "rest0"} => want' > 0)
            /\ (ipc' = "rest0" => In!Avail' > 0)
        BY <2>1, <2>2, FeedTurn
      <3>. QED BY <1>1, <1>2, <2>1, <2>2, <3>1, <3>2 DEF InputInv, ReadInv
    <2>3. CASE ipc' = "idle" /\ ReadFails
      <3>1. cpc' = "wait" /\ deleted' \in BOOLEAN
        BY <1>11, <2>3 DEF ExecRead, ReadFails
      <3>2. ipc = "idle" /\ UNCHANGED <<buffer_len, head, tail>>
        BY <2>1, <2>3, FeedTurn
      <3>3. In!Length' = In!Length
        BY <3>2 DEF In!Length
      <3>. QED BY <1>1, <1>2, <2>1, <2>3, <3>1, <3>2, <3>3 DEF InputInv, ReadInv
    <2>4. CASE ipc' = "idle" /\ ~ReadFails
      <3>1. cpc' = "parse" /\ deleted' \in BOOLEAN
        BY <1>11, <2>4 DEF ExecRead, ReadFails
      <3>. QED BY <1>1, <1>2, <2>1, <2>4, <3>1 DEF InputInv, ReadInv
    <2>. QED BY <2>2, <2>3, <2>4
  <1>12. CASE ParseHeader
    <2>1. /\ In!Fetch(PACKET_HEADER_SIZE) /\ header' \in Decoded(base) /\ cpc' = "content"
          /\ UNCHANGED <<reset, deleted, packets>>
      BY <1>12 DEF ParseHeader, output
    <2>2. PACKET_HEADER_SIZE \in Int
      BY Sizes
    <2>3. In!Length' < buffer_len' - 1 /\ ipc' = "idle"
      BY <1>1, <1>2, <1>4, <2>1, <2>2, FetchTakes
    <2>4. header'.size \in Nat
      BY <1>1, <2>1, Sizes DEF Decoded, ReadInv
    <2>. QED BY <1>1, <1>2, <2>1, <2>3, <2>4 DEF InputInv, ReadInv
  <1>13. CASE ParseContent
    <2>1. /\ cpc = "content" /\ cpc' = "wait"
          /\ UNCHANGED <<reset, deleted, packets, header>>
      BY <1>13 DEF ParseContent, Handle, SendReply, Out!Write, output
    <2>2. ipc' = "idle" /\ In!Length' < buffer_len' - 1
      <3>1. CASE UNCHANGED input
        BY <1>1, <2>1, <3>1, StillInput DEF ReadInv
      <3>2. CASE In!Fetch(ContentSize(header))
        <4>1. ContentSize(header) \in Int
          BY <1>1, Sizes DEF ReadInv, ContentSize
        <4>. QED BY <1>1, <1>2, <1>4, <3>2, <4>1, FetchTakes
      <3>. QED BY <1>13, <3>1, <3>2 DEF ParseContent
    <2>. QED BY <1>1, <1>2, <2>1, <2>2 DEF InputInv, ReadInv
  <1>14. CASE Crash
    <2>1. UNCHANGED input /\ UNCHANGED <<reset, deleted, packets, cpc, header>>
      BY <1>14 DEF Crash, output
    <2>. QED BY <1>1, <1>2, <2>1, StillInput DEF InputInv, ReadInv, Readable
  <1>15. CASE ExecWrite
    <2>1. /\ cpc = "write" /\ cpc' \in {"wait", "write"} /\ UNCHANGED input
          /\ deleted' \in {deleted, TRUE} /\ UNCHANGED <<reset, packets, header>>
      BY <1>15 DEF ExecWrite, Out!Refresh, Out!SendSome, Out!SendFails, Out!members
    <2>. QED BY <1>1, <1>2, <2>1, StillInput DEF InputInv, ReadInv, Readable
  <1>. QED BY <1>5, <1>6, <1>7, <1>8, <1>9, <1>10, <1>11, <1>12, <1>13, <1>14, <1>15
       DEF Next, Network, EventLoop

LEMMA InitInput == Init => InputInv
  <1> SUFFICES ASSUME Init PROVE InputInv
    OBVIOUS
  <1>1. In!RingInv
    BY InitKept
  <1>2. ReadInv
    <2>1. /\ cpc = "wait" /\ ipc = "idle" /\ packets = {} /\ ~reset /\ ~deleted
          /\ reset \in BOOLEAN /\ deleted \in BOOLEAN /\ header.size = 0
      BY DEF Init, In!Init, Out!Init
    <2>2. In!Length < buffer_len - 1
      BY BufferAssumption DEF Init, In!Init, In!Length
    <2>. QED BY <2>1, <2>2 DEF ReadInv
  <1>. QED BY <1>1, <1>2 DEF InputInv

\* exec_read gives a connection up only when recv has found it at its end.
LEMMA ReadCloses ==
    ASSUME InputInv, [Next]_vars, cpc = "read", ~deleted, deleted'
    PROVE  (fin \/ reset) /\ In!Avail = 0
  <1>1. ExecRead
    BY DEF Next, vars, output, Client, SendPacket, Network, Arrive, ReadReply, Out!Ack,
       EventLoop, EpollWait, ParseHeader, ParseContent, Crash, ExecWrite, PeerClose,
       PeerReset, Out!Reset
  <1>2. ipc' = "idle" /\ ReadFails
    BY <1>1 DEF ExecRead
  <1>3. ipc = "idle" /\ In!Avail = 0
    BY <1>1, <1>2, FeedTurn DEF ExecRead
  <1>. QED BY <1>3 DEF InputInv, ReadInv, Readable

\* For every size of the buffers and of the packets, in whatever pieces these
\* come: exec_read closes only a connection that the client has closed or reset,
\* and only when all it sent has been received.
THEOREM CloseSafety ==
    ASSUME ~LateArrival
    PROVE  Spec => ReadClosesOnlyDead
  <1>1. Init => InputInv
    BY InitInput
  <1>2. InputInv /\ [Next]_vars => InputInv'
    BY ReadStep
  <1>3. InputInv /\ [Next]_vars =>
            [cpc = "read" /\ ~deleted /\ deleted' => (fin \/ reset) /\ In!Avail = 0]_vars
    BY ReadCloses
  <1>. QED BY <1>1, <1>2, <1>3, PTL DEF Spec, ReadClosesOnlyDead
--------------------------------------------------------------------------------
(* A client that sends whole packets and waits for its replies. *)

\* A packet of the client is at least a header long.
LEMMA PacketTypes ==
    ASSUME PacketsInv, NEW p \in packets
    PROVE  /\ p.at \in Nat /\ p.size \in PacketSizes /\ p.size \in Nat
           /\ p.size >= PACKET_HEADER_SIZE /\ p.size > 0 /\ p.id = "CS_PING"
           /\ p.at < Streamed
  <1>1. p \in [at : Nat, size : PacketSizes, id : {"CS_PING"}]
    BY DEF PacketsInv
  <1>2. p.at \in Nat /\ p.size \in PacketSizes /\ p.id = "CS_PING"
    BY <1>1
  <1>3. p.size \in Nat /\ p.size >= PACKET_HEADER_SIZE /\ PACKET_HEADER_SIZE \in Nat \ {0}
    BY <1>2, Sizes
  <1>4. Streamed \in Nat /\ p.at + p.size <= Streamed
    BY DEF PacketsInv
  <1>. QED BY <1>2, <1>3, <1>4

\* The client's next packet starts where its stream ends.
LEMMA NextPacket ==
    ASSUME PacketsInv, NEW size \in PacketSizes, Streamed + size <= StreamLen,
           NEW new, new = [at |-> Streamed, size |-> size, id |-> "CS_PING"],
           packets' = packets \cup {new}
    PROVE  /\ PacketsInv' /\ Streamed' = Streamed + size
           /\ Cardinality(packets') = Cardinality(packets) + 1
  <1>1. /\ size \in Nat /\ size > 0 /\ Streamed \in Nat
        /\ new \in [at : Nat, size : PacketSizes, id : {"CS_PING"}]
        /\ new.at = Streamed /\ new.size = size
    BY Sizes DEF PacketsInv
  <1>2. \A q \in packets : /\ q.at \in Nat /\ q.size \in Nat /\ q.at < Streamed
                           /\ q.at + q.size <= Streamed
    BY PacketTypes DEF PacketsInv
  <1>3. new \notin packets
    BY <1>1, <1>2
  <1>. DEFINE m == CHOOSE p \in packets' : \A q \in packets' : q.at <= p.at
  <1>4. m \in packets' /\ \A q \in packets' : q.at <= m.at
    <2>1. new \in packets' /\ \A q \in packets' : q.at <= new.at
      BY <1>1, <1>2
    <2>. QED BY <2>1
  <1>5. m = new
    BY <1>1, <1>2, <1>4
  <1>6. Streamed' = Streamed + size
    <2>1. packets' # {}
      OBVIOUS
    <2>2. Streamed' = m.at + m.size
      BY <2>1 DEF Streamed
    <2>. QED BY <1>1, <1>5, <2>2
  <1>7. IsFiniteSet(packets') /\ Cardinality(packets') = Cardinality(packets) + 1
    BY <1>3, FS_AddElement DEF PacketsInv
  <1>8. \A q \in packets' : q.at + q.size <= Streamed'
    BY <1>1, <1>2, <1>6
  <1>9. \A q, r \in packets' : q.at = r.at => q = r
    BY <1>1, <1>2 DEF PacketsInv
  <1>10. PacketsInv'
    BY <1>1, <1>6, <1>7, <1>8, <1>9, BufferAssumption DEF PacketsInv
  <1>. QED BY <1>6, <1>7, <1>10

\* A step that sends no packet and executes none leaves the ledger alone.
LEMMA StillLedger ==
    ASSUME UNCHANGED <<packets, executed, written, obuffer_len>>
    PROVE  /\ Ledger => Ledger'
           /\ Streamed' = Streamed /\ Done' = Done
           /\ Len(executed)' = Len(executed) /\ Cardinality(packets)' = Cardinality(packets)
  <1>1. Streamed' = Streamed
    BY DEF Streamed
  <1>2. Done' = Done
    BY DEF Done
  <1>3. PacketsInv => PacketsInv'
    BY <1>1 DEF PacketsInv
  <1>4. OutputGrowsOnce => OutputGrowsOnce'
    BY DEF OutputGrowsOnce
  <1>5. ExecutedAsSent => ExecutedAsSent'
    BY DEF ExecutedAsSent
  <1>. QED BY <1>1, <1>2, <1>3, <1>4, <1>5 DEF Ledger

\* The numbers the invariant speaks of.
LEMMA Counts ==
    ASSUME TurnInv
    PROVE  /\ arrived \in Nat /\ received \in Nat /\ base \in Nat /\ received <= arrived
           /\ In!Length = received - base /\ In!Avail = arrived - received
           /\ written \in Nat /\ sent \in Nat /\ acked \in Nat
           /\ acked <= sent /\ sent <= written /\ Out!Length = written - sent
           /\ Streamed \in Nat /\ Done \in Nat
           /\ Len(executed) \in Nat /\ Cardinality(packets) \in Nat
           /\ ReplySize \in Nat /\ ReplySize > 0
  <1>1. /\ arrived \in Nat /\ received \in Nat /\ base \in Nat /\ received <= arrived
        /\ In!Length = received - base /\ In!Avail = arrived - received
    BY DEF TurnInv, InputInv, In!RingInv, In!TypeOK, In!RingHoldsStream, In!Avail
  <1>2. /\ written \in Nat /\ sent \in Nat /\ acked \in Nat
        /\ acked <= sent /\ Out!Length = written - sent
    BY DEF TurnInv, Out!OutputInv, Out!TypeOK, Out!RingHoldsReplies
  <1>3. Out!Length >= 0
    BY DEF TurnInv, Out!OutputInv, Out!TypeOK, Out!Length
  <1>4. Streamed \in Nat /\ Cardinality(packets) \in Nat
    BY FS_CardinalityType DEF TurnInv, Ledger, PacketsInv
  <1>5. executed \in Seq(packets) /\ PacketsInv
    BY DEF TurnInv, Ledger
  <1>6. Len(executed) \in Nat
    BY <1>5, LenProperties
  <1>7. Done \in Nat
    <2>1. CASE executed = <<>>
      BY <2>1 DEF Done
    <2>2. CASE executed # <<>>
      <3>1. executed[Len(executed)] \in packets
        BY <1>5, <2>2, LenProperties, EmptySeq, ElementOfSeq
      <3>2. PICK p \in packets : p = executed[Len(executed)]
        BY <3>1
      <3>. QED BY <1>5, <2>2, <3>2, PacketTypes DEF Done
    <2>. QED BY <2>1, <2>2
  <1>. QED BY <1>1, <1>2, <1>3, <1>4, <1>6, <1>7, Sizes

\* A step that leaves the input buffer alone leaves feed's plan alone.
LEMMA StillPlan ==
    ASSUME UNCHANGED input, PlanInv
    PROVE  PlanInv'
  BY StillInput DEF PlanInv

\* The client sends a packet when it has read the reply to the last one.
LEMMA LastReplyRead ==
    ASSUME TurnInv, acked = ReplySize * Cardinality(packets)
    PROVE  Answering /\ sent = written /\ acked = written /\ cpc # "write"
  <1>1. written = ReplySize * Len(executed)
    BY DEF TurnInv, Ledger
  <1>2. ASSUME NEW p \in packets, Asks(p) PROVE FALSE
    <2>1. ReplySize * Len(executed) = ReplySize * Cardinality(packets)
      BY <1>1, <1>2 DEF Asks
    <2>2. Cardinality(packets) = Len(executed) + 1
      BY <1>2, Counts DEF Asks
    <2>3. ReplySize * (Len(executed) + 1) = ReplySize * Len(executed) + ReplySize
      BY Counts
    <2>. QED BY <2>1, <2>2, <2>3, Counts
  <1>3. Answering
    BY <1>2 DEF TurnInv, Turn
  <1>4. acked = written
    BY <1>1, <1>3 DEF Answering
  <1>5. sent = written
    BY <1>4, Counts
  <1>. QED BY <1>3, <1>4, <1>5 DEF TurnInv, Turn, WriteInv

\* The client's next packet: its last reply has been read.
LEMMA SendTurn ==
    ASSUME PoliteClient, TurnInv, NEW size \in PacketSizes, SendPacket(size)
    PROVE  Ledger' /\ Turn'
  <1>0. PICK new : new = [at |-> Streamed, size |-> size, id |-> "CS_PING"]
    OBVIOUS
  <1>1. /\ packets' = packets \cup {new} /\ Streamed + size <= StreamLen
        /\ acked = ReplySize * Cardinality(packets)
        /\ UNCHANGED <<input, output, cpc, header, executed, crashed>>
    BY <1>0 DEF SendPacket, PoliteClient
  <1>2. UNCHANGED <<obuffer_len, written, sent, acked, reset, opc, deleted, fin, ipc, base,
                    received, arrived>>
    BY <1>1 DEF input, output
  <1>3. /\ PacketsInv' /\ Streamed' = Streamed + size /\ new \in packets'
        /\ Cardinality(packets') = Cardinality(packets) + 1
    BY <1>0, <1>1, NextPacket DEF TurnInv, Ledger
  <1>4. Ledger'
    <2>1. ExecutedAsSent' /\ OutputGrowsOnce'
      BY <1>1, <1>2 DEF TurnInv, Ledger, ExecutedAsSent, OutputGrowsOnce
    <2>2. executed' \in Seq(packets')
      BY <1>1, SeqMonotonic DEF TurnInv, Ledger
    <2>. QED BY <1>1, <1>2, <1>3, <2>1, <2>2 DEF TurnInv, Ledger
  <1>5. Answering /\ sent = written /\ acked = written /\ cpc # "write"
    BY <1>1, LastReplyRead
  <1>6. Done' = Done
    BY <1>1 DEF Done
  <1>7. new.at = Streamed /\ new.size = size
    BY <1>0
  <1>8. Asks(new)'
    <2>1. ipc = "idle" /\ cpc \in {"wait", "read"}
      BY <1>5 DEF Answering
    <2>2. Len(executed') + 1 = Cardinality(packets')
      BY <1>1, <1>3, <1>5 DEF Answering
    <2>. QED BY <1>1, <1>2, <1>3, <1>5, <1>6, <1>7, <2>1, <2>2 DEF Answering, Asks
  <1>9. PlanInv'
    BY <1>1, StillPlan DEF TurnInv, Turn
  <1>10. WriteInv' /\ CrashesOnlyOnBrokenPipe' /\ (deleted' => fin' \/ reset')
    BY <1>1, <1>2 DEF TurnInv, Turn, WriteInv,
       CrashesOnlyOnBrokenPipe, BrokenPipe
  <1>. QED BY <1>3, <1>4, <1>8, <1>9, <1>10 DEF Turn

\* The packet arrives.
LEMMA ArriveTurn ==
    ASSUME PoliteClient, TurnInv, NEW n \in 1..(StreamLen - arrived), Arrive(n)
    PROVE  Ledger' /\ Turn'
  <1>1. /\ arrived' = arrived + n /\ arrived + n = Streamed /\ ipc # "rest0"
        /\ UNCHANGED <<buffer_len, received, fin, ipc, want, base>>
        /\ UNCHANGED <<obuffer_len, written, sent, acked, reset, opc, deleted>>
        /\ UNCHANGED <<packets, cpc, header, executed, crashed>>
    BY DEF Arrive, In!Arrive, In!members, In!locals, output, PoliteClient
  <1>2. /\ Ledger' /\ Streamed' = Streamed /\ Done' = Done
        /\ Len(executed') = Len(executed) /\ Cardinality(packets') = Cardinality(packets)
    BY <1>1, StillLedger DEF TurnInv
  <1>3. arrived < Streamed
    BY <1>1, BufferAssumption, Counts
  <1>4. PICK p \in packets : Asks(p)
    BY <1>3, Counts DEF TurnInv, Turn, Answering
  <1>5. cpc \in {"wait", "read"} /\ ipc = "idle" /\ received = p.at /\ base = p.at
    BY <1>3, <1>4, Counts DEF Asks
  <1>6. Asks(p)'
    BY <1>1, <1>2, <1>4, <1>5 DEF Asks
  <1>7. PlanInv'
    BY <1>1, <1>5 DEF PlanInv
  <1>8. WriteInv' /\ CrashesOnlyOnBrokenPipe' /\ (deleted' => fin' \/ reset')
    BY <1>1 DEF TurnInv, Turn, WriteInv,
       CrashesOnlyOnBrokenPipe, BrokenPipe
  <1>. QED BY <1>1, <1>2, <1>6, <1>7, <1>8 DEF Turn

\* The client leaves, or reads of its reply.
LEMMA LeaveTurn ==
    ASSUME TurnInv, PeerClose \/ PeerReset \/ \E n \in 1..(sent - acked) : ReadReply(n)
    PROVE  Ledger' /\ Turn'
  <1>1. /\ UNCHANGED <<buffer_len, arrived, received, ipc, want, base>>
        /\ UNCHANGED <<obuffer_len, written, sent, opc, deleted>>
        /\ UNCHANGED <<packets, cpc, header, executed, crashed>>
    BY DEF PeerClose, In!PeerClose, In!members, In!locals, output, input, PeerReset,
       Out!Reset, Out!members, ReadReply, Out!Ack
  <1>2. /\ Ledger' /\ Streamed' = Streamed /\ Done' = Done
        /\ Len(executed') = Len(executed) /\ Cardinality(packets') = Cardinality(packets)
    BY <1>1, StillLedger DEF TurnInv
  <1>3. PlanInv'
    BY <1>1 DEF TurnInv, Turn, PlanInv, In!Avail
  <1>4. (fin => fin') /\ (reset => reset')
    BY DEF PeerClose, In!PeerClose, PeerReset, Out!Reset, ReadReply, Out!Ack, input, output
  <1>5. WriteInv' /\ CrashesOnlyOnBrokenPipe' /\ (deleted' => fin' \/ reset')
    BY <1>1, <1>4 DEF TurnInv, Turn, WriteInv,
       CrashesOnlyOnBrokenPipe, BrokenPipe
  <1>6. Answering' \/ \E p \in packets : Asks(p)'
    <2>1. CASE UNCHANGED acked
      <3>1. Answering => Answering'
        BY <1>1, <1>2, <2>1 DEF Answering
      <3>2. ASSUME NEW p \in packets, Asks(p) PROVE Asks(p)'
        BY <1>1, <1>2, <2>1, <3>2 DEF Asks
      <3>. QED BY <3>1, <3>2 DEF TurnInv, Turn
    <2>2. CASE \E n \in 1..(sent - acked) : ReadReply(n)
      <3>1. sent # acked
        BY <2>2, Counts
      <3>2. Answering /\ sent = written
        BY <3>1 DEF TurnInv, Turn, Answering, Asks
      <3>. QED BY <1>1, <1>2, <3>2 DEF Answering
    <2>. QED BY <2>1, <2>2 DEF PeerClose, PeerReset, Out!Reset, output
  <1>. QED BY <1>1, <1>2, <1>3, <1>5, <1>6 DEF Turn

\* epoll_wait: there is something to write only when the last reply is unsent.
LEMMA WaitTurn ==
    ASSUME TurnInv, EpollWait
    PROVE  Ledger' /\ Turn'
  <1>1. /\ cpc = "wait" /\ UNCHANGED <<input, output, packets, header, executed, crashed>>
        /\ ~crashed
        /\ \/ cpc' = "read"
           \/ cpc' = "write" /\ ohead # otail
    BY DEF EpollWait, Alive
  <1>2. /\ UNCHANGED <<ipc, fin, arrived, received, base>>
        /\ UNCHANGED <<obuffer_len, written, sent, acked, reset, opc, deleted>>
    BY <1>1 DEF input, output
  <1>3. /\ Ledger' /\ Streamed' = Streamed /\ Done' = Done
        /\ Len(executed') = Len(executed) /\ Cardinality(packets') = Cardinality(packets)
    BY <1>1, <1>2, StillLedger DEF TurnInv
  <1>4. PlanInv'
    BY <1>1, StillPlan DEF TurnInv, Turn
  <1>5. cpc' = "write" => sent # written
    <2>1. ohead # otail => Out!Length # 0
      BY DEF TurnInv, Out!OutputInv, Out!TypeOK, Out!Length
    <2>. QED BY <1>1, <2>1, Counts
  <1>6. WriteInv' /\ CrashesOnlyOnBrokenPipe' /\ (deleted' => fin' \/ reset')
    BY <1>1, <1>2, <1>5 DEF TurnInv, Turn, WriteInv,
       CrashesOnlyOnBrokenPipe, BrokenPipe
  <1>7. Answering => Answering'
    BY <1>1, <1>2, <1>3 DEF Answering
  <1>8. ASSUME NEW p \in packets, Asks(p) PROVE Asks(p)'
    BY <1>1, <1>2, <1>3, <1>5, <1>8 DEF Asks
  <1>. QED BY <1>1, <1>3, <1>4, <1>6, <1>7, <1>8 DEF TurnInv, Turn

\* What is left of packet p while feed receives it.
LEMMA FeedRoom ==
    ASSUME PoliteClient, TurnInv, NEW p \in packets, Asks(p),
           cpc = "read", ipc # "idle"
    PROVE  /\ In!Length + In!Avail = p.size /\ base = p.at
           /\ arrived = Streamed /\ ipc # "probeGap"
           /\ ~In!ProbeOverflow
           /\ ipc = "probe0" => In!Avail <= want
  <1>1. /\ base = p.at /\ arrived = Streamed /\ p.at + p.size = Streamed
        /\ ipc \in {"probe0", "probeBack", "rest0", "rest"}
    BY DEF Asks
  <1>2. /\ p.size \in Nat /\ p.at \in Nat /\ p.size <= 2 * (SOCKET_INPUT_SIZE - 1)
        /\ 2 * p.size <= SOCKET_INPUT_MAXSIZE
    BY PacketTypes DEF TurnInv, Ledger, PoliteClient
  <1>3. In!Length + In!Avail = p.size /\ In!Avail \in Int
    <2>1. /\ In!Length = received - base /\ In!Avail = arrived - received
          /\ received \in Nat /\ base \in Nat /\ arrived \in Nat
      BY Counts
    <2>. QED BY <1>1, <1>2, <2>1
  <1>4. /\ buffer_len \in Nat /\ buffer_len >= SOCKET_INPUT_SIZE
        /\ head \in 0..(buffer_len - 1) /\ tail \in 0..(buffer_len - 1)
    BY DEF TurnInv, InputInv, In!RingInv, In!TypeOK
  <1>5. ipc = "probe0" => /\ In!Length = buffer_len - 1 /\ want = buffer_len - 1
                          /\ head = 0
    BY <1>4, BufferAssumption DEF TurnInv, Turn, PlanInv, InputInv, In!RingInv, In!FeedInv,
       In!Length
  <1>6. ipc = "probeBack" => In!Length = buffer_len - head /\ head > 0
    BY <1>4 DEF TurnInv, InputInv, In!RingInv, In!FeedInv, In!Length
  <1>7. CASE ipc = "probe0"
    <2>1. In!Avail <= want
      BY <1>2, <1>3, <1>4, <1>5, <1>7, BufferAssumption
    <2>2. In!Avail > 0 => buffer_len + In!Avail + 1 <= SOCKET_INPUT_MAXSIZE
      BY <1>2, <1>3, <1>4, <1>5, <1>7, BufferAssumption
    <2>. QED BY <1>1, <1>2, <1>3, <1>4, <1>7, <2>1, <2>2, BufferAssumption
             DEF In!ProbeOverflow, In!MustGrow, In!TooLong
  <1>8. CASE ipc = "probeBack"
    <2>1. In!Avail > head - 1 => buffer_len + In!Avail + 1 <= SOCKET_INPUT_MAXSIZE
      BY <1>2, <1>3, <1>4, <1>6, <1>8, BufferAssumption
    <2>. QED BY <1>1, <1>2, <1>3, <1>4, <1>8, <2>1, BufferAssumption
             DEF In!ProbeOverflow, In!MustGrow, In!TooLong
  <1>9. CASE ipc \in {"rest0", "rest"}
    BY <1>1, <1>3, <1>9 DEF In!ProbeOverflow, In!MustGrow
  <1>. QED BY <1>1, <1>7, <1>8, <1>9

\* feed with nothing to receive gives up, and nothing has changed.
LEMMA FeedNothing ==
    ASSUME InputInv, cpc = "read", ipc = "idle", In!Avail = 0, In!Feed
    PROVE  /\ ipc' = "idle" /\ ReadFails
           /\ UNCHANGED <<arrived, received, base, fin>>
  <1>1. PICK free \in Nat, probe \in {"probe0", "probeBack", "probeGap"} :
            free > 0 /\ \E newtail : In!FeedRecv(free, probe, newtail)
    BY FirstStep
  <1>2. In!TypeOK /\ probe # "idle"
    BY <1>1 DEF InputInv, In!RingInv
  <1>3. /\ UNCHANGED <<arrived, fin, base>>
        /\ \/ /\ ipc' = "idle" /\ ret' \in {0, -1} /\ UNCHANGED received
           \/ In!Avail > 0
           \/ In!Avail >= free
    BY <1>1, <1>2, FirstRecv
  <1>. QED BY <1>1, <1>3 DEF ReadFails

\* A step of feed takes packet p from the socket: in the end all of it.
LEMMA FeedPacket ==
    ASSUME PoliteClient, TurnInv, NEW p \in packets, Asks(p), cpc = "read",
           arrived = Streamed, In!Feed
    PROVE  /\ UNCHANGED <<arrived, base, fin>>
           /\ \/ ipc' = "idle" /\ ~ReadFails /\ received' = Streamed
              \/ ipc' \in {"probe0", "probeBack", "rest0", "rest"}
           /\ PlanInv'
  <1>1. InputInv /\ In!TypeOK
    BY DEF TurnInv, InputInv, In!RingInv
  <1>2. p.at + p.size = Streamed /\ p.size > 0 /\ p.size \in Nat /\ p.at \in Nat
    BY PacketTypes DEF TurnInv, Ledger, Asks
  <1>3. /\ In!Length = received - base /\ In!Avail = arrived - received
        /\ received \in Nat /\ base \in Nat /\ arrived \in Nat /\ received <= arrived
        /\ Streamed \in Nat
    BY Counts
  <1>4. CASE ipc = "idle"
    <2>1. base = p.at /\ received = p.at
      BY <1>4 DEF Asks
    <2>2. In!Length = 0 /\ In!Avail > 0
      BY <1>2, <1>3, <2>1
    <2>3. head = tail
      BY <1>1, <2>2 DEF In!Length, In!TypeOK
    <2>4. PICK free \in Nat, probe \in {"probe0", "probeBack", "probeGap"} :
            /\ free > 0 /\ \E newtail : In!FeedRecv(free, probe, newtail)
            /\ probe = "probe0" => head = 0 /\ free = buffer_len - tail - 1
            /\ probe = "probeGap" => head > tail
      BY <1>1, <1>4, FirstStep
    <2>5. probe \in {"probe0", "probeBack"}
      BY <1>1, <2>3, <2>4 DEF In!TypeOK
    <2>6. /\ UNCHANGED <<arrived, fin, base, buffer_len>>
          /\ \/ In!Avail = 0
             \/ ipc' = "idle" /\ ret' = In!Avail /\ received' = arrived
             \/ ipc' = probe /\ want' = free
      BY <1>1, <2>4, <2>5, FirstRecv
    <2>7. probe = "probe0" => free = buffer_len - 1
      BY <1>1, <2>3, <2>4 DEF In!TypeOK
    <2>8. PlanInv'
      BY <1>1, <2>2, <2>5, <2>6, <2>7 DEF PlanInv
    <2>. QED BY <1>3, <2>2, <2>5, <2>6, <2>8 DEF ReadFails
  <1>5. CASE ipc # "idle"
    <2>1. /\ base = p.at /\ ipc # "probeGap" /\ ~In!ProbeOverflow
          /\ ipc = "probe0" => In!Avail <= want
      BY <1>5, FeedRoom
    <2>2. /\ PlanInv /\ filled > 0 /\ filled \in Nat
          /\ ipc \in {"probe0", "probeBack", "rest0", "rest"}
      BY <1>1, <1>5, <2>1 DEF TurnInv, Turn, InputInv, ReadInv, In!TypeOK, In!Locations
    <2>3. CASE In!ProbeNone
      <3>1. /\ UNCHANGED <<arrived, received, fin, base>> /\ In!Avail <= 0
            /\ ipc' = "idle" /\ ret' = filled
        BY <2>3 DEF In!ProbeNone, In!FeedReturn, In!kernel
      <3>. QED BY <1>3, <2>2, <3>1 DEF ReadFails, PlanInv
    <2>4. CASE In!ProbeWrap
      <3>1. /\ UNCHANGED <<arrived, received, fin, base>> /\ ipc' = "rest" /\ want' = In!Avail
        BY <2>4 DEF In!ProbeWrap, In!kernel
      <3>2. In!Avail' = In!Avail
        BY <3>1 DEF In!Avail
      <3>. QED BY <3>1, <3>2 DEF PlanInv
    <2>5. CASE In!ProbeGrow
      <3>1. /\ UNCHANGED <<arrived, received, fin, base>>
            /\ ipc' = (IF ipc = "probe0" THEN "rest0" ELSE "rest")
            /\ want' = IF ipc = "probe0" THEN want ELSE In!Avail
        BY <2>5 DEF In!ProbeGrow, In!kernel, In!RestLength
      <3>2. In!Avail' = In!Avail
        BY <3>1 DEF In!Avail
      <3>. QED BY <2>1, <3>1, <3>2 DEF PlanInv
    <2>6. CASE In!FeedRest
      <3>1. /\ ipc' = "idle" /\ ret' > 0 /\ UNCHANGED <<arrived, fin, base>>
            /\ received' = IF want <= In!Avail THEN received + want ELSE arrived
        BY <1>1, <2>6, RestStep
      <3>2. ipc \in {"rest0", "rest"} /\ want \in Int
        BY <1>1, <2>6 DEF In!FeedRest, In!TypeOK
      <3>3. want >= In!Avail
        BY <1>3, <2>2, <3>2 DEF PlanInv
      <3>4. received' = arrived
        BY <1>3, <3>1, <3>2, <3>3
      <3>. QED BY <3>1, <3>4 DEF ReadFails, PlanInv
    <2>. QED BY <1>5, <2>1, <2>3, <2>4, <2>5, <2>6 DEF In!Feed, In!FeedFront, In!FeedFull,
           In!FeedBack, In!FeedGap
  <1>. QED BY <1>4, <1>5

\* exec_read.
LEMMA ReadTurn ==
    ASSUME PoliteClient, TurnInv, ExecRead
    PROVE  Ledger' /\ Turn'
  <1>1. /\ cpc = "read" /\ In!Feed /\ ~deleted /\ ~crashed /\ InputInv
        /\ UNCHANGED <<obuffer_len, written, sent, acked, reset, opc>>
        /\ UNCHANGED <<packets, header, executed, crashed>>
        /\ ipc' # "idle" => UNCHANGED <<cpc, deleted>>
        /\ ipc' = "idle" => /\ cpc' = (IF ReadFails THEN "wait" ELSE "parse")
                            /\ deleted' = ReadFails
    BY DEF ExecRead, Alive, TurnInv
  <1>2. /\ Ledger' /\ Streamed' = Streamed /\ Done' = Done
        /\ Len(executed') = Len(executed) /\ Cardinality(packets') = Cardinality(packets)
    BY <1>1, StillLedger DEF TurnInv
  <1>3. deleted' => fin \/ reset
    <2>1. ipc' # "idle" => ~deleted'
      BY <1>1
    <2>2. ipc' = "idle" /\ deleted' => ipc = "idle" /\ In!Avail = 0
      BY <1>1, FeedTurn
    <2>. QED BY <1>1, <2>1, <2>2 DEF InputInv, ReadInv, Readable
  <1>4. UNCHANGED fin
    BY <1>1, FeedTurn
  <1>5. WriteInv' /\ CrashesOnlyOnBrokenPipe' /\ (deleted' => fin' \/ reset')
    BY <1>1, <1>3, <1>4 DEF TurnInv, Turn, WriteInv,
       CrashesOnlyOnBrokenPipe, BrokenPipe
  <1>6. CASE Answering
    <2>1. ipc = "idle" /\ In!Avail = 0
      BY <1>6, Counts DEF Answering
    <2>2. ipc' = "idle" /\ ReadFails /\ UNCHANGED <<arrived, received, base>>
      BY <1>1, <2>1, FeedNothing
    <2>3. Answering'
      BY <1>1, <1>2, <1>6, <2>2 DEF Answering
    <2>4. PlanInv'
      BY <2>2 DEF PlanInv
    <2>. QED BY <1>2, <1>5, <2>3, <2>4 DEF Turn
  <1>7. ASSUME NEW p \in packets, Asks(p) PROVE Ledger' /\ Turn'
    <2>1. CASE arrived = Streamed
      <3>1. /\ UNCHANGED <<arrived, base>> /\ PlanInv'
            /\ \/ ipc' = "idle" /\ ~ReadFails /\ received' = Streamed
               \/ ipc' \in {"probe0", "probeBack", "rest0", "rest"}
        BY <1>1, <1>7, <2>1, FeedPacket
      <3>2. base = p.at
        BY <1>1, <1>7 DEF Asks
      <3>3. Asks(p)'
        BY <1>1, <1>2, <1>7, <2>1, <3>1, <3>2 DEF Asks
      <3>. QED BY <1>1, <1>2, <1>5, <3>1, <3>3 DEF Turn
    <2>2. CASE arrived # Streamed
      <3>1. ipc = "idle" /\ arrived = p.at /\ received = p.at /\ base = p.at
        BY <1>1, <1>7, <2>2 DEF Asks
      <3>2. In!Avail = 0
        BY <3>1, Counts
      <3>3. ipc' = "idle" /\ ReadFails /\ UNCHANGED <<arrived, received, base>>
        BY <1>1, <3>1, <3>2, FeedNothing
      <3>4. Asks(p)'
        BY <1>1, <1>2, <1>7, <3>1, <3>3 DEF Asks
      <3>5. PlanInv'
        BY <3>3 DEF PlanInv
      <3>. QED BY <1>1, <1>2, <1>5, <3>4, <3>5 DEF Turn
    <2>. QED BY <2>1, <2>2
  <1>. QED BY <1>6, <1>7 DEF TurnInv, Turn

\* exec_parse finds the header of p where the last packet ended.
LEMMA HeaderTurn ==
    ASSUME TurnInv, ParseHeader
    PROVE  Ledger' /\ Turn'
  <1>1. /\ cpc = "parse" /\ In!Fetch(PACKET_HEADER_SIZE) /\ header' \in Decoded(base)
        /\ cpc' = "content" /\ UNCHANGED <<output, packets, executed, crashed>>
        /\ ~crashed
    BY DEF ParseHeader, Alive
  <1>2. UNCHANGED <<obuffer_len, written, sent, acked, reset, opc, deleted>>
    BY <1>1 DEF output
  <1>3. /\ base' = base + PACKET_HEADER_SIZE /\ ipc = "idle"
        /\ UNCHANGED <<arrived, received, fin, ipc, want>>
    BY <1>1 DEF In!Fetch, In!kernel, In!locals
  <1>4. /\ Ledger' /\ Streamed' = Streamed /\ Done' = Done
        /\ Len(executed') = Len(executed) /\ Cardinality(packets') = Cardinality(packets)
    BY <1>1, <1>2, StillLedger DEF TurnInv
  <1>5. PICK p \in packets : Asks(p)
    BY <1>1 DEF TurnInv, Turn, Answering
  <1>6. base = p.at /\ received = Streamed /\ arrived = Streamed
    BY <1>1, <1>5 DEF Asks
  <1>7. header' = p
    BY <1>1, <1>6 DEF Decoded, TurnInv, Ledger, PacketsInv
  <1>8. Asks(p)'
    BY <1>1, <1>2, <1>3, <1>4, <1>5, <1>6, <1>7 DEF Asks
  <1>9. PlanInv'
    BY <1>3 DEF PlanInv
  <1>10. WriteInv' /\ CrashesOnlyOnBrokenPipe' /\ (deleted' => fin' \/ reset')
    BY <1>1, <1>2, <1>3 DEF TurnInv, Turn, WriteInv,
       CrashesOnlyOnBrokenPipe, BrokenPipe
  <1>. QED BY <1>1, <1>4, <1>8, <1>9, <1>10 DEF Turn

\* A reply written to an empty output buffer grows it once at most.
LEMMA ReplyGrows ==
    ASSUME TurnInv, sent = written, SendReply
    PROVE  /\ OutputGrowsOnce' /\ written' = written + ReplySize /\ opc = "idle"
           /\ UNCHANGED <<sent, acked, reset, opc, deleted>>
  <1>1. /\ opc = "idle" /\ ~deleted /\ obuffer_len' = Out!Grown(ReplySize).len
        /\ written' = written + ReplySize /\ UNCHANGED <<sent, acked, reset, opc, deleted>>
    BY DEF SendReply, Out!Write
  <1>2. ohead = 0 /\ otail = 0 /\ Out!Length = 0
    <2>1. Out!Length = 0
      BY Counts
    <2>. QED BY <1>1, <2>1 DEF TurnInv, Out!OutputInv, Out!TypeOK, Out!NeverWraps, Out!Length
  <1>3. obuffer_len \in Nat
    BY DEF TurnInv, Out!OutputInv, Out!TypeOK
  <1>4. Out!FreeBytes = obuffer_len - 1
    BY <1>2, <1>3 DEF Out!FreeBytes
  <1>. DEFINE half == SOCKET_OUTPUT_SIZE \div 2
              extra == ReplySize - obuffer_len + 2
  <1>5. half \in Nat /\ half >= 1 /\ ReplySize \in Nat
    BY BufferAssumption, Sizes
  <1>6. obuffer_len' = IF ReplySize >= obuffer_len - 1
                       THEN obuffer_len + (IF extra > half THEN extra ELSE half)
                       ELSE obuffer_len
    <2>1. ReplySize - (obuffer_len - 1) + 1 = extra
      BY <1>3, <1>5
    <2>2. Out!Grown(ReplySize).len = IF ReplySize >= obuffer_len - 1
                       THEN obuffer_len + (IF extra > half THEN extra ELSE half)
                       ELSE obuffer_len
      BY <1>4, <2>1 DEF Out!Grown, Out!MustGrow, Out!ResizedLen, Out!SOCKET_OUTPUT_SIZE_HALF
    <2>. QED BY <1>1, <2>2
  <1>7. OutputGrowsOnce
    BY DEF TurnInv, Ledger
  <1>. HIDE DEF half
  <1>8. OutputGrowsOnce'
    BY <1>3, <1>5, <1>6, <1>7, BufferAssumption DEF OutputGrowsOnce, half
  <1>. QED BY <1>1, <1>8

\* exec_parse fetches the content of p and executes it.
LEMMA ContentTurn ==
    ASSUME TurnInv, ParseContent
    PROVE  Ledger' /\ Turn'
  <1>1. PICK p \in packets : Asks(p)
    BY DEF ParseContent, TurnInv, Turn, Answering
  <1>2. /\ header = p /\ base = p.at + PACKET_HEADER_SIZE /\ ipc = "idle"
        /\ received = Streamed /\ arrived = Streamed /\ p.at + p.size = Streamed
        /\ p.at = Done /\ sent = written /\ acked = sent
        /\ Len(executed) + 1 = Cardinality(packets)
    BY <1>1 DEF ParseContent, Asks
  <1>3. /\ p.at \in Nat /\ p.size \in Nat /\ p.size >= PACKET_HEADER_SIZE
        /\ p.id = "CS_PING"
    BY PacketTypes DEF TurnInv, Ledger
  <1>. DEFINE n == p.size - PACKET_HEADER_SIZE
  <1>4. PACKET_HEADER_SIZE \in Nat /\ n \in Nat /\ In!Length = n
    <2>1. In!Length = received - base /\ received \in Nat /\ base \in Nat
      BY Counts
    <2>2. PACKET_HEADER_SIZE \in Nat
      BY Sizes
    <2>3. n \in Nat
      BY <1>3, <2>2
    <2>4. received - base = n
      BY <1>2, <1>3, <2>1, <2>2
    <2>. QED BY <2>1, <2>2, <2>3, <2>4
  <1>5. ContentSize(header) = n
    BY <1>2 DEF ContentSize
  <1>6. n = 0 \/ Fetches(n)
    BY <1>4 DEF Fetches
  <1>7. Given(header, n) = p
    BY <1>2, <1>3, <1>6 DEF Given
  <1>8. /\ executed' = Append(executed, p) /\ SendReply /\ cpc' = "wait"
        /\ (IF Fetches(n) THEN In!Fetch(n) ELSE UNCHANGED input)
        /\ ~crashed /\ UNCHANGED <<packets, header, crashed>>
    BY <1>2, <1>3, <1>5, <1>7 DEF ParseContent, Handle, Alive
  <1>9. /\ base' = Streamed /\ UNCHANGED <<arrived, received, fin, ipc>>
    <2>1. CASE Fetches(n)
      BY <1>2, <1>3, <1>4, <1>8, <2>1 DEF In!Fetch, In!kernel, In!locals
    <2>2. CASE ~Fetches(n)
      BY <1>2, <1>3, <1>4, <1>6, <1>8, <2>2 DEF input
    <2>. QED BY <2>1, <2>2
  <1>10. /\ OutputGrowsOnce' /\ written' = written + ReplySize /\ opc = "idle"
         /\ UNCHANGED <<sent, acked, reset, opc, deleted>>
    BY <1>2, <1>8, ReplyGrows
  <1>11. /\ executed \in Seq(packets) /\ executed' \in Seq(packets)
         /\ Len(executed') = Len(executed) + 1
         /\ \A i \in 1..Len(executed) : executed'[i] = executed[i]
         /\ executed'[Len(executed) + 1] = p
    BY <1>8, AppendProperties DEF TurnInv, Ledger
  <1>12. Streamed' = Streamed
    BY <1>8 DEF Streamed
  <1>13. Done' = Streamed
    <2>1. executed' # <<>>
      BY <1>11, EmptySeq, Counts
    <2>. QED BY <1>2, <1>11, <2>1 DEF Done
  <1>14. ExecutedAsSent'
    <2>1. Len(executed) \in Nat /\ DOMAIN executed = 1..Len(executed)
          /\ DOMAIN executed' = 1..(Len(executed) + 1)
      BY <1>11, LenProperties
    <2>2. ASSUME NEW i \in 1..Len(executed)
          PROVE  /\ executed'[i] \in packets
                 /\ executed'[i].at = IF i = 1 THEN 0
                                      ELSE executed'[i - 1].at + executed'[i - 1].size
      <3>1. i - 1 \in 1..Len(executed) \/ i = 1
        BY <2>1
      <3>2. /\ executed[i] \in packets
            /\ executed[i].at = IF i = 1 THEN 0
                                ELSE executed[i - 1].at + executed[i - 1].size
        BY <2>1 DEF TurnInv, Ledger, ExecutedAsSent
      <3>. QED BY <1>11, <3>1, <3>2
    <2>3. p.at = IF Len(executed) + 1 = 1 THEN 0
                 ELSE executed'[Len(executed)].at + executed'[Len(executed)].size
      <3>1. CASE executed = <<>>
        BY <1>2, <2>1, <3>1, EmptySeq DEF Done
      <3>2. CASE executed # <<>>
        <4>1. Len(executed) \in 1..Len(executed)
          BY <1>11, <2>1, <3>2, EmptySeq
        <4>. QED BY <1>2, <1>11, <2>1, <3>2, <4>1 DEF Done
      <3>. QED BY <3>1, <3>2
    <2>4. ASSUME NEW i \in DOMAIN executed'
          PROVE  /\ executed'[i] \in packets
                 /\ executed'[i].at = IF i = 1 THEN 0
                                      ELSE executed'[i - 1].at + executed'[i - 1].size
      <3>1. CASE i \in 1..Len(executed)
        BY <2>2, <3>1
      <3>2. CASE i = Len(executed) + 1
        <4>1. i - 1 = Len(executed) /\ executed'[i] = p
          BY <1>11, <2>1, <3>2
        <4>. QED BY <2>3, <3>2, <4>1
      <3>. QED BY <2>1, <3>1, <3>2
    <2>5. UNCHANGED packets
      BY <1>8
    <2>. QED BY <2>4, <2>5 DEF ExecutedAsSent
  <1>15. written' = ReplySize * Len(executed')
    <2>1. written = ReplySize * Len(executed)
      BY DEF TurnInv, Ledger
    <2>2. ReplySize * (Len(executed) + 1) = ReplySize * Len(executed) + ReplySize
      BY Counts
    <2>. QED BY <1>10, <1>11, <2>1, <2>2
  <1>16. PacketsInv'
    BY <1>8, <1>12 DEF TurnInv, Ledger, PacketsInv
  <1>17. Ledger'
    BY <1>8, <1>10, <1>11, <1>14, <1>15, <1>16 DEF Ledger
  <1>18. Answering'
    BY <1>2, <1>8, <1>9, <1>10, <1>11, <1>12, <1>13 DEF Answering
  <1>19. PlanInv' /\ WriteInv' /\ CrashesOnlyOnBrokenPipe' /\ (deleted' => fin' \/ reset')
    BY <1>2, <1>8, <1>9, <1>10 DEF PlanInv, TurnInv, Turn, WriteInv,
       CrashesOnlyOnBrokenPipe, BrokenPipe
  <1>. QED BY <1>17, <1>18, <1>19 DEF Turn

\* Of the ways to crash only the broken pipe is open.
LEMMA CrashTurn ==
    ASSUME TurnInv, Crash
    PROVE  Ledger' /\ Turn'
  <1>1. /\ crashed' = TRUE /\ UNCHANGED input
        /\ UNCHANGED <<obuffer_len, written, sent, acked, reset, opc, deleted>>
        /\ UNCHANGED <<packets, cpc, header, executed>>
        /\ UNCHANGED <<ipc, fin, arrived, received, base>>
    BY DEF Crash, input, output
  <1>2. BrokenPipe
    <2>. SUFFICES ASSUME ~BrokenPipe PROVE FALSE
      OBVIOUS
    <2>1. cpc \in {"parse", "content"}
      BY DEF Crash
    <2>2. PICK p \in packets : Asks(p)
      BY <2>1 DEF TurnInv, Turn, Answering
    <2>3. /\ p.at \in Nat /\ p.size \in Nat /\ p.size >= PACKET_HEADER_SIZE
          /\ p.id = "CS_PING" /\ PACKET_HEADER_SIZE \in Nat
      BY PacketTypes, Sizes DEF TurnInv, Ledger
    <2>4. CASE cpc = "parse"
      <3>1. base = p.at /\ received = p.at + p.size
        BY <2>2, <2>4 DEF Asks
      <3>2. In!Length = received - base
        BY Counts
      <3>. QED BY <2>3, <2>4, <3>1, <3>2 DEF Crash
    <2>5. CASE cpc = "content"
      BY <2>2, <2>3, <2>5 DEF Asks, Crash, ContentSize, Known
    <2>. QED BY <2>1, <2>4, <2>5
  <1>3. /\ Ledger' /\ Streamed' = Streamed /\ Done' = Done
        /\ Len(executed') = Len(executed) /\ Cardinality(packets') = Cardinality(packets)
    BY <1>1, StillLedger DEF TurnInv
  <1>4. PlanInv'
    BY <1>1, StillPlan DEF TurnInv, Turn
  <1>5. WriteInv' /\ CrashesOnlyOnBrokenPipe' /\ (deleted' => fin' \/ reset')
    BY <1>1, <1>2 DEF TurnInv, Turn, WriteInv,
       CrashesOnlyOnBrokenPipe, BrokenPipe
  <1>6. Answering => Answering'
    BY <1>1, <1>3 DEF Answering
  <1>7. ASSUME NEW p \in packets, Asks(p) PROVE Asks(p)'
    BY <1>1, <1>3, <1>7 DEF Asks
  <1>. QED BY <1>1, <1>3, <1>4, <1>5, <1>6, <1>7 DEF TurnInv, Turn

\* When exec_write runs, one reply is to be sent, and the kernel has room for it.
LEMMA ReplyReady ==
    ASSUME PoliteClient, TurnInv, cpc = "write"
    PROVE  /\ Answering /\ sent = acked /\ sent + ReplySize = written
           /\ ohead < otail /\ ohead + ReplySize = otail /\ otail # obuffer_len
           /\ Out!LeftBytes = ReplySize
           /\ Out!Send(ReplySize) = IF reset THEN -1 ELSE ReplySize
  <1>1. /\ Answering /\ sent = acked /\ sent + ReplySize = written
    BY DEF TurnInv, Turn, WriteInv, Answering, Asks
  <1>2. /\ ohead < otail /\ otail - ohead = ReplySize /\ ohead \in Nat /\ otail \in Nat
        /\ otail < obuffer_len /\ obuffer_len \in Nat
    <2>1. Out!Length = ReplySize
      BY <1>1, Counts
    <2>. QED BY <2>1, Counts DEF TurnInv, Out!OutputInv, Out!TypeOK, Out!NeverWraps, Out!Length
  <1>3. Out!LeftBytes = ReplySize
    BY <1>2 DEF Out!LeftBytes
  <1>4. Out!Send(ReplySize) = IF reset THEN -1 ELSE ReplySize
    <2>1. SendBuffer \in Nat /\ ReplySize <= SendBuffer /\ ReplySize \in Nat /\ ReplySize > 0
      BY BufferAssumption, Sizes DEF PoliteClient
    <2>2. Out!Room = SendBuffer
      BY <1>1, <2>1, Counts DEF Out!Room
    <2>. QED BY <2>1, <2>2 DEF Out!Send
  <1>5. ohead + ReplySize = otail /\ otail # obuffer_len
    <2>1. ReplySize \in Nat
      BY Sizes
    <2>. QED BY <1>2, <2>1
  <1>. QED BY <1>1, <1>2, <1>3, <1>4, <1>5

\* exec_write sends the reply whole, or finds the connection reset.
LEMMA WriteTurn ==
    ASSUME PoliteClient, TurnInv, ExecWrite
    PROVE  Ledger' /\ Turn'
  <1>1. /\ cpc = "write" /\ (Out!Refresh \/ Out!SendSome \/ Out!SendFails)
        /\ cpc' = (IF opc' = "idle" THEN "wait" ELSE "write")
        /\ ~crashed /\ UNCHANGED <<input, packets, header, executed, crashed>>
    BY DEF ExecWrite, Alive
  <1>2. UNCHANGED <<ipc, fin, arrived, received, base>>
    BY <1>1 DEF input
  <1>3. UNCHANGED <<obuffer_len, written, acked, reset>>
    BY <1>1 DEF Out!Refresh, Out!SendSome, Out!SendFails, Out!members
  <1>4. /\ Ledger' /\ Streamed' = Streamed /\ Done' = Done
        /\ Len(executed') = Len(executed) /\ Cardinality(packets') = Cardinality(packets)
    BY <1>1, <1>3, StillLedger DEF TurnInv
  <1>5. PlanInv'
    BY <1>1, StillPlan DEF TurnInv, Turn
  <1>6. Answering /\ sent = acked /\ sent + ReplySize = written
    BY <1>1, ReplyReady
  <1>7. ohead < otail /\ ohead + ReplySize = otail /\ otail # obuffer_len
    BY <1>1, ReplyReady
  <1>8. Out!LeftBytes = ReplySize
    BY <1>1, ReplyReady
  <1>9. Out!Send(ReplySize) = IF reset THEN -1 ELSE ReplySize
    BY <1>1, ReplyReady
  <1>10. CASE Out!Refresh
    <2>1. opc' = "send" /\ cpc' = "write" /\ UNCHANGED <<sent, deleted>>
      <3>1. ohead # otail
        BY <1>7 DEF TurnInv, Out!OutputInv, Out!TypeOK
      <3>. QED BY <1>1, <1>10, <3>1 DEF Out!Refresh
    <2>2. Answering'
      BY <1>1, <1>2, <1>3, <1>4, <1>6, <2>1 DEF Answering
    <2>3. WriteInv' /\ CrashesOnlyOnBrokenPipe' /\ (deleted' => fin' \/ reset')
      BY <1>1, <1>2, <1>3, <2>1 DEF TurnInv, Turn, WriteInv,
       CrashesOnlyOnBrokenPipe, BrokenPipe
    <2>. QED BY <1>4, <1>5, <2>2, <2>3 DEF Turn
  <1>11. CASE Out!SendSome
    <2>1. ~reset
      BY <1>8, <1>9, <1>11, Sizes DEF Out!SendSome
    <2>2. sent' = written /\ opc' = "idle"
      BY <1>6, <1>7, <1>8, <1>9, <1>11, <2>1 DEF Out!SendSome
    <2>3. cpc' = "wait" /\ UNCHANGED deleted
      BY <1>1, <1>11, <2>2 DEF Out!SendSome
    <2>4. Answering'
      BY <1>1, <1>2, <1>3, <1>4, <1>6, <2>2, <2>3 DEF Answering
    <2>5. WriteInv' /\ CrashesOnlyOnBrokenPipe' /\ (deleted' => fin' \/ reset')
      BY <1>1, <1>2, <1>3, <2>2, <2>3 DEF TurnInv, Turn, WriteInv,
       CrashesOnlyOnBrokenPipe, BrokenPipe
    <2>. QED BY <1>4, <1>5, <2>4, <2>5 DEF Turn
  <1>12. CASE Out!SendFails
    <2>1. reset
      BY <1>8, <1>9, <1>12, Sizes DEF Out!SendFails
    <2>2. opc' = "idle" /\ cpc' = "wait" /\ UNCHANGED sent
      BY <1>1, <1>12 DEF Out!SendFails
    <2>3. Answering'
      BY <1>1, <1>2, <1>3, <1>4, <1>6, <2>2 DEF Answering
    <2>4. WriteInv' /\ CrashesOnlyOnBrokenPipe' /\ (deleted' => fin' \/ reset')
      BY <1>1, <1>2, <1>3, <2>1, <2>2 DEF TurnInv, Turn, WriteInv,
       CrashesOnlyOnBrokenPipe, BrokenPipe
    <2>. QED BY <1>4, <1>5, <2>3, <2>4 DEF Turn
  <1>. QED BY <1>1, <1>10, <1>11, <1>12

\* Every step on the output buffer is one of its module, but for exec_read's
\* deletion of the connector.
LEMMA OutputStep ==
    ASSUME InputInv, Out!OutputInv, [Next]_vars
    PROVE  Out!OutputInv'
  <1>1. CASE UNCHANGED output
    <2>1. [Out!Next]_(Out!vars)
      BY <1>1 DEF output, Out!vars, Out!members
    <2>. QED BY <2>1, OutputKept
  <1>2. CASE PeerReset \/ ExecWrite
    <2>1. Out!Next
      BY <1>2 DEF PeerReset, ExecWrite, Out!Next
    <2>. QED BY <2>1, OutputKept
  <1>3. CASE \E n \in 1..(sent - acked) : ReadReply(n)
    <2>1. Out!Next
      BY <1>3 DEF ReadReply, Out!Next
    <2>. QED BY <2>1, OutputKept
  <1>4. CASE ParseContent
    <2>1. Out!Write(ReplySize) \/ UNCHANGED output
      BY <1>4 DEF ParseContent, Handle, SendReply
    <2>. QED BY <1>1, <2>1, OutputKept
  <1>5. CASE ExecRead
    <2>1. deleted' \in BOOLEAN
      <3>1. deleted' = deleted \/ deleted' = ReadFails
        BY <1>5 DEF ExecRead
      <3>2. deleted \in BOOLEAN
        BY DEF InputInv, ReadInv
      <3>3. ReadFails \in BOOLEAN
        BY DEF ReadFails
      <3>. QED BY <3>1, <3>2, <3>3
    <2>2. /\ UNCHANGED <<obuffer, obuffer_len, ohead, otail, written, sent, acked, reset, opc>>
          /\ ~deleted
      BY <1>5 DEF ExecRead, Alive
    <2>3. Out!TypeOK'
      BY <2>1, <2>2 DEF Out!OutputInv, Out!TypeOK
    <2>4. Out!NeverWraps'
      BY <2>2 DEF Out!OutputInv, Out!NeverWraps
    <2>5. Out!RingHoldsReplies'
      BY <2>2 DEF Out!OutputInv, Out!RingHoldsReplies, Out!Length, Out!Slot
    <2>. QED BY <2>3, <2>4, <2>5 DEF Out!OutputInv
  <1>6. CASE Client \/ PeerClose \/ EpollWait \/ ParseHeader \/ Crash
    BY <1>1, <1>6 DEF Client, SendPacket, PeerClose, EpollWait, ParseHeader, Crash
  <1>7. CASE \E n \in 1..(StreamLen - arrived) : Arrive(n)
    BY <1>1, <1>7 DEF Arrive
  <1>8. CASE UNCHANGED vars
    BY <1>1, <1>8 DEF vars
  <1>. QED BY <1>2, <1>3, <1>4, <1>5, <1>6, <1>7, <1>8 DEF Next, Network, EventLoop

LEMMA TurnStep ==
    ASSUME PoliteClient, TurnInv, [Next]_vars
    PROVE  TurnInv'
  <1>1. InputInv' /\ Out!OutputInv'
    BY ReadStep, OutputStep DEF TurnInv, PoliteClient
  <1>2. Ledger' /\ Turn'
    <2>1. CASE UNCHANGED vars
      <3>1. UNCHANGED input /\ UNCHANGED <<packets, cpc, header, executed, crashed>>
            /\ UNCHANGED <<obuffer_len, written, sent, acked, reset, opc, deleted>>
            /\ UNCHANGED <<ipc, fin, arrived, received, base>>
        BY <2>1 DEF vars, input, output
      <3>2. /\ Ledger' /\ Streamed' = Streamed /\ Done' = Done
            /\ Len(executed') = Len(executed) /\ Cardinality(packets') = Cardinality(packets)
        BY <3>1, StillLedger DEF TurnInv
      <3>3. PlanInv'
        BY <3>1, StillPlan DEF TurnInv, Turn
      <3>4. Answering => Answering'
        BY <3>1, <3>2 DEF Answering
      <3>5. ASSUME NEW p \in packets, Asks(p) PROVE Asks(p)'
        BY <3>1, <3>2, <3>5 DEF Asks
      <3>. QED BY <3>1, <3>2, <3>3, <3>4, <3>5 DEF TurnInv, Turn, WriteInv,
       CrashesOnlyOnBrokenPipe, BrokenPipe
    <2>2. CASE Client
      BY <2>2, SendTurn DEF Client
    <2>3. CASE \E n \in 1..(StreamLen - arrived) : Arrive(n)
      BY <2>3, ArriveTurn
    <2>4. CASE PeerClose \/ PeerReset \/ \E n \in 1..(sent - acked) : ReadReply(n)
      BY <2>4, LeaveTurn
    <2>5. CASE EpollWait
      BY <2>5, WaitTurn
    <2>6. CASE ExecRead
      BY <2>6, ReadTurn
    <2>7. CASE ParseHeader
      BY <2>7, HeaderTurn
    <2>8. CASE ParseContent
      BY <2>8, ContentTurn
    <2>9. CASE ExecWrite
      BY <2>9, WriteTurn
    <2>10. CASE Crash
      BY <2>10, CrashTurn
    <2>. QED BY <2>1, <2>2, <2>3, <2>4, <2>5, <2>6, <2>7, <2>8, <2>9, <2>10
             DEF Next, Network, EventLoop
  <1>. QED BY <1>1, <1>2 DEF TurnInv

LEMMA InitTurn == Init => TurnInv
  <1> SUFFICES ASSUME Init PROVE TurnInv
    OBVIOUS
  <1>1. InputInv /\ Out!OutputInv
    BY InitInput, InitKept
  <1>2. /\ packets = {} /\ executed = <<>> /\ cpc = "wait" /\ ~crashed
        /\ arrived = 0 /\ received = 0 /\ base = 0 /\ ipc = "idle"
        /\ written = 0 /\ sent = 0 /\ acked = 0 /\ ~deleted /\ opc = "idle"
        /\ obuffer_len = SOCKET_OUTPUT_SIZE
    BY DEF Init, In!Init, Out!Init
  <1>3. Streamed = 0 /\ Done = 0
    BY <1>2 DEF Streamed, Done
  <1>4. Len(executed) = 0 /\ Cardinality(packets) = 0 /\ IsFiniteSet(packets)
    BY <1>2, FS_EmptySet
  <1>5. PacketsInv
    BY <1>2, <1>3, <1>4, BufferAssumption DEF PacketsInv
  <1>6. executed \in Seq(packets) /\ ExecutedAsSent /\ OutputGrowsOnce
    BY <1>2 DEF ExecutedAsSent, OutputGrowsOnce
  <1>7. Ledger
    BY <1>2, <1>4, <1>5, <1>6, Sizes DEF Ledger
  <1>8. Turn
    BY <1>2, <1>3, <1>4 DEF Turn, PlanInv, WriteInv, Answering, CrashesOnlyOnBrokenPipe
  <1>. QED BY <1>1, <1>7, <1>8 DEF TurnInv

LEMMA AlwaysTurn ==
    ASSUME PoliteClient
    PROVE  Spec => []TurnInv
  <1>1. TurnInv /\ [Next]_vars => TurnInv'
    BY TurnStep
  <1>. QED BY <1>1, InitTurn, PTL DEF Spec

\* The handler is given every packet of the client, whole, in order and once, for
\* every size of the buffers and of the packets that feed can receive.
THEOREM HandlerSafety ==
    ASSUME PoliteClient
    PROVE  Spec => []ExecutedAsSent
  <1>1. TurnInv => ExecutedAsSent
    BY DEF TurnInv, Ledger
  <1>. QED BY <1>1, AlwaysTurn, PTL

\* A client of whole packets that waits for its replies ends the process only when
\* it closes and then resets the connection before refresh calls send, for every
\* size of the buffers: exec_parse always finds a header and a content of the
\* length it names, wherever in the event loop the client closes or resets.
THEOREM ProcessSafety ==
    ASSUME PoliteClient
    PROVE  Spec => []CrashesOnlyOnBrokenPipe
  <1>1. TurnInv => CrashesOnlyOnBrokenPipe
    BY DEF TurnInv, Turn
  <1>. QED BY <1>1, AlwaysTurn, PTL

\* The output buffer grows once, whatever its first size and that of a reply.
THEOREM OutputBound ==
    ASSUME PoliteClient
    PROVE  Spec => []OutputGrowsOnce
  <1>1. TurnInv => OutputGrowsOnce
    BY DEF TurnInv, Ledger
  <1>. QED BY <1>1, AlwaysTurn, PTL
--------------------------------------------------------------------------------
(* The connection serves its client's requests as RequestReply promises. *)

\* The stage of the last request, in terms of the invariant.
LEMMA StageOf ==
    ASSUME TurnInv
    PROVE  /\ Answering /\ sent = written => Stage = "none"
           /\ Answering /\ sent + ReplySize = written => Stage = "reply"
           /\ \A p \in packets : Asks(p) =>
                Stage = IF received = Streamed THEN "fed" ELSE "sent"
  <1>1. written = ReplySize * Len(executed)
    BY DEF TurnInv, Ledger
  <1>2. ASSUME Answering PROVE written = ReplySize * Cardinality(packets)
    BY <1>1, <1>2 DEF Answering
  <1>3. ASSUME Answering, sent = written PROVE Stage = "none"
    BY <1>2, <1>3 DEF Stage
  <1>4. ASSUME Answering, sent + ReplySize = written PROVE Stage = "reply"
    <2>1. sent # written
      BY <1>4, Counts
    <2>2. Len(executed) = Cardinality(packets)
      BY <1>4 DEF Answering
    <2>. QED BY <1>2, <1>4, <2>1, <2>2 DEF Stage
  <1>5. ASSUME NEW p \in packets, Asks(p)
        PROVE  Stage = IF received = Streamed THEN "fed" ELSE "sent"
    <2>1. sent = ReplySize * Len(executed) /\ Cardinality(packets) = Len(executed) + 1
      BY <1>1, <1>5, Counts DEF Asks
    <2>2. ReplySize * (Len(executed) + 1) = ReplySize * Len(executed) + ReplySize
      BY Counts
    <2>3. ReplySize * Len(executed) \in Nat
      BY Counts
    <2>4. sent # ReplySize * Cardinality(packets) /\ Len(executed) # Cardinality(packets)
      <3>1. ReplySize \in Nat /\ ReplySize > 0 /\ Len(executed) \in Nat
        BY Counts
      <3>2. Len(executed) # Cardinality(packets)
        BY <2>1, <3>1
      <3>3. PICK k : k = ReplySize * Len(executed)
        OBVIOUS
      <3>4. sent = k /\ k \in Nat /\ ReplySize * Cardinality(packets) = k + ReplySize
        BY <2>1, <2>2, <2>3, <3>3
      <3>5. k # k + ReplySize
        BY <3>1, <3>4
      <3>. QED BY <3>2, <3>4, <3>5
    <2>. QED BY <2>4 DEF Stage
  <1>. QED BY <1>3, <1>4, <1>5

LEMMA StillStage ==
    ASSUME UNCHANGED <<sent, packets, executed, received>>
    PROVE  Stage' = Stage
  <1>1. Streamed' = Streamed
    BY DEF Streamed
  <1>. QED BY <1>1 DEF Stage

\* A step of Connector seen from RequestReply, by what it does to the stage.
LEMMA ServiceMoves ==
    /\ Stage' = Stage /\ UNCHANGED <<fin, reset, deleted>> => UNCHANGED Service!vars
    /\ Stage' = Stage /\ (fin' \/ reset') /\ ~fin /\ ~reset /\ UNCHANGED deleted
         => Service!Next
    /\ Stage' = Stage /\ (fin \/ reset) /\ (fin' \/ reset') /\ UNCHANGED deleted
         => UNCHANGED Service!vars
    /\ Stage' = Stage /\ UNCHANGED <<fin, reset>> /\ (fin \/ reset)
         /\ ~deleted /\ deleted' => Service!Next
    /\ Stage = "none" /\ Stage' = "sent" /\ ~fin /\ ~reset
         /\ UNCHANGED <<fin, reset, deleted>> => Service!Next
    /\ (\/ Stage = "sent" /\ Stage' = "fed"
        \/ Stage = "fed" /\ Stage' = "reply"
        \/ Stage = "reply" /\ Stage' = "none")
         /\ ~deleted /\ UNCHANGED <<fin, reset, deleted>> => Service!Next
  <1>. DEFINE st == [c \in {"this"} |-> Stage]
              lf == {c \in {"this"} : fin \/ reset}
              dr == {c \in {"this"} : deleted}
  <1>1. Stage' = Stage => UNCHANGED st
    OBVIOUS
  <1>2. UNCHANGED <<fin, reset>> => UNCHANGED lf
    OBVIOUS
  <1>3. UNCHANGED deleted => UNCHANGED dr
    OBVIOUS
  <1>4. /\ (fin \/ reset) => lf = {"this"}
        /\ (fin' \/ reset') => lf' = {"this"}
        /\ ~fin /\ ~reset => lf = {}
        /\ ~deleted => dr = {}
        /\ deleted' => dr' = {"this"}
    OBVIOUS
  <1>5. st["this"] = Stage /\ st' = [st EXCEPT !["this"] = Stage']
    OBVIOUS
  <1>6. ASSUME Stage' = Stage, UNCHANGED <<fin, reset, deleted>> PROVE UNCHANGED Service!vars
    BY <1>1, <1>2, <1>3, <1>6 DEF Service!vars
  <1>7. ASSUME Stage' = Stage, fin' \/ reset', ~fin, ~reset, UNCHANGED deleted
        PROVE  Service!Next
    BY <1>1, <1>3, <1>4, <1>7 DEF Service!Next, Service!Leave
  <1>8. ASSUME Stage' = Stage, fin \/ reset, fin' \/ reset', UNCHANGED deleted
        PROVE  UNCHANGED Service!vars
    BY <1>1, <1>3, <1>4, <1>8 DEF Service!vars
  <1>9. ASSUME Stage' = Stage, UNCHANGED <<fin, reset>>, fin \/ reset, ~deleted, deleted'
        PROVE  Service!Next
    BY <1>1, <1>2, <1>4, <1>9 DEF Service!Next, Service!Drop
  <1>10. ASSUME Stage = "none", Stage' = "sent", ~fin, ~reset,
                UNCHANGED <<fin, reset, deleted>>
         PROVE  Service!Next
    BY <1>2, <1>3, <1>4, <1>5, <1>10 DEF Service!Next, Service!Ask, Service!Move
  <1>11. ASSUME \/ Stage = "sent" /\ Stage' = "fed"
                \/ Stage = "fed" /\ Stage' = "reply"
                \/ Stage = "reply" /\ Stage' = "none",
                ~deleted, UNCHANGED <<fin, reset, deleted>>
         PROVE  Service!Next
    BY <1>2, <1>3, <1>4, <1>5, <1>11 DEF Service!Next, Service!Serve, Service!Move
  <1>. QED BY <1>6, <1>7, <1>8, <1>9, <1>10, <1>11

\* exec_read: the packet has been fed when feed has received all of it.
LEMMA ReadServes ==
    ASSUME PoliteClient, TurnInv, TurnInv', ExecRead
    PROVE  Service!Next \/ UNCHANGED Service!vars
  <1>1. /\ cpc = "read" /\ In!Feed /\ ~deleted /\ InputInv
        /\ UNCHANGED <<written, sent, acked, reset, packets, executed>>
        /\ (ipc' # "idle" \/ ~ReadFails) => UNCHANGED deleted
        /\ ipc' = "idle" /\ ReadFails => deleted'
    <2>1. deleted \in BOOLEAN /\ ReadFails \in BOOLEAN
      BY DEF TurnInv, InputInv, ReadInv, ReadFails
    <2>. QED BY <2>1 DEF ExecRead, Alive, TurnInv
  <1>2. UNCHANGED fin
    BY <1>1, FeedTurn
  <1>3. Streamed' = Streamed /\ Len(executed') = Len(executed)
    BY <1>1 DEF Streamed
  <1>4. CASE ipc' = "idle" /\ ReadFails
    <2>1. UNCHANGED received /\ ipc = "idle" /\ In!Avail = 0
      BY <1>1, <1>4, FeedTurn
    <2>2. fin \/ reset
      BY <1>1, <2>1 DEF InputInv, ReadInv, Readable
    <2>3. Stage' = Stage
      BY <1>1, <2>1, StillStage
    <2>. QED BY <1>1, <1>2, <1>4, <2>2, <2>3, ServiceMoves
  <1>5. CASE ipc' # "idle" \/ ~ReadFails
    <2>1. UNCHANGED <<fin, reset, deleted>>
      BY <1>1, <1>2, <1>5
    <2>2. ASSUME In!Avail = 0 PROVE UNCHANGED received
      <3>1. CASE ipc = "idle"
        BY <1>1, <2>2, <3>1, FeedNothing
      <3>2. CASE ipc # "idle"
        <4>1. ~In!FeedRest
          BY <1>1, <2>2 DEF In!FeedRest, InputInv, ReadInv, In!RingInv, In!FeedInv, In!TypeOK
        <4>. QED BY <1>1, <3>2, <4>1 DEF In!Feed, In!FeedFront, In!FeedFull, In!FeedBack,
               In!FeedGap, In!ProbeNone, In!ProbeWrap, In!ProbeGrow, In!ProbeOverflow, In!kernel
      <3>. QED BY <3>1, <3>2
    <2>3. CASE Answering
      <3>1. In!Avail = 0
        BY <2>3, Counts DEF Answering
      <3>2. Stage' = Stage
        BY <1>1, <2>2, <3>1, StillStage
      <3>. QED BY <2>1, <3>2, ServiceMoves
    <2>4. ASSUME NEW p \in packets, Asks(p) PROVE Service!Next \/ UNCHANGED Service!vars
      <3>1. Stage = IF received = Streamed THEN "fed" ELSE "sent"
        BY <2>4, StageOf
      <3>2. Stage' = IF received' = Streamed' THEN "fed" ELSE "sent"
        <4>1. Stage = (IF received = Streamed THEN "fed" ELSE "sent") <=>
              Stage' = (IF received' = Streamed' THEN "fed" ELSE "sent")
          BY <1>1, <1>3, <3>1 DEF Stage
        <4>. QED BY <3>1, <4>1
      <3>3. received = Streamed => received' = Streamed'
        <4>1. ASSUME received = Streamed PROVE In!Avail = 0
          <5>1. p.at < Streamed /\ p.at \in Nat
            BY PacketTypes DEF TurnInv, Ledger
          <5>2. received \in Nat /\ Streamed \in Nat /\ In!Avail = arrived - received
            BY Counts
          <5>3. arrived = Streamed
            BY <2>4, <4>1, <5>1, <5>2 DEF Asks
          <5>. QED BY <4>1, <5>2, <5>3
        <4>. QED BY <1>3, <2>2, <4>1
      <3>. QED BY <1>1, <2>1, <3>1, <3>2, <3>3, ServiceMoves
    <2>. QED BY <2>3, <2>4 DEF TurnInv, Turn
  <1>. QED BY <1>4, <1>5

\* exec_parse: the packet is executed.
LEMMA ContentServes ==
    ASSUME TurnInv, TurnInv', ParseContent
    PROVE  Service!Next
  <1>1. PICK p \in packets : Asks(p)
    BY DEF ParseContent, TurnInv, Turn, Answering
  <1>2. received = Streamed /\ ~deleted /\ cpc' = "wait"
    BY <1>1 DEF ParseContent, Asks, Alive
  <1>3. Stage = "fed"
    BY <1>1, <1>2, StageOf
  <1>4. executed \in Seq(packets) /\ Len(executed) + 1 = Cardinality(packets)
    BY <1>1 DEF TurnInv, Ledger, Asks
  <1>5. PICK g : executed' = Append(executed, g)
    BY DEF ParseContent
  <1>6. Len(executed') = Cardinality(packets')
    BY <1>4, <1>5 DEF ParseContent
  <1>7. /\ UNCHANGED <<sent, reset, deleted, packets>> /\ UNCHANGED fin
    BY DEF ParseContent, Handle, SendReply, Out!Write, output, input, In!Fetch, In!kernel
  <1>8. sent # ReplySize * Cardinality(packets)
    BY <1>3 DEF Stage
  <1>9. Stage' = "reply"
    BY <1>6, <1>7, <1>8 DEF Stage
  <1>. QED BY <1>2, <1>3, <1>7, <1>9, ServiceMoves

\* exec_write: the reply is sent whole.
LEMMA WriteServes ==
    ASSUME PoliteClient, TurnInv, ExecWrite
    PROVE  Service!Next \/ UNCHANGED Service!vars
  <1>1. /\ cpc = "write" /\ ~deleted /\ UNCHANGED <<packets, executed, received, fin>>
        /\ Out!Refresh \/ Out!SendSome \/ Out!SendFails
    BY DEF ExecWrite, Alive, input
  <1>2. CASE Out!Refresh
    <2>1. UNCHANGED <<sent, reset, deleted>>
      BY <1>2 DEF Out!Refresh
    <2>. QED BY <1>1, <2>1, StillStage, ServiceMoves
  <1>3. CASE Out!SendSome
    <2>1. Stage = "reply"
      BY <1>1, ReplyReady, StageOf
    <2>2. UNCHANGED <<reset, deleted>> /\ sent' = sent + Out!Send(Out!LeftBytes)
          /\ Out!Send(Out!LeftBytes) > 0
      BY <1>3 DEF Out!SendSome
    <2>3. sent' = written
      <3>1. /\ Out!LeftBytes = ReplySize /\ sent + ReplySize = written
            /\ Out!Send(ReplySize) = IF reset THEN -1 ELSE ReplySize
        BY <1>1, ReplyReady
      <3>2. ~reset
        BY <2>2, <3>1
      <3>. QED BY <2>2, <3>1, <3>2
    <2>4. written = ReplySize * Cardinality(packets)
      BY <1>1, ReplyReady DEF TurnInv, Ledger, Answering
    <2>5. Stage' = "none"
      BY <1>1, <2>3, <2>4 DEF Stage
    <2>. QED BY <1>1, <2>1, <2>2, <2>5, ServiceMoves
  <1>4. CASE Out!SendFails
    <2>1. UNCHANGED <<sent, reset>> /\ deleted'
      BY <1>4 DEF Out!SendFails
    <2>2. reset
      <3>1. Out!Send(ReplySize) < 0
        BY <1>1, <1>4, ReplyReady DEF Out!SendFails
      <3>. QED BY <1>1, <3>1, ReplyReady, Sizes
    <2>3. Stage' = Stage
      BY <1>1, <2>1, StillStage
    <2>. QED BY <1>1, <2>1, <2>2, <2>3, ServiceMoves
  <1>. QED BY <1>1, <1>2, <1>3, <1>4

LEMMA ServiceStep ==
    ASSUME PoliteClient, TurnInv, TurnInv', [Next]_vars
    PROVE  [Service!Next]_(Service!vars)
  <1>1. CASE UNCHANGED vars \/ EpollWait \/ ParseHeader \/ Crash
    <2>1. UNCHANGED <<sent, packets, executed, received, fin, reset, deleted>>
      BY <1>1 DEF vars, input, output, EpollWait, ParseHeader, Crash, In!Fetch, In!kernel
    <2>. QED BY <2>1, StillStage, ServiceMoves
  <1>2. CASE Client
    <2>1. PICK size \in PacketSizes : SendPacket(size)
      BY <1>2 DEF Client
    <2>2. PICK new : new = [at |-> Streamed, size |-> size, id |-> "CS_PING"]
      OBVIOUS
    <2>3. /\ ~fin /\ ~reset /\ UNCHANGED <<sent, executed, received, fin, reset, deleted>>
          /\ packets' = packets \cup {new} /\ Streamed + size <= StreamLen
          /\ acked = ReplySize * Cardinality(packets)
      BY <2>1, <2>2 DEF SendPacket, PoliteClient, input, output
    <2>4. Answering /\ sent = written
      BY <2>3, LastReplyRead
    <2>5. Stage = "none"
      BY <2>4, StageOf
    <2>6. Streamed' = Streamed + size /\ Cardinality(packets') = Cardinality(packets) + 1
      BY <2>2, <2>3, NextPacket DEF TurnInv, Ledger
    <2>7. sent = ReplySize * Cardinality(packets) /\ Len(executed) = Cardinality(packets)
          /\ received = Streamed
      BY <2>4 DEF TurnInv, Ledger, Answering
    <2>8. ReplySize * (Cardinality(packets) + 1) = ReplySize * Cardinality(packets) + ReplySize
      BY Counts
    <2>9. size \in Nat /\ size > 0
      BY Sizes
    <2>10. /\ sent' # ReplySize * Cardinality(packets') /\ received' # Streamed'
           /\ Len(executed') # Cardinality(packets')
      <3>1. /\ ReplySize * Cardinality(packets) \in Nat /\ Cardinality(packets) \in Nat
            /\ ReplySize \in Nat /\ ReplySize > 0 /\ Streamed \in Nat
        BY Counts
      <3>2. sent' # ReplySize * Cardinality(packets')
        BY <2>3, <2>6, <2>7, <2>8, <3>1
      <3>3. received' # Streamed'
        BY <2>3, <2>6, <2>7, <2>9, <3>1
      <3>4. Len(executed') # Cardinality(packets')
        BY <2>3, <2>6, <2>7, <3>1
      <3>. QED BY <3>2, <3>3, <3>4
    <2>11. Stage' = "sent"
      BY <2>10 DEF Stage
    <2>. QED BY <2>3, <2>5, <2>11, ServiceMoves
  <1>3. CASE \E n \in 1..(StreamLen - arrived) : Arrive(n)
    <2>1. UNCHANGED <<sent, packets, executed, received, fin, reset, deleted>>
      BY <1>3 DEF Arrive, In!Arrive, output
    <2>. QED BY <2>1, StillStage, ServiceMoves
  <1>4. CASE \E n \in 1..(sent - acked) : ReadReply(n)
    <2>1. UNCHANGED <<sent, packets, executed, received, fin, reset, deleted>>
      BY <1>4 DEF ReadReply, Out!Ack, input
    <2>. QED BY <2>1, StillStage, ServiceMoves
  <1>5. CASE PeerClose
    <2>1. /\ UNCHANGED <<sent, packets, executed, received, deleted>>
          /\ ~fin /\ ~reset /\ fin'
      BY <1>5 DEF PeerClose, In!PeerClose, output
    <2>. QED BY <2>1, StillStage, ServiceMoves
  <1>6. CASE PeerReset
    <2>1. /\ UNCHANGED <<sent, packets, executed, received, deleted>>
          /\ ~reset /\ reset'
      BY <1>6 DEF PeerReset, Out!Reset, input
    <2>. QED BY <2>1, StillStage, ServiceMoves
  <1>7. CASE ExecRead
    BY <1>7, ReadServes
  <1>8. CASE ParseContent
    BY <1>8, ContentServes
  <1>9. CASE ExecWrite
    BY <1>9, WriteServes
  <1>. QED BY <1>1, <1>2, <1>3, <1>4, <1>5, <1>6, <1>7, <1>8, <1>9
           DEF Next, Network, EventLoop

\* The event loop over the two ring buffers serves its client as RequestReply
\* promises, for every size of the buffers, the packets and the replies.
THEOREM ConnectorRefines ==
    ASSUME PoliteClient
    PROVE  Spec => ImplementsRequestReply
  <1>1. Init => Service!Init
    <2>. SUFFICES ASSUME Init PROVE Service!Init
      OBVIOUS
    <2>1. TurnInv /\ ~fin /\ ~reset /\ ~deleted /\ sent = 0 /\ packets = {}
      BY InitTurn DEF Init, In!Init, Out!Init
    <2>2. Stage = "none"
      BY <2>1, FS_EmptySet, Sizes DEF Stage
    <2>. QED BY <2>1, <2>2 DEF Service!Init
  <1>2. TurnInv /\ TurnInv' /\ [Next]_vars => [Service!Next]_(Service!vars)
    BY ServiceStep
  <1>. QED BY <1>1, <1>2, AlwaysTurn, PTL DEF Spec, ImplementsRequestReply, Service!Spec
================================================================================
