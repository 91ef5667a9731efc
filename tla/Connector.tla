-------------------------------- MODULE Connector ------------------------------
(***************************************************************************)
(* One connection of the TCP server: the turn of the event loop that       *)
(* serves it (exec_read, exec_parse, exec_write of                         *)
(* src/connector/connector_thread.cpp), the packet framing of              *)
(* src/connector/connector.cpp, the packet factory and the user's handler, *)
(* over the two ring buffers: SocketInput below, SocketOutput above.       *)
(* Every step on a buffer is a step of its module.                         *)
(*                                                                         *)
(* A client's packet is a record: where it starts in the stream, its       *)
(* length (header and content), and its id.  Bytes are named by their      *)
(* place in the stream, so a header is decoded by looking its place up; a  *)
(* header read anywhere else is content and can decode to anything.        *)
(***************************************************************************)
EXTENDS Integers, Sequences, FiniteSets

CONSTANTS
    SOCKET_INPUT_SIZE, SOCKET_INPUT_MAXSIZE, StreamLen, LateArrival,
    SOCKET_OUTPUT_SIZE, SendBuffer, OutputLen,
    PACKET_HEADER_SIZE,
    PacketSizes,  \* the lengths of the client's packets
    ReplySize,    \* the length of an SC_RET_PING packet
    StraySizes,   \* bound: the lengths a header read out of place decodes to
    Segmented,    \* may a packet arrive in pieces?
    Pipelined     \* may the client send before it has read the last reply?

ASSUME BufferAssumption ==
    /\ SOCKET_INPUT_SIZE \in Nat /\ SOCKET_INPUT_SIZE >= 4
    /\ SOCKET_INPUT_MAXSIZE \in Nat /\ SOCKET_INPUT_MAXSIZE >= SOCKET_INPUT_SIZE
    /\ StreamLen \in Nat /\ LateArrival \in BOOLEAN
    /\ SOCKET_OUTPUT_SIZE \in Nat /\ SOCKET_OUTPUT_SIZE >= 2
    /\ SendBuffer \in Nat \ {0} /\ OutputLen \in Nat
ASSUME FramingAssumption ==
    /\ PACKET_HEADER_SIZE \in Nat \ {0}
    /\ PacketSizes \subseteq Nat
    /\ \A n \in PacketSizes : n >= PACKET_HEADER_SIZE
    /\ ReplySize \in Nat \ {0}
    /\ OutputLen >= ReplySize * (StreamLen \div PACKET_HEADER_SIZE)
    /\ StraySizes \subseteq Nat
    /\ Segmented \in BOOLEAN /\ Pipelined \in BOOLEAN

VARIABLES
    buffer, buffer_len, head, tail, arrived, received, fin, ipc, want, filled,
    ret, base, got,                                     \* SocketInput
    obuffer, obuffer_len, ohead, otail, written, sent, acked, reset, opc,
    deleted, block,                                     \* SocketOutput
    packets,   \* the packets the client has sent
    cpc,       \* how far the event loop has come
    header,    \* the header exec_parse has decoded
    executed,  \* the packets given to the user's handler
    crashed    \* the process is gone

input  == <<buffer, buffer_len, head, tail, arrived, received, fin, ipc, want,
            filled, ret, base, got>>
output == <<obuffer, obuffer_len, ohead, otail, written, sent, acked, reset,
            opc, deleted, block>>
vars   == <<input, output, packets, cpc, header, executed, crashed>>

In == INSTANCE SocketInput WITH pc <- ipc, out <- got

Out == INSTANCE SocketOutput WITH
    buffer <- obuffer, buffer_len <- obuffer_len, head <- ohead, tail <- otail,
    pc <- opc
--------------------------------------------------------------------------------
(* The client and the network. *)

Ids == {"CS_PING", "SC_RET_PING", "unknown"}

\* The bytes the client has sent.
Streamed ==
    IF packets = {} THEN 0
    ELSE LET p == CHOOSE p \in packets : \A q \in packets : q.at <= p.at
         IN  p.at + p.size

\* Unless pipelined, the client reads the reply of a CS_PING before the next.
SendPacket(size) ==
    /\ ~fin /\ ~reset
    /\ Streamed + size <= StreamLen
    /\ Pipelined \/ acked = ReplySize * Cardinality(packets)
    /\ packets' = packets \cup {[at |-> Streamed, size |-> size, id |-> "CS_PING"]}
    /\ UNCHANGED <<input, output, cpc, header, executed, crashed>>

\* TCP delivers bytes, not packets.
Arrive(n) ==
    /\ arrived + n <= Streamed
    /\ ~Segmented => arrived + n = Streamed
    /\ In!Arrive(n)
    /\ UNCHANGED <<output, packets, cpc, header, executed, crashed>>

PeerClose ==
    /\ ~reset
    /\ In!PeerClose
    /\ UNCHANGED <<output, packets, cpc, header, executed, crashed>>

\* The client aborts the connection, or its kernel resets it; it may have closed
\* its side before.
PeerReset ==
    /\ Out!Reset
    /\ UNCHANGED <<input, packets, cpc, header, executed, crashed>>

\* The client reads n bytes of the replies.
ReadReply(n) ==
    /\ Out!Ack(n)
    /\ UNCHANGED <<input, packets, cpc, header, executed, crashed>>
--------------------------------------------------------------------------------
(* The event loop. *)

Alive == ~crashed /\ ~deleted

Readable == In!Avail > 0 \/ fin \/ reset

\* Mutant of Writable: EPOLLOUT is not asked for.
WritableNever == FALSE

Writable == Out!Room > 0

\* epoll_wait reports EPOLLIN | EPOLLOUT, and EPOLLIN is looked at first.  A
\* refresh with nothing to send changes nothing and is left out.
EpollWait ==
    /\ Alive /\ cpc = "wait"
    /\ \/ Readable /\ cpc' = "read"
       \/ ~Readable /\ Writable /\ otail # ohead /\ cpc' = "write"
    /\ UNCHANGED <<input, output, packets, header, executed, crashed>>

\* Mutant of ReadFails: the end of the stream is not handled.
ReadFailsOnError == ret' = -1

\* Mutant of ReadFails: recv is called again until it fails, as for an
\* edge-triggered epoll, and its EAGAIN counts.
ReadFailsDrained == ret' \in {0, -1} \/ received' = arrived

\* exec_read deletes the connector when feed returns 0 or -1, and no other value.
ReadFails == ret' \in {0, -1}

\* exec_read: a step of feed.  When feed returns, exec_parse follows, which does
\* nothing when the connector was deleted.
ExecRead ==
    /\ Alive /\ cpc = "read"
    /\ In!Feed
    /\ IF ipc' # "idle" THEN UNCHANGED <<cpc, deleted>>
       ELSE /\ cpc' = (IF ReadFails THEN "wait" ELSE "parse")
            /\ deleted' = ReadFails
    /\ UNCHANGED <<obuffer, obuffer_len, ohead, otail, written, sent, acked, reset,
                   opc, block, packets, header, executed, crashed>>

\* What the bytes of the header at place p of the stream decode to.
Decoded(p) ==
    IF \E f \in packets : f.at = p
    THEN {f \in packets : f.at = p}
    ELSE [at : {-1}, size : StraySizes, id : Ids]

\* Mutant of ParseHeader: the packet is left until all of it has arrived.
ParseHeaderWaits ==
    /\ Alive /\ cpc = "parse"
    /\ In!Length >= PACKET_HEADER_SIZE
    /\ \E h \in Decoded(base) :
        IF h.size > In!Length
        THEN cpc' = "wait" /\ UNCHANGED <<input, header>>
        ELSE In!Fetch(PACKET_HEADER_SIZE) /\ header' = h /\ cpc' = "content"
    /\ UNCHANGED <<output, packets, executed, crashed>>

\* exec_parse fetches and decodes a header.
ParseHeader ==
    /\ Alive /\ cpc = "parse"
    /\ In!Length >= PACKET_HEADER_SIZE
    /\ In!Fetch(PACKET_HEADER_SIZE)
    /\ header' \in Decoded(base)
    /\ cpc' = "content"
    /\ UNCHANGED <<output, packets, executed, crashed>>

\* Mutant of ContentSize: the header's field as connector.cpp:10 describes it.
ContentSizeAsField(h) == h.size

\* content_size, which is unsigned and becomes fetch's int argument.
ContentSize(h) == h.size - PACKET_HEADER_SIZE

\* Does fetch_content copy anything?
Fetches(n) == n > 0 /\ n <= In!Length

\* What the handler is given: the packet, or a buffer nobody has filled.
Given(h, n) == IF h.at >= 0 /\ (n = 0 \/ Fetches(n)) THEN h
               ELSE [at |-> -1, size |-> h.size, id |-> h.id]

\* The ids PacketFactory::create_packet has an entry for.
Known(id) == id \in {"CS_PING", "SC_RET_PING"}

\* send_packet frames the reply and writes it to the output buffer.
SendReply == Out!Write(ReplySize)

\* User::exec_packet answers a CS_PING and ignores the rest.
Handle(id) == IF id = "CS_PING" THEN SendReply ELSE UNCHANGED output

\* exec_parse fetches the content, creates the packet and executes it.
ParseContent ==
    LET n == ContentSize(header)
    IN  /\ Alive /\ cpc = "content"
        /\ n >= 0 /\ Known(header.id)
        /\ IF Fetches(n) THEN In!Fetch(n) ELSE UNCHANGED input
        /\ executed' = Append(executed, Given(header, n))
        /\ Handle(header.id)
        /\ cpc' = "wait"
        /\ UNCHANGED <<packets, header, crashed>>

\* The next send is answered with EPIPE rather than ECONNRESET.
BrokenPipe == cpc = "write" /\ opc = "send" /\ fin /\ reset

\* exec_parse without a header in the buffer decodes zeros, and the content's
\* length wraps: fetch copies more than there is.  An unknown id makes the
\* factory return a null packet, which is dereferenced.  And send raises SIGPIPE,
\* which nobody handles, on a connection that was closed and then reset.
Crash ==
    /\ Alive
    /\ \/ cpc = "parse" /\ In!Length < PACKET_HEADER_SIZE
       \/ cpc = "content" /\ ContentSize(header) < 0
       \/ cpc = "content" /\ ~Known(header.id)
       \/ BrokenPipe
    /\ crashed' = TRUE
    /\ UNCHANGED <<input, output, packets, cpc, header, executed>>

\* exec_write: refresh, and delete_connector when it fails.
ExecWrite ==
    /\ Alive /\ cpc = "write" /\ ~BrokenPipe
    /\ Out!Refresh \/ Out!SendSome \/ Out!SendFails
    /\ cpc' = (IF opc' = "idle" THEN "wait" ELSE "write")
    /\ UNCHANGED <<input, packets, header, executed, crashed>>

Init ==
    /\ In!Init /\ Out!Init
    /\ packets = {} /\ cpc = "wait" /\ executed = <<>> /\ crashed = FALSE
    /\ header = [at |-> -1, size |-> 0, id |-> "unknown"]

Client == \E size \in PacketSizes : SendPacket(size)

Network ==
    \/ \E n \in 1..(StreamLen - arrived) : Arrive(n)
    \/ \E n \in 1..(sent - acked) : ReadReply(n)

EventLoop == EpollWait \/ ExecRead \/ ParseHeader \/ ParseContent \/ Crash \/ ExecWrite

Next == Client \/ Network \/ EventLoop \/ PeerClose \/ PeerReset

\* The connector thread is scheduled again and again, the network delivers what
\* was sent and the client reads its replies; it need not send anything.
Fairness == WF_vars(EventLoop) /\ WF_vars(Network)

Spec == Init /\ [][Next]_vars /\ Fairness
--------------------------------------------------------------------------------
(* Properties. *)

\* The handler is given the client's packets, whole, in order and each once:
\* across any wrap or growth of the input buffer the headers stay aligned.
ExecutedAsSent ==
    \A i \in DOMAIN executed :
        /\ executed[i] \in packets
        /\ executed[i].at = IF i = 1 THEN 0
                            ELSE executed[i - 1].at + executed[i - 1].size

\* A client that sends whole packets of at most 2 * (SOCKET_INPUT_SIZE - 1) bytes
\* and waits for its replies can end the process in one way only: it has closed
\* and then reset the connection when refresh calls send (socket_output.cpp:66),
\* which raises SIGPIPE.  Neither the framing of exec_parse nor a close or a
\* reset alone does, whatever step of the event loop it meets.
CrashesOnlyOnBrokenPipe == crashed => BrokenPipe

\* For a client that waits for its replies the output buffer grows once, to hold
\* one reply, and never again, although nothing compares its length with
\* SOCKET_OUTPUT_MAXSIZE (socket_output.cpp:36).
OutputGrowsOnce ==
    LET half  == SOCKET_OUTPUT_SIZE \div 2
        extra == ReplySize - SOCKET_OUTPUT_SIZE + 2
    IN  obuffer_len \in {SOCKET_OUTPUT_SIZE,
                         SOCKET_OUTPUT_SIZE + (IF extra > half THEN extra ELSE half)}

\* Where the last request is: sent, in the input buffer, or its reply in the
\* output buffer.
Stage ==
    IF sent = ReplySize * Cardinality(packets) THEN "none"
    ELSE IF Len(executed) = Cardinality(packets) THEN "reply"
    ELSE IF received = Streamed THEN "fed"
    ELSE "sent"

Service == INSTANCE RequestReply WITH
    Conns   <- {"this"},
    stage   <- [c \in {"this"} |-> Stage],
    left    <- {c \in {"this"} : fin \/ reset},
    dropped <- {c \in {"this"} : deleted}

\* The event loop over the two ring buffers serves the connection as promised: a
\* request is received whole before it is executed and executed once before its
\* reply is sent, however often feed and refresh are cut into partial recvs and
\* sends; and neither exec_read nor exec_write, which takes every failure of send
\* for the end, EAGAIN included (connector_thread.cpp:128), drops a client that
\* waits for its replies and has not left.
ImplementsRequestReply == Service!Spec

\* The connection is given up in exec_read only when the client has closed or
\* reset it and every byte it sent has been received: a 0 from feed means the
\* end of the stream, never a recv with no room (socket_input.cpp:232).
ReadClosesOnlyDead ==
    [][cpc = "read" /\ ~deleted /\ deleted' => (fin \/ reset) /\ In!Avail = 0]_vars

\* A client that stays gets its reply.
PingAnswered ==
    \A k \in 1..StreamLen :
        Cardinality(packets) = k ~> acked >= k * ReplySize \/ fin \/ reset
================================================================================
