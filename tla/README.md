# A TLA+ model of libnetxcq

libnetxcq is a small C++ network library: an epoll based TCP server that decodes
protobuf packets, executes them and answers, and a UDP server over a thread pool.
This directory models both, checks them with TLC and proves their safety, from the ring
buffers up to the service a client gets, with TLAPS. Line numbers are those of `src/`.

## 1. The system

| Component | State | Operations | Talks to |
|---|---|---|---|
| Input ring buffer, `socket/socket_input.*` | `buffer_`, `buffer_len_`, `head_`, `tail_` | `feed` (recv into the ring, growing it), `fetch`, `skip`, `resize`, `init`, `length` | kernel socket; called by the connector |
| Output ring buffer, `socket/socket_output.*` | the same four members | `write`, `refresh` (send from the ring), `resize`, `length` | kernel socket; called by the connector |
| Connector, `connector/connector.*`, `packet/packet_factory.*`, `user/*` | the two buffers | `exec_read`, `exec_parse`, `exec_write`, `send_packet`, `create_packet`, `User::exec_packet` | both buffers; called by a connector thread |
| Connector threads, `connector/connector_thread.*`, `connector_manager.*` | one epoll, one `connectors_` map and one `mutex_` for each thread | `main_loop`, `accept_connector`, `exec_read/parse/write`, `delete_connector`, `hash_index` | the listen thread (which inserts), the kernel's descriptor table |
| TCP listen service, `listen/tcp_listen_service.*` | listening socket, stop flag | `init_socket`, `main_loop`, `accept_connection`, destructor | connector manager |
| UDP listen service, `listen/udp_listen_service.*` | epoll, socket, thread pool | receive a datagram, push it to the pool, answer it | thread pool |
| Thread pool, `common/thread/thread_pool.h` | task queue, workers, stop flag | `push`, worker loop, destructor | UDP service |
| Thread base class and start-up, `common/thread/thread.*`, `main_module.*`, `listen/listen_service.*` | running flag, the `std::thread` | `init`, `stop`, `start`, destructors | all services |
| Log, `log/*` | the stream, whether it is open, a mutex | `init`, `write` (which opens the file if nobody did), destructor | everyone; the descriptor table |
| Configuration, generated packets, tcmalloc, example client and server | gflags read once; third-party code; a menu | | |

What is hard in it:

* **The kernel runs concurrently with `feed`.** Bytes may arrive between its first
  `recv`, its `FIONREAD` and its second `recv`; lengths computed before are stale after.
* **Ring arithmetic**: wrap, growth of a wrapped ring, the one free slot that tells
  full from empty, the maximum, and `0 < head_ < tail_` in the output buffer.
* **Two threads share the map and the descriptor table.** A descriptor is watched by
  epoll before its connector is in the map; a closed descriptor is given out again
  before its entry is erased; one event is handled with two separate look-ups.
* **TCP is a stream.** A packet may come in pieces or together with others.
* **Clients** may close or reset at any point, stop reading, or come back.
* **Start and stop** of threads, descriptors and the pool race with their use.

`PROJECT.json` lists each such place under `hazards`, with the line where it bites.

What makes each component correct: the rings are FIFO queues that never leave their
allocation; the map agrees with the descriptor table and a connector in use outside
the lock stays in it; a live connection is never dropped; packets are executed whole,
once and in order; requests are answered and descriptors come back; a client that comes
while the service starts is served; the log keeps its file; exit returns.

## 2. Modules

```
ByteQueue               abstract FIFO of stream bytes
  ^ implemented by
SocketInput, SocketOutput             the two ring buffers
  ^ INSTANCEd by
Connector               one connection: both rings, framing, dispatch, event loop
ConnectorThread         the threads, the map and the descriptor table
  ^ both implement
RequestReply            abstract service of requests

Log <- TCPService       start and end of the TCP server, over one descriptor table
UDPService              listen thread, thread pool, start and destruction
MC<module>              constants for TLC
```

The proofs are in modules of their own that extend what they are about:
`SocketInputProofs` and `SocketOutputProofs` (over `StreamBytes`, lemmas about blocks of
consecutive bytes that both need), `ConnectorThreadProofs`, `RequestReplyProofs` (which
extends the latter), `TCPServiceProofs`, `UDPServiceProofs`, and `ConnectorProofs`, which
INSTANCEs the proofs of the two rings as `Connector` INSTANCEs the rings.

**SocketInput** names a byte by its position in the peer's stream, so that "the right
byte in the right slot" is an equation between numbers. The variables `buffer`,
`buffer_len`, `head`, `tail` are the class members. `feed` is up to three steps, cut at
its system calls: `FeedFront`, `FeedFull`, `FeedBack`, `FeedGap` are the first `recv` of
its branches (`head_ == 0`, `head_ > 0`, `head_ > tail_`); `ProbeNone`, `ProbeWrap`,
`ProbeOverflow`, `ProbeGrow` are `FIONREAD` with what follows it (return, the wrapped
remainder, `init`, `resize`); `FeedRest` is the second `recv`. `Arrive` and `PeerClose`
are the kernel. `LateArrival` says whether bytes may arrive between `FIONREAD` and the
second `recv` of the `head_ == 0` branch; in all the other places they always may.

**SocketOutput** is `write` (one step, with its `resize` and both copies) and `refresh`,
one step for each `send`: `Refresh`, `SendSome`, `SendFails`. `SendFails` includes what
the caller does about a failure, `delete_connector`, because the memory safety of
`write` rests on it. `init` of this class is never called and is left out.

**ConnectorThread** has a step for each system call or critical section of the listen
thread (`AcceptConnection`, `AddToEpoll`, `InsertConnector`) and of a connector thread
(`EpollWait`, `TakeEvent`, `ReadLookup`, `ExecRead`, `DeleteClose`, `DeleteErase`,
`ParseLookup`, `ExecParse`, `WriteLookup`, `ExecWrite`). `owner` is the process's
descriptor table; `accept` gives the lowest free descriptor. The critical section of
`delete_connector` is two steps with `mutex` held between them, because `close` frees
the descriptor to others while the entry is still there; every other critical section
is one step that waits for the mutex. The maps of the threads have disjoint keys, so
one function stands for all. A request is a whole packet here: `"sent"`, `"fed"` (in
the input buffer), `"reply"` (in the output buffer). `delete_connector` closes a
descriptor twice, itself and through `~Socket` when the entry is erased; `FdAfterClose`
is what the first close leaves in the object (`-1`), and so what the second is given.

**Connector** is one connection with its bytes: the client sends packets (`SendPacket`),
TCP delivers them in pieces (`Arrive`) or whole, and the event loop runs `feed` step by
step (`ExecRead`), decodes (`ParseHeader`, `ParseContent`), executes, and sends
(`ExecWrite`). Every step on a buffer is the step of its module, through INSTANCE. A
header is decoded by looking up its place in the stream; one read anywhere else decodes
to any of `StraySizes`, with any id. Undefined outcomes (a negative `memcpy` length, a
null packet) are `Crash`, and so is `SIGPIPE`: a `send` on a connection that the peer has
closed and then reset (`BrokenPipe`) is answered with `EPIPE` and the signal, which nobody
ignores or asks not to get. A reset alone is answered with `ECONNRESET`, an ordinary failure
of `send`. `PeerClose` and `PeerReset` may come at any step, the reset after the close too.
The protobuf bytes of a content are abstract.

**UDPService** is the other server: the listen thread (`EpollWait`, `ExecRead`, `Push`),
the workers of the pool (`WorkerCheck`, `WorkerPop`, `WorkerExec`) and the main thread,
which starts both (`StartListen`, `CreatePool`, in this order) and may stop and destroy
the service (`Stop`, `Destroy`, `PoolStop`, `PoolJoin`, `Terminate`). A task is named by
its datagram. The network loses and reorders datagrams; a duplicate is another datagram.
`InitSocket` and `InitFails` are the start's system calls and their failures.
`Terminate` is what C++ does with a joinable `std::thread` that is destroyed.

**RequestReply** is what the TCP server promises its clients: the requests of a
connection are received, executed and answered one after the other, each once, and a
connection is dropped only after its client has left it. `ConnectorThread` implements it
for whole packets over many connections, with the threads, the map and the reuse of
descriptors in the way; `Connector` for the packets of one connection, with the bytes and
the two rings in the way.

**Log** has no variables: a log and a descriptor table are values, and `LogInit` and
`LogWrite` give the set of their outcomes, because every step of a thread may write a
line, and the first line opens a file in the midst of that step's own descriptors.
A second `open` on an open `std::ofstream` sets its failbit, which silences it.

**TCPService** is the life of the TCP server. The main thread runs `main_module_run`
(`InitLog`, `CreateSocket`, `Bind`, `CreateEpoll`, `AddListenFd`, `InitFails`,
`DestroyFailed`, `RunLogic`, `Up`). The `ConnectorManager` singleton is built by
the first thread to ask for it, main or listen (`ConstructManager`, `BuildThread`,
`BuildEpoll`, `FinishManager`); `BuildThread` starts a thread whose `epoll_fd_` is still
indeterminate, and `ThreadWait` uses whatever is in it. The listen thread accepts
and dispatches (`AcceptConnection`, `GetManager`, `AddToEpoll`, `InsertConnector`). The
end is `Stop`, `DestroyService` and `Terminate`, or `Exit` with the static destructors
(`DestroyThread`, `JoinThread`, `Unload`), in which a connector's epoll and map go before
its thread is joined; each socket in the map writes a line before it is closed, so that
the log's file may be opened among these closes. Descriptors are numbers in one table, so that a number closed twice
closes whatever has it by then.

**ByteQueue** is what both rings promise: bytes of a stream go in at one end in order
and come out at the other.

## 3. Runs

| Run | Question | Bounds |
|---|---|---|
| `socket_input` | Is the input ring a FIFO of the received bytes, does each second `recv` fit, is growth bounded, does `feed` meet the state it assumes between its system calls? | 4-byte buffer, maximum 9, 9 bytes of stream |
| `socket_input_late` | Does the second `recv` stay inside when bytes arrive late? No. | the real 16 bytes |
| `socket_output` | Do writes stay inside, and is the output ring a FIFO? | 4-byte buffer, 3 bytes of kernel room, 10 bytes |
| `connector_threads` | Map against descriptor table, use outside the lock, no live connection dropped, a fed packet found; implements `RequestReply` | 2 threads, 2 descriptors, 3 connections, symmetric |
| `connector_threads_live` | Every request answered, every descriptor freed | 1 thread, 2 descriptors, 2 connections of 2 requests |
| `parse_before_insert` | Does one event act on one connection? No. | 1 thread, 1 descriptor, 2 connections |
| `connector` | Packets executed whole, once, in order; no end of the process but by `SIGPIPE`; each ping of a client that stays answered; the output ring of a client that waits for its replies grows at most once; implements `RequestReply` | 4-byte input buffer, packets of 2, 3, 5, 6 bytes, 14 bytes |
| `connector_stream` | Is a live connection ever taken for a closed one? | packets in pieces and back to back |
| `connector_segments` | Is a packet that arrives in pieces executed as sent? No. | the example client's 23-byte ping |
| `tcp_service` | Through start, failed start, exit and destruction: does the log keep its file, is a connector watched by its own thread's epoll, is a client that comes early served, does the main thread return? | 2 connector threads, 6 descriptors, 1 connection |
| `udp_service` | Each datagram executed once by one worker, each ping answered, the pool's destructor returns | 2 workers; 2 pings, another packet, an empty datagram |
| `udp_start` | Is there a pool when a datagram is pushed? No. | 1 worker, 1 ping |

Why the bounds are enough: the code compares indexes with each other and with
`buffer_len_`, and grows by at least half a new buffer. Four bytes is the smallest
buffer in which that half exceeds one and every branch of `feed` is reached; nine bytes
of stream fill it, wrap it, make it grow while wrapped, overflow it, and refill it. Two
descriptors give one for each of two threads, or two in one map; three connections make
one descriptor be reused while another thread is busy. Two workers can contend for one
task, and two pings for two workers. `tcp_service` has a descriptor for everything that
may be open at once, since running out is `ConnectorThread`'s subject; one connection is
enough for it to come before, during or after the construction of the manager, and two
connections with seven descriptors pass as well (1,024,442 states, four minutes). The proofs of section 4 do not depend on the bounds.

`CHECK_DEADLOCK FALSE` is used where the system may rest: clients need not do anything,
and a deleted connection or an ended process has no step. `socket_input` is checked for
deadlock.

**Fairness.** `ConnectorThread`: weak fairness of the listen thread and of each
connector thread, which the scheduler of the operating system gives; `epoll_wait` has a
100 ms timeout and is called again, and nothing is assumed of clients. `Connector`: weak
fairness of the event loop for the same reason, and of `Network`: TCP delivers what was
sent on a connection that lives, and the client of `PingAnswered` reads its replies (the
example client does). `UDPService`: weak fairness of the listen thread, of each worker
and of the main thread's start and destructor; whether the service is ever stopped is
open. `TCPService`: weak fairness of the main thread's start and of its destructors, of
whoever constructs the manager, of the listen thread and of each connector thread;
nothing is assumed of `Stop`, `Exit` and `DestroyService`, which the application decides,
nor of clients. Safety properties do not use fairness.

## 4. Theorems

Every invariant, action property and refinement that a passing run checks is also proved,
for every value of the constants. All theorems are `Spec => []P` for an invariant and
`Spec => P` for an action property or a refinement.

| Module | Theorems (property) | From |
|---|---|---|
| `SocketInputProofs` | `RingTypes` (`TypeOK`), `RingSafety` (`RingHoldsStream`), `FeedSafety` (`FeedInv`), `RecvSafety` (`RecvFits`), `GrowthSafety` (`GrowthBounded`), `FetchOrder` (`FetchInOrder`), `InputIsQueue` (`ImplementsQueue`) | `SOCKET_INPUT_SIZE >= 4`, the maximum no smaller; `~LateArrival` |
| `SocketOutputProofs` | `OutputTypes` (`TypeOK`), `OutputSafety` (`WriteFits`), `WrapSafety` (`NeverWraps`), `ReplySafety` (`RingHoldsReplies`), `OutputIsQueue` (`ImplementsQueue`) | `SOCKET_OUTPUT_SIZE >= 2`, a kernel buffer of at least one byte |
| `ConnectorThreadProofs` | `ThreadTypes` (`TypeOK`), `MapSafety` (`MapFaithful`), `HolderSafety` (`NoDanglingConnector`) | at least one thread and one descriptor |
| `RequestReplyProofs` | `ParseSafety` (`ParsesWhatWasFed`), `DropSafety` (`NoSpuriousDrop`), `ServerRefines` (`ImplementsRequestReply`) | the same |
| `TCPServiceProofs` | `ServerTypes` (`TypeOK`), `LogSafety` (`LogIntact`), `EpollSafety` (`OwnEpoll`) | at least one thread, finitely many connections, descriptors for all that may be open at once (`EnoughFds`) |
| `UDPServiceProofs` | `ServiceTypes` (`TypeOK`), `DatagramSafety` (`HandledOnce`) | finitely many workers, at least one |
| `ConnectorProofs` | `CloseSafety` (`ReadClosesOnlyDead`) | the rings' assumptions (`BufferAssumption`), packets of at least a header; `~LateArrival` |
| `ConnectorProofs` | `HandlerSafety` (`ExecutedAsSent`), `ProcessSafety` (`CrashesOnlyOnBrokenPipe`), `OutputBound` (`OutputGrowsOnce`), `ConnectorRefines` (`ImplementsRequestReply`) | the same, and `PoliteClient` |

Two hypotheses are more than types, and both are where the code's limits are.
`~LateArrival` excludes bytes that arrive between `FIONREAD` and the second `recv` of
`feed`'s `head_ == 0` branch; `socket_input_late` shows what happens otherwise.
`PoliteClient` is a client that sends its packets whole and reads each reply before it
sends the next packet, whose packets have at most `2 * (SOCKET_INPUT_SIZE - 1)` bytes and
at most half the maximum, and whose reply the kernel takes in one `send`. The 23-byte ping
of the example client is within it (the code's `SOCKET_INPUT_SIZE` is 16). Without the
first part `connector_segments` is a counterexample; the bound on the packets is that of
finding 1 below. The client may close, reset, or close and then reset at any point; what
`ProcessSafety` says is that only the last can end the process, and only when it precedes a
`send` that `refresh` has begun. The run `connector` has
constants within it, on which TLC has checked the inductive invariants too.

*Input ring.* The inductive invariant is `RingInv == TypeOK /\ RingHoldsStream /\ FeedInv
/\ GrowthBounded`. `FeedInv` is the strengthening: what the steps of `feed` leave for
each other (after the first `recv` of a branch the ring is full, or has just wrapped, and
after the probe the bytes still to come have their room). Without it, nothing says that
the second `recv` does not overwrite unread bytes. The refinement follows from it: the
queue is the block of bytes `base .. received - 1`, and each step changes one end of it
(`StreamBytes`).

*Output ring.* `OutputInv == TypeOK /\ NeverWraps /\ RingHoldsReplies`. `NeverWraps` is what
carries it: outside `refresh` either `head_` is 0 or the connection is gone. `write`'s first
copy ignores `head_`, so that is what keeps it inside. The refinement is as for the input.

*Map.* `MapInv == TypeOK /\ LockInv /\ OwnFds /\ EntryInv /\ HeldInv`. `EntryInv` is the
life of a map entry: absent until inserted, then the owner's, stale only between `close`
and `erase` under the mutex. `OwnFds` says that a thread only works on descriptors that
hash to it, so that no other thread deletes what it holds; `HeldInv` carries the
look-up's result to the end of the event.

*Requests.* `ServeInv` adds to `MapInv` where a connection is (`PlaceInv`: waiting for
`accept` once, or with one descriptor) and what the events a thread still holds say
(`EventOK`): their descriptors are open, an `EPOLLIN` is still true when its turn comes, a
connector that was received from holds its packet or is closed. With it a stale event, an
`EAGAIN` and the second `close` of a descriptor are all harmless, and every step is one of
`RequestReply` or a stutter.

*TCP service.* `StartInv == TypeOK /\ FilesInv /\ SocketInv /\ PhaseInv /\ EpollInv /\
ConnInv`. `FilesInv` says that nothing is open on two numbers and that the log's file is in
the table; `SocketInv` and `EpollInv` say which number belongs to what, and that the number
of a failed `init_socket` is still free when the destructor closes it again;
`PhaseInv` orders the start, the construction of the manager and the destructors. What a
line of the log does to the table is one lemma (`LogWriteOK`), cited by every action.

*UDP service.* `ServiceInv` adds to `HandledOnce` that a datagram waits in the socket once,
who holds one between two steps, and the order of start and destruction. `HandledOnce` adds
up cardinalities over the queue and the workers; the lemmas on `push`, `pop` and one worker's
step are about these counts.

*Connection.* `InputInv` is `RingInv` with `ReadInv`: the parser has taken something between
two calls of `feed`, so that its first `recv` has room and a 0 is the end of the stream.
`TurnInv` is the invariant for a `PoliteClient`: the rings' invariants, taken over from their
own proofs (`InputKept`, `OutputKept`); `Ledger`, which relates the packets, those executed
and the bytes of replies written; and `Turn`, the place of the last packet. Either every
packet is executed and at most one reply is unsent (`Answering`), or one packet is on its way
and every reply has been read (`Asks`). `PlanInv` says that the second `recv` of `feed` asks
for all that is left of the packet, which is where the bound on its length is used; `WriteInv`
that `refresh` runs only with a reply to send. `CrashesOnlyOnBrokenPipe` is a part of `Turn`:
once the process has ended the event loop stands still, and a close and a reset are not taken
back.

Only model-checked: liveness (`RequestAnswered`, `DescriptorFreed`, `PingAnswered`,
`DatagramAnswered`, `PoolDestroyed`, `Served`, `MainReturns`), which needs fairness and
ENABLED, both out of the prover's reach; and the four violations of section 5. No module uses
a RECURSIVE operator, since the prover cannot work with them, and no theorem needs induction
over data.

## 5. What the model shows to be wrong

1. `socket_input.cpp:129`: the second `recv` of the `head_ == 0` branch is given
   `free_bytes`, computed before the first, where `remain_bytes` is meant. Bytes that
   arrive after `FIONREAD` are stored past the allocation, and a first packet longer than
   30 bytes is read in part.
2. `connector_thread.cpp:32-33`: `exec_read` and `exec_parse` look the descriptor up
   separately. A connection inserted in between is parsed with nothing read from it (its
   first event, bytes or a close, came before the insertion), whether it is new or has the descriptor of the one that `exec_read` has just deleted.
3. `connector.cpp:51-66`: nothing waits for a whole header or content. A content that
   comes late is executed unread; a header in two pieces is decoded from half its bytes,
   with an unknown id and a null packet for the most part, which ends the process.
4. `udp_listen_service.cpp:69-71`: the listen thread runs before the pool exists, and a
   datagram that is already there is pushed to a null pointer.

Also seen, without a run of their own: the input buffer may pass its maximum by up to
`SOCKET_INPUT_SIZE_HALF - 2` bytes (`GrowthBounded` is the exact bound); the maximum of
the output buffer is never checked (`socket_output.cpp:36`); of packets that arrive
together all but the first wait for more bytes; and destroying a `ListenService` always
ends in `std::terminate`, since nobody joins its thread (`listen_service.cpp:13`); a client
that sends one ping and then closes and aborts ends the whole server with `SIGPIPE` when both
come between `epoll_wait` and `send` (`socket_output.cpp:66` passes no `MSG_NOSIGNAL`), where
`record_errno` has a text for `EPIPE` as if `send` returned it (`connector_thread.cpp:152`; the
run `connector` reaches it, the shortest way takes eleven steps, and `CrashesOnlyOnBrokenPipe`
excepts it and nothing else); a failed `epoll_create` of a connector thread is only logged,
and its connections are accepted and never served (`connector_thread.cpp:18`, excepted in
`OwnEpoll` and `Served`); naming the log's file after the first line was written silences
the log (`log.cpp:30`; `TCPService` names it first, as the example server does); and
during `exit` the listen thread may dispatch to a destroyed connector thread, and a
connector thread may meet its destroyed map (`DispatchLate`, `ThreadStart`,
`ThreadEvents`: the outcome is undefined, and `MainReturns` excepts a crash).

## 6. Not modelled

* **tcmalloc** (`libs/tcmalloc`) is a vendored, unmodified third-party allocator that the
  build links in place of `malloc`; the library's own code does not call into it. It is
  well over 90% of the lines in the repository, so the modelled part is a small share of
  those and most of the library's own 2,260. A model of it would say nothing of this system.
* Generated packets (protobuf's output): `Connector` uses what `ParseFromString` and
  `SerializeToString` promise. Configuration: values read once at the start. The client's
  terminal menu, `print_out`, and `test_recv` and `test` of the UDP service, which are
  never called.
* `EPOLLHUP`/`EPOLLERR` branches of `main_loop`: Linux reports `EPOLLIN` with them for a
  connected TCP socket, and `EPOLLIN` is looked at first.
* Failure of `malloc`/`new`, `listen`, `ioctl` and of `epoll_ctl` on an accepted
  connection: the code looks at none of them. Failure of `fcntl` on an accepted descriptor
  (`tcp_listen_service.cpp:141`, which returns without closing it): `F_SETFL` with
  `O_NONBLOCK` does not fail on a socket that was just accepted. `record_errno` with a value it has no text
  for passes a null format to `snprintf`.
* `hash_index` with 0 threads (`ThreadNumAssumption`), a configuration error.

## 7. Plan

1. *(done)* the two rings and their queue, the connector threads, the connector over both
   rings, the UDP service with its pool, and the theorems above.
2. *(done)* the abstract service `RequestReply` and its two refinements, start and end of
   the TCP service, the log, and the failures of both `init_socket`s.
3. *(done)* the theorems of section 4: every property of a passing run but liveness.
4. Left: weaker hypotheses where the code allows them. `HandlerSafety` and the other theorems
   of `PoliteClient` could allow a kernel that takes a reply in several `send`s, and packets
   up to what `feed` takes in one call once the ring has grown.
