------------------------------- MODULE UDPService ------------------------------
(***************************************************************************)
(* The UDP server: the listen thread reads datagrams                       *)
(* (src/listen/udp_listen_service.cpp, src/socket/udp_socket.cpp) and      *)
(* pushes a task for each to the thread pool                               *)
(* (src/common/thread/thread_pool.h), whose workers execute and answer     *)
(* them; the main thread starts the service (src/main_module.cpp,          *)
(* src/listen/listen_service.cpp) and may stop and destroy it.             *)
(*                                                                         *)
(* A step is one system call, one critical section of the task queue, one  *)
(* read of a stop flag, or one part of a constructor or destructor.  A     *)
(* datagram that the network duplicates is two of Datagrams.               *)
(***************************************************************************)
EXTENDS Integers, Sequences, FiniteSets

CONSTANTS
    Pings,    \* the datagrams that hold a CS_PING packet
    Others,   \* those with any other id, or too short for one
    Empties,  \* those without a byte
    Workers,  \* the threads of the pool
    None      \* no datagram

Datagrams == Pings \cup Others \cup Empties

ASSUME DatagramsAssumption ==
    /\ Pings \cap Others = {} /\ Empties \cap (Pings \cup Others) = {}
    /\ None \notin Datagrams
ASSUME WorkersAssumption == IsFiniteSet(Workers) /\ Workers # {}

VARIABLES
    sent,      \* the datagrams that clients have sent
    inbox,     \* the socket's receive queue
    received,  \* the datagrams recvfrom has handed over
    answered,  \* the datagrams sendto has answered
    mpc,       \* the main thread
    stop,      \* stop_ of the service
    lpc,       \* the listen thread
    packet,    \* its udp_packet
    pool,      \* thread_pool_: null, live or destroyed
    pool_stop, \* stop_ of the pool
    q,         \* q_, the task queue
    wpc, task, \* a worker and the task it has popped
    executed,  \* how often exec_packet has been called for a datagram
    crashed    \* the process is gone

client  == <<sent, inbox>>
service == <<stop, pool, pool_stop>>
listen  == <<lpc, packet>>
workers == <<wpc, task>>
vars    == <<client, received, answered, mpc, service, listen, q, workers,
             executed, crashed>>

\* The socket is bound until the service's destructor closes it.
FdOpen == mpc \in {"run", "pool", "up", "stopped"}
--------------------------------------------------------------------------------
(* Clients and the network. *)

\* A datagram reaches the socket, or is lost.
SendDatagram(d) ==
    /\ d \notin sent
    /\ sent' = sent \cup {d}
    /\ \/ FdOpen /\ inbox' = Append(inbox, d)
       \/ UNCHANGED inbox
    /\ UNCHANGED <<received, answered, mpc, service, listen, q, workers,
                   executed, crashed>>
--------------------------------------------------------------------------------
(* The main thread. *)

Main(from, to) == ~crashed /\ mpc = from /\ mpc' = to

\* init_socket creates and binds the socket and adds it to an epoll.
InitSocket ==
    /\ Main("init", "run")
    /\ UNCHANGED <<client, received, answered, service, listen, q, workers,
                   executed, crashed>>

\* bind or epoll_create fails: init_socket closes the socket and returns false,
\* the destructor closes its number again, and the application returns.
InitFails ==
    /\ Main("init", "gone")
    /\ stop' = TRUE
    /\ UNCHANGED <<client, received, answered, pool, pool_stop, listen, q,
                   workers, executed, crashed>>

\* ListenService::run_logic: the listen thread runs from here on.
StartListen ==
    /\ Main("run", "pool")
    /\ lpc' = "loop"
    /\ UNCHANGED <<client, received, answered, service, packet, q, workers,
                   executed, crashed>>

\* UDPListenService::run_logic goes on to create the pool and its workers.
CreatePool ==
    /\ Main("pool", "up")
    /\ pool' = "live"
    /\ wpc' = [w \in Workers |-> "loop"]
    /\ UNCHANGED <<client, received, answered, stop, pool_stop, listen, q, task,
                   executed, crashed>>

Stop ==
    /\ Main("up", "stopped")
    /\ stop' = TRUE
    /\ UNCHANGED <<client, received, answered, pool, pool_stop, listen, q,
                   workers, executed, crashed>>

\* ~UDPListenService: it closes listen_fd_ before it destroys its members.
Destroy ==
    /\ Main("stopped", "closed")
    /\ inbox' = <<>>
    /\ UNCHANGED <<sent, received, answered, service, listen, q, workers,
                   executed, crashed>>

\* Mutant of PoolStop: the flag is not set.
PoolStopForgotten ==
    /\ Main("closed", "join")
    /\ UNCHANGED <<client, received, answered, service, listen, q, workers,
                   executed, crashed>>

\* ~ThreadPool tells the workers to stop,
PoolStop ==
    /\ Main("closed", "join")
    /\ pool_stop' = TRUE
    /\ UNCHANGED <<client, received, answered, stop, pool, listen, q, workers,
                   executed, crashed>>

\* joins them, and drops the tasks still queued.
PoolJoin ==
    /\ Main("join", "destroyed")
    /\ \A w \in Workers : wpc[w] = "ended"
    /\ pool' = "destroyed" /\ q' = <<>>
    /\ UNCHANGED <<client, received, answered, stop, pool_stop, listen, workers,
                   executed, crashed>>

\* socket_ closes the descriptor's number again, to no effect here.  Then
\* ~ListenService destroys the std::thread of main_loop, which nobody has joined
\* or detached: std::terminate, whether main_loop has returned or not.
Terminate ==
    /\ Main("destroyed", "gone")
    /\ crashed' = TRUE
    /\ UNCHANGED <<client, received, answered, service, listen, q, workers,
                   executed>>
--------------------------------------------------------------------------------
(* The listen thread. *)

\* The event loop; epoll_wait with nothing to report returns after 100 ms.
EpollWait ==
    /\ ~crashed /\ lpc = "loop"
    /\ \/ stop /\ lpc' = "ended"
       \/ ~stop /\ inbox # <<>> /\ lpc' = "read"
    /\ UNCHANGED <<client, received, answered, mpc, service, packet, q, workers,
                   executed, crashed>>

\* Mutant of ExecRead: a datagram of no bytes is passed on as well.
ExecReadEmpty ==
    /\ ~crashed /\ lpc = "read"
    /\ IF inbox = <<>>
       THEN lpc' = "loop" /\ UNCHANGED <<inbox, received, packet>>
       ELSE /\ inbox' = Tail(inbox)
            /\ received' = received \cup {Head(inbox)}
            /\ lpc' = "push" /\ packet' = Head(inbox)
    /\ UNCHANGED <<sent, answered, mpc, service, q, workers, executed, crashed>>

\* UDPSocket::exec_read: one datagram, whole.  An empty one is taken for a
\* failure, and so is a descriptor that has been closed.
ExecRead ==
    /\ ~crashed /\ lpc = "read"
    /\ IF inbox = <<>>
       THEN lpc' = "loop" /\ UNCHANGED <<inbox, received, packet>>
       ELSE LET d == Head(inbox)
            IN  /\ inbox' = Tail(inbox)
                /\ received' = received \cup {d}
                /\ IF d \in Empties
                   THEN lpc' = "loop" /\ UNCHANGED packet
                   ELSE lpc' = "push" /\ packet' = d
    /\ UNCHANGED <<sent, answered, mpc, service, q, workers, executed, crashed>>

\* thread_pool_->push, on whatever thread_pool_ is.  A null one ends the process;
\* one that has been destroyed may do so, or the task goes to freed memory.
Push ==
    /\ ~crashed /\ lpc = "push"
    /\ \/ pool = "live" /\ q' = Append(q, packet) /\ UNCHANGED crashed
       \/ pool # "live" /\ crashed' = TRUE /\ UNCHANGED q
       \/ pool = "destroyed" /\ UNCHANGED <<q, crashed>>
    /\ lpc' = "loop" /\ packet' = None
    /\ UNCHANGED <<client, received, answered, mpc, service, workers, executed>>
--------------------------------------------------------------------------------
(* The workers of the pool. *)

At(w, pc) == ~crashed /\ wpc[w] = pc

WorkerCheck(w) ==
    /\ At(w, "loop")
    /\ wpc' = [wpc EXCEPT ![w] = IF pool_stop THEN "ended" ELSE "pop"]
    /\ UNCHANGED <<client, received, answered, mpc, service, listen, q, task,
                   executed, crashed>>

\* Mutant of WorkerPop: front() and pop() are not one critical section, and
\* pop() comes after the task.
WorkerPopPeek(w) ==
    /\ At(w, "pop")
    /\ IF q = <<>>
       THEN wpc' = [wpc EXCEPT ![w] = "loop"] /\ UNCHANGED task
       ELSE /\ task' = [task EXCEPT ![w] = Head(q)]
            /\ wpc' = [wpc EXCEPT ![w] = "exec"]
    /\ UNCHANGED <<client, received, answered, mpc, service, listen, q, executed,
                   crashed>>

\* Mutant of WorkerPop: a worker leaves when it finds no task.
WorkerPopLeaves(w) ==
    /\ At(w, "pop")
    /\ IF q = <<>>
       THEN wpc' = [wpc EXCEPT ![w] = "ended"] /\ UNCHANGED <<q, task>>
       ELSE /\ task' = [task EXCEPT ![w] = Head(q)]
            /\ q' = Tail(q)
            /\ wpc' = [wpc EXCEPT ![w] = "exec"]
    /\ UNCHANGED <<client, received, answered, mpc, service, listen, executed,
                   crashed>>

\* Queue::pop; with no task the worker yields and looks again.
WorkerPop(w) ==
    /\ At(w, "pop")
    /\ IF q = <<>>
       THEN wpc' = [wpc EXCEPT ![w] = "loop"] /\ UNCHANGED <<q, task>>
       ELSE /\ task' = [task EXCEPT ![w] = Head(q)]
            /\ q' = Tail(q)
            /\ wpc' = [wpc EXCEPT ![w] = "exec"]
    /\ UNCHANGED <<client, received, answered, mpc, service, listen, executed,
                   crashed>>

\* exec_packet answers a CS_PING; sendto on the closed descriptor fails unseen.
WorkerExec(w) ==
    LET d == task[w]
    IN  /\ At(w, "exec")
        /\ executed' = [executed EXCEPT ![d] = @ + 1]
        /\ answered' = IF d \in Pings /\ FdOpen THEN answered \cup {d} ELSE answered
        /\ task' = [task EXCEPT ![w] = None]
        /\ wpc' = [wpc EXCEPT ![w] = "loop"]
        /\ UNCHANGED <<client, received, mpc, service, listen, q, crashed>>
--------------------------------------------------------------------------------
Init ==
    /\ sent = {} /\ inbox = <<>> /\ received = {} /\ answered = {}
    /\ mpc = "init" /\ stop = FALSE
    /\ lpc = "none" /\ packet = None
    /\ pool = "null" /\ pool_stop = FALSE /\ q = <<>>
    /\ wpc = [w \in Workers |-> "none"]
    /\ task = [w \in Workers |-> None]
    /\ executed = [d \in Datagrams |-> 0]
    /\ crashed = FALSE

StartAndDestroy ==
    \/ InitSocket \/ InitFails \/ StartListen \/ CreatePool
    \/ Destroy \/ PoolStop \/ PoolJoin \/ Terminate

ListenThread == EpollWait \/ ExecRead \/ Push

Worker(w) == WorkerCheck(w) \/ WorkerPop(w) \/ WorkerExec(w)

Next ==
    \/ \E d \in Datagrams : SendDatagram(d)
    \/ StartAndDestroy \/ Stop
    \/ ListenThread
    \/ \E w \in Workers : Worker(w)

\* Every thread is scheduled again and again.  The user of the library need not
\* stop the service, and clients owe nothing.
Fairness ==
    /\ WF_vars(StartAndDestroy) /\ WF_vars(ListenThread)
    /\ \A w \in Workers : WF_vars(Worker(w))

Spec == Init /\ [][Next]_vars /\ Fairness
--------------------------------------------------------------------------------
(* Properties. *)

\* The service's state keeps its types.
TypeOK ==
    /\ sent \subseteq Datagrams /\ received \subseteq Datagrams
    /\ answered \subseteq Pings
    /\ inbox \in Seq(Datagrams) /\ q \in Seq(Datagrams \ Empties)
    /\ mpc \in {"init", "run", "pool", "up", "stopped", "closed", "join",
                "destroyed", "gone"}
    /\ lpc \in {"none", "loop", "read", "push", "ended"}
    /\ packet \in (Datagrams \ Empties) \cup {None}
    /\ pool \in {"null", "live", "destroyed"}
    /\ wpc \in [Workers -> {"none", "loop", "pop", "exec", "ended"}]
    /\ task \in [Workers -> (Datagrams \ Empties) \cup {None}]
    /\ executed \in [Datagrams -> Nat]
    /\ stop \in BOOLEAN /\ pool_stop \in BOOLEAN /\ crashed \in BOOLEAN

\* In how many places d is: in the listen thread's hand, queued, in a worker's
\* hand, or executed.
Places(d) ==
    (IF packet = d THEN 1 ELSE 0)
    + Cardinality({i \in DOMAIN q : q[i] = d})
    + Cardinality({w \in Workers : task[w] = d})
    + executed[d]

\* While the pool lives a datagram that was received is in exactly one place,
\* from the listen thread through the queue to one worker: no task is lost,
\* pushed twice, popped by two workers or executed twice, with any number of
\* workers and until the pool's destructor has returned.
HandledOnce ==
    ~crashed /\ pool # "destroyed" =>
        \A d \in Datagrams :
            Places(d) = IF d \in received \ Empties THEN 1 ELSE 0

\* Every CS_PING that was received is answered, unless the service is stopped
\* or the process has ended.
DatagramAnswered ==
    \A d \in Pings : d \in received ~> d \in answered \/ stop \/ crashed

\* ~ThreadPool returns: every worker leaves its loop, although tasks may be
\* queued and more may be pushed while it joins.
PoolDestroyed == mpc = "closed" ~> pool = "destroyed" \/ crashed

\* A datagram the listen thread has read is "distributed in thread pool"
\* (udp_listen_service.cpp:86): there is a pool to push it to.
PushFindsPool == lpc = "push" => pool = "live"
================================================================================
