------------------------------- MODULE TCPService ------------------------------
(***************************************************************************)
(* Start and end of the TCP server: main_module_run (src/main_module.cpp)  *)
(* with TCPListenService::init_socket and its failures, the listen thread  *)
(* that run_logic starts, the ConnectorManager singleton, which is built   *)
(* by whichever of the two threads asks for it first, the connector        *)
(* threads it starts (src/connector/connector_manager.cpp,                 *)
(* src/common/thread/thread.cpp), and the destructors that exit() runs.    *)
(*                                                                         *)
(* A step lies between two system calls, or two points at which another    *)
(* thread may be seen.  Every step writes its lines to the log, which may  *)
(* open the log's file.  What a connector thread does with an event is     *)
(* ConnectorThread's: here a connection is served once its own thread is   *)
(* told of it by epoll and finds it in its map.                            *)
(***************************************************************************)
EXTENDS Log, Sequences, FiniteSets

CONSTANTS
    Fds,       \* the descriptors of the process
    Conns,     \* the connections that clients make
    ThreadNum  \* thread_num_

ASSUME FdsAssumption == Fds \subseteq Nat \ {0} /\ IsFiniteSet(Fds)
ASSUME ConnsAssumption == IsFiniteSet(Conns)
ASSUME ThreadNumAssumption == ThreadNum \in Nat \ {0}
\* bound: enough descriptors for the log, the listening socket, every epoll and
\* every connection; ConnectorThread is about a process that runs out of them.
ASSUME EnoughFds == Cardinality(Fds) >= 3 + ThreadNum + Cardinality(Conns)

Threads == 0..(ThreadNum - 1)

VARIABLES
    fds,         \* the descriptor table
    log,         \* the Log singleton
    mpc,         \* the main thread
    listen_fd,   \* listen_fd_ of the service
    stop,        \* its stop_
    backlog,     \* the connections the kernel holds for accept
    lpc, lfd,    \* the listen thread and the connection's descriptor it has
    manager,     \* the ConnectorManager singleton
    built,       \* how many threads its constructor has got ready
    tpc,         \* a connector thread
    epoll_fd,    \* its epoll_fd_
    tstop,       \* its stop_
    waits,       \* the epoll that its epoll_wait is in, if it is one
    destroyed,   \* the threads whose ConnectorThread part is destroyed
    dying,       \* the thread that the manager's destructor has come to
    watch,       \* the connections added to a thread's epoll
    connectors,  \* the maps connectors_, by connection
    served,      \* the connections a thread has handled an event of
    crashed      \* the process is gone

files   == <<fds, log>>
service == <<listen_fd, stop>>
listen  == <<lpc, lfd>>
pool    == <<manager, built>>
loop    == <<tpc, waits>>
ends    == <<tstop, destroyed, dying>>
conns   == <<watch, connectors, served>>
vars    == <<files, mpc, service, backlog, listen, pool, loop, epoll_fd, ends,
             conns, crashed>>

\* No thread: the value of connectors and waits where there is none.
Nobody == -1

Running == ~crashed /\ mpc # "gone"

\* A line is written to the log, and then the descriptors nums are closed.
LogsThenCloses(nums) ==
    \E r \in LogWrite(log, fds) : log' = r.log /\ fds' = Closed(r.fds, nums)

Logs == LogsThenCloses({})
--------------------------------------------------------------------------------
(* The main thread starts the service. *)

Main(from, to) == Running /\ mpc = from /\ mpc' = to

\* The application names the log's file first, as the example server does.
InitLog ==
    /\ Main("log", "create")
    /\ \E r \in LogInit(log, fds) : log' = r.log /\ fds' = r.fds
    /\ UNCHANGED <<service, backlog, listen, pool, loop, epoll_fd, ends, conns,
                   crashed>>

\* There is no service of the configured type.
NoService ==
    /\ Main("create", "unload")
    /\ UNCHANGED <<files, service, backlog, listen, pool, loop, epoll_fd, ends,
                   conns, crashed>>

\* init_socket asks for a socket, and does not look whether it got one.
CreateSocket ==
    /\ Main("create", "bind")
    /\ \E r \in LogWrite(log, fds) :
        /\ log' = r.log
        /\ \/ fds' = r.fds /\ listen_fd' = -1
           \/ fds' = Opened(r.fds, <<"listen">>) /\ listen_fd' = Lowest(r.fds)
    /\ UNCHANGED <<stop, backlog, listen, pool, loop, epoll_fd, ends, conns, crashed>>

\* bind and listen.
Bind ==
    /\ listen_fd # -1
    /\ Main("bind", "epoll")
    /\ UNCHANGED <<files, service, backlog, listen, pool, loop, epoll_fd, ends,
                   conns, crashed>>

CreateEpoll ==
    /\ Main("epoll", "add")
    /\ fds' = Opened(fds, <<"listen epoll">>)
    /\ UNCHANGED <<log, service, backlog, listen, pool, loop, epoll_fd, ends,
                   conns, crashed>>

AddListenFd ==
    /\ Main("add", "run")
    /\ Logs
    /\ UNCHANGED <<service, backlog, listen, pool, loop, epoll_fd, ends, conns,
                   crashed>>

\* Mutant of ReportError: the socket is closed before the line is written.
ReportErrorLate ==
    \E r \in LogWrite(log, Closed(fds, {listen_fd})) : log' = r.log /\ fds' = r.fds

\* The line is written, then the socket is closed; listen_fd_ keeps its number.
ReportError == LogsThenCloses({listen_fd})

\* bind, epoll_create or epoll_ctl fails: init_socket returns false.
InitFails ==
    /\ \E pc \in {"bind", "epoll", "add"} : Main(pc, "failed")
    /\ ReportError
    /\ UNCHANGED <<service, backlog, listen, pool, loop, epoll_fd, ends, conns,
                   crashed>>

\* main_module_run returns nullptr: ~TCPListenService closes listen_fd_ again.
DestroyFailed ==
    /\ Main("failed", "unload")
    /\ stop' = TRUE
    /\ fds' = Closed(fds, {listen_fd})
    /\ UNCHANGED <<log, listen_fd, backlog, listen, pool, loop, epoll_fd, ends,
                   conns, crashed>>

\* run_logic: the listen thread runs from here on.
RunLogic ==
    /\ Main("run", "manager")
    /\ lpc' = "start"
    /\ UNCHANGED <<files, service, backlog, lfd, pool, loop, epoll_fd, ends,
                   conns, crashed>>
--------------------------------------------------------------------------------
(* ConnectorManager::instance. *)

\* Who asks for the manager.
Asking == mpc = "manager" \/ lpc = "instance"

\* The first to ask constructs it.
ConstructManager ==
    /\ Running /\ Asking /\ manager = "none"
    /\ manager' = "building"
    /\ Logs
    /\ UNCHANGED <<mpc, service, backlog, listen, built, loop, epoll_fd, ends,
                   conns, crashed>>

\* What is in a member that nobody has assigned: a number that is or is not a
\* descriptor.  (-1 does what 0 does, which is to make epoll_wait fail.)
Indeterminate == Fds \cup {0}

\* Thread::init starts the thread; epoll_fd_ has no value yet.
BuildThread ==
    /\ Running /\ manager = "building"
    /\ built < ThreadNum /\ tpc[built] = "none"
    /\ tpc' = [tpc EXCEPT ![built] = "start"]
    /\ \E n \in Indeterminate : epoll_fd' = [epoll_fd EXCEPT ![built] = n]
    /\ UNCHANGED <<files, mpc, service, backlog, listen, pool, waits, ends, conns,
                   crashed>>

\* Mutant of NoEpoll: a failure is handed on as an error number.
NoEpollErrno == -24

\* What epoll_create returns when it fails.
NoEpoll == -1

\* ConnectorThread::init goes on to create the epoll; a failure is only logged.
BuildEpoll ==
    /\ Running /\ manager = "building"
    /\ built < ThreadNum /\ tpc[built] # "none"
    /\ \/ /\ epoll_fd' = [epoll_fd EXCEPT ![built] = Lowest(fds)]
          /\ fds' = Opened(fds, <<"epoll", built>>)
          /\ UNCHANGED log
       \/ /\ epoll_fd' = [epoll_fd EXCEPT ![built] = NoEpoll]
          /\ Logs
    /\ built' = built + 1
    /\ UNCHANGED <<mpc, service, backlog, listen, manager, loop, ends, conns, crashed>>

FinishManager ==
    /\ Running /\ manager = "building" /\ built = ThreadNum
    /\ manager' = "ready"
    /\ Logs
    /\ UNCHANGED <<mpc, service, backlog, listen, built, loop, epoll_fd, ends,
                   conns, crashed>>

\* Mutant of Constructed: instance returns while the constructor runs.
ConstructedEarly == manager \in {"building", "ready"}

\* instance returns to a thread that did not construct when it is all done.
Constructed == manager = "ready"

Up ==
    /\ Main("manager", "up")
    /\ Constructed
    /\ UNCHANGED <<files, service, backlog, listen, pool, loop, epoll_fd, ends,
                   conns, crashed>>
--------------------------------------------------------------------------------
(* The listen thread. *)

\* A client connects; the kernel answers for a socket that listens.
Connect(c) ==
    /\ Running /\ mpc \in {"epoll", "add", "run", "manager", "up"}
    /\ \A i \in DOMAIN backlog : backlog[i] # c
    /\ \A fd \in Fds : fds[fd] # <<"conn", c>>
    /\ backlog' = Append(backlog, c)
    /\ UNCHANGED <<files, mpc, service, listen, pool, loop, epoll_fd, ends, conns,
                   crashed>>

ListenStart ==
    /\ Running /\ lpc = "start"
    /\ lpc' = "loop"
    /\ Logs
    /\ UNCHANGED <<mpc, service, backlog, lfd, pool, loop, epoll_fd, ends, conns,
                   crashed>>

ListenEnd ==
    /\ Running /\ lpc = "loop" /\ stop
    /\ lpc' = "ended"
    /\ UNCHANGED <<files, mpc, service, backlog, lfd, pool, loop, epoll_fd, ends,
                   conns, crashed>>

AcceptConnection ==
    LET fd == Lowest(fds)
    IN  /\ Running /\ lpc = "loop" /\ ~stop
        /\ backlog # <<>> /\ fds[listen_fd] = <<"listen">>
        /\ \E r \in LogWrite(log, Opened(fds, <<"conn", Head(backlog)>>)) :
            log' = r.log /\ fds' = r.fds
        /\ lfd' = fd
        /\ backlog' = Tail(backlog)
        /\ lpc' = "instance"
        /\ UNCHANGED <<mpc, service, pool, loop, epoll_fd, ends, conns, crashed>>

GetManager ==
    /\ Running /\ lpc = "instance" /\ Constructed
    /\ lpc' = "add"
    /\ UNCHANGED <<files, mpc, service, backlog, lfd, pool, loop, epoll_fd, ends,
                   conns, crashed>>

hash_index(key, max) == key % max

\* The thread the accepted connection goes to.
Target == hash_index(lfd, ThreadNum)

\* The thread whose epoll the number n is open on.
EpollOf(n) ==
    IF \E t \in Threads : n \in Fds /\ fds[n] = <<"epoll", t>>
    THEN CHOOSE t \in Threads : fds[n] = <<"epoll", t>>
    ELSE Nobody

\* accept_connector adds the descriptor to the thread's epoll, without looking
\* whether epoll_ctl did, and inserts the connector.
AddToEpoll ==
    LET t == EpollOf(epoll_fd[Target])
    IN  /\ Running /\ lpc = "add" /\ Target \notin destroyed
        /\ watch' = IF t = Nobody THEN watch
                    ELSE [watch EXCEPT ![t] = @ \cup {fds[lfd][2]}]
        /\ lpc' = "insert"
        /\ Logs
        /\ UNCHANGED <<mpc, service, backlog, lfd, pool, loop, epoll_fd, ends,
                       connectors, served, crashed>>

InsertConnector ==
    /\ Running /\ lpc = "insert" /\ Target \notin destroyed
    /\ connectors' = [connectors EXCEPT ![fds[lfd][2]] = Target]
    /\ lpc' = "loop"
    /\ Logs
    /\ UNCHANGED <<mpc, service, backlog, lfd, pool, loop, epoll_fd, ends, watch,
                   served, crashed>>

\* The manager's thread has been destroyed by exit: the listen thread works on
\* freed memory, which ends the process or goes unnoticed.
DispatchLate ==
    /\ Running /\ lpc \in {"add", "insert"} /\ Target \in destroyed
    /\ crashed' \in BOOLEAN
    /\ lpc' = "loop"
    /\ UNCHANGED <<files, mpc, service, backlog, lfd, pool, loop, epoll_fd, ends,
                   conns>>
--------------------------------------------------------------------------------
(* A connector thread. *)

At(t, pc) == Running /\ tpc[t] = pc

\* The new thread calls main_loop, a pure virtual function once the
\* ConnectorThread part of the object is destroyed.
ThreadStart(t) ==
    /\ At(t, "start")
    /\ IF t \in destroyed
       THEN crashed' = TRUE /\ UNCHANGED <<tpc, files>>
       ELSE tpc' = [tpc EXCEPT ![t] = "loop"] /\ Logs /\ UNCHANGED crashed
    /\ UNCHANGED <<mpc, service, backlog, listen, pool, waits, epoll_fd, ends, conns>>

ThreadEnd(t) ==
    /\ At(t, "loop") /\ tstop[t]
    /\ tpc' = [tpc EXCEPT ![t] = "ended"]
    /\ UNCHANGED <<files, mpc, service, backlog, listen, pool, waits, epoll_fd,
                   ends, conns, crashed>>

\* epoll_wait on whatever epoll_fd_ holds now.
ThreadWait(t) ==
    /\ At(t, "loop") /\ ~tstop[t]
    /\ tpc' = [tpc EXCEPT ![t] = "wait"]
    /\ waits' = [waits EXCEPT ![t] = EpollOf(epoll_fd[t])]
    /\ UNCHANGED <<files, mpc, service, backlog, listen, pool, epoll_fd, ends,
                   conns, crashed>>

\* The connections that epoll_wait reports to thread t; they stay ready.
Ready(t) == IF waits[t] = Nobody THEN {} ELSE watch[waits[t]]

\* Mutant of ThreadEvents: the loop ends when epoll_wait fails.
ThreadEventsStrict(t) ==
    /\ At(t, "wait")
    /\ tpc' = [tpc EXCEPT ![t] = IF waits[t] = Nobody THEN "ended" ELSE "loop"]
    /\ served' = served \cup {c \in Ready(t) : connectors[c] = t}
    /\ UNCHANGED <<files, mpc, service, backlog, listen, pool, waits, epoll_fd,
                   ends, watch, connectors, crashed>>

\* It returns, with events, without, or with a failure that is not looked at, and the
\* events of connections in the map are handled.  With the map destroyed that is undefined.
ThreadEvents(t) ==
    /\ At(t, "wait")
    /\ tpc' = [tpc EXCEPT ![t] = "loop"]
    /\ served' = served \cup {c \in Ready(t) : connectors[c] = t}
    /\ IF t \in destroyed /\ Ready(t) # {} THEN crashed' \in BOOLEAN
                                           ELSE UNCHANGED crashed
    /\ UNCHANGED <<files, mpc, service, backlog, listen, pool, waits, epoll_fd,
                   ends, watch, connectors>>
--------------------------------------------------------------------------------
(* The end. *)

\* ListenService::stop.
Stop ==
    /\ Main("up", "stopped")
    /\ stop' = TRUE
    /\ UNCHANGED <<files, listen_fd, backlog, listen, pool, loop, epoll_fd, ends,
                   conns, crashed>>

\* The service is destroyed: ~TCPListenService closes the socket, and then
\* ~ListenService destroys a std::thread that nobody has joined or detached.
DestroyService ==
    /\ Main("stopped", "terminate")
    /\ fds' = Closed(fds, {listen_fd})
    /\ UNCHANGED <<log, service, backlog, listen, pool, loop, epoll_fd, ends,
                   conns, crashed>>

Terminate ==
    /\ Main("terminate", "gone")
    /\ crashed' = TRUE
    /\ UNCHANGED <<files, service, backlog, listen, pool, loop, epoll_fd, ends, conns>>

\* Mutant of Exit: the threads are not told to stop.
ExitUntold ==
    /\ \E pc \in {"up", "stopped"} : Main(pc, "destroy")
    /\ UNCHANGED <<files, service, backlog, listen, pool, loop, epoll_fd, ends,
                   conns, crashed>>

\* The application calls exit: ~ConnectorManager tells every thread to stop.
Exit ==
    /\ \E pc \in {"up", "stopped"} : Main(pc, "destroy")
    /\ tstop' = [t \in Threads |-> TRUE]
    /\ UNCHANGED <<files, service, backlog, listen, pool, loop, epoll_fd,
                   destroyed, dying, conns, crashed>>

\* The descriptors of the connections in the map of thread t.
OwnedBy(t) == {fd \in Fds : \E c \in Conns : fds[fd] = <<"conn", c>> /\ connectors[c] = t}

\* ~ConnectorThread closes the epoll and destroys the map and its sockets, each of
\* which writes a line before it closes its descriptor: a line that opens the log's
\* file finds the sockets in gone closed already;
DestroyThread ==
    LET owned == OwnedBy(dying)
    IN  /\ Main("destroy", "join")
        /\ \/ owned = {} /\ fds' = Closed(fds, {epoll_fd[dying]}) /\ UNCHANGED log
           \/ \E gone \in (SUBSET owned) \ {owned} :
              \E r \in LogWrite(log, Closed(fds, {epoll_fd[dying]} \cup gone)) :
                log' = r.log /\ fds' = Closed(r.fds, owned \ gone)
        /\ destroyed' = destroyed \cup {dying}
        /\ UNCHANGED <<service, backlog, listen, pool, loop, epoll_fd, tstop, dying,
                       conns, crashed>>

\* and only then ~Thread waits for the thread.
JoinThread ==
    /\ Main("join", IF dying = ThreadNum - 1 THEN "unload" ELSE "destroy")
    /\ tpc[dying] = "ended"
    /\ dying' = IF dying = ThreadNum - 1 THEN dying ELSE dying + 1
    /\ UNCHANGED <<files, service, backlog, listen, pool, loop, epoll_fd, tstop,
                   destroyed, conns, crashed>>

\* The log is destroyed after the manager, which was constructed later.
Unload ==
    /\ Main("unload", "gone")
    /\ log' = LogClosed(log)
    /\ fds' = Closed(fds, {log.fd})
    /\ UNCHANGED <<service, backlog, listen, pool, loop, epoll_fd, ends, conns,
                   crashed>>
--------------------------------------------------------------------------------
Init ==
    /\ fds = [fd \in Fds |-> FreeFd] /\ log = NewLog
    /\ mpc = "log" /\ listen_fd = -1 /\ stop = FALSE /\ backlog = <<>>
    /\ lpc = "none" /\ lfd = 0
    /\ manager = "none" /\ built = 0
    /\ tpc = [t \in Threads |-> "none"]
    /\ epoll_fd = [t \in Threads |-> 0]
    /\ tstop = [t \in Threads |-> FALSE]
    /\ waits = [t \in Threads |-> Nobody]
    /\ destroyed = {} /\ dying = 0
    /\ watch = [t \in Threads |-> {}]
    /\ connectors = [c \in Conns |-> Nobody]
    /\ served = {} /\ crashed = FALSE

Start ==
    \/ InitLog \/ NoService \/ CreateSocket \/ Bind \/ CreateEpoll \/ AddListenFd
    \/ InitFails \/ DestroyFailed \/ RunLogic \/ Up

Manager == ConstructManager \/ BuildThread \/ BuildEpoll \/ FinishManager

ListenThread ==
    \/ ListenStart \/ ListenEnd \/ AcceptConnection \/ GetManager
    \/ AddToEpoll \/ InsertConnector \/ DispatchLate

MainLoop(t) == ThreadStart(t) \/ ThreadEnd(t) \/ ThreadWait(t) \/ ThreadEvents(t)

End == DestroyThread \/ JoinThread \/ Unload \/ Terminate

Next ==
    \/ \E c \in Conns : Connect(c)
    \/ Start \/ Manager \/ ListenThread \/ End
    \/ \E t \in Threads : MainLoop(t)
    \/ Stop \/ Exit \/ DestroyService

\* Every thread is scheduled again and again, epoll_wait returns after 100 ms at
\* the latest; the application need not stop, destroy or leave anything.
Fairness ==
    /\ WF_vars(Start) /\ WF_vars(Manager) /\ WF_vars(ListenThread) /\ WF_vars(End)
    /\ \A t \in Threads : WF_vars(MainLoop(t))

Spec == Init /\ [][Next]_vars /\ Fairness
--------------------------------------------------------------------------------
(* Properties. *)

Objects ==
    {FreeFd, <<"log">>, <<"listen">>, <<"listen epoll">>} \cup
    {<<"epoll", t>> : t \in Threads} \cup {<<"conn", c>> : c \in Conns}

\* The service's state keeps its types; a member that holds a descriptor holds
\* a number of the table or the -1 that the code tests for.
TypeOK ==
    /\ fds \in [Fds -> Objects]
    /\ log \in [init : BOOLEAN, stream : {"closed", "open", "failed"},
                fd : Fds \cup {-1}]
    /\ mpc \in {"log", "create", "bind", "epoll", "add", "failed", "run", "manager",
                "up", "stopped", "terminate", "destroy", "join", "unload", "gone"}
    /\ listen_fd \in Fds \cup {-1} /\ stop \in BOOLEAN
    /\ backlog \in Seq(Conns)
    /\ lpc \in {"none", "start", "loop", "instance", "add", "insert", "ended"}
    /\ lfd \in Fds \cup {0}
    /\ manager \in {"none", "building", "ready"} /\ built \in 0..ThreadNum
    /\ tpc \in [Threads -> {"none", "start", "loop", "wait", "ended"}]
    /\ epoll_fd \in [Threads -> Fds \cup {0, -1}]
    /\ tstop \in [Threads -> BOOLEAN]
    /\ waits \in [Threads -> Threads \cup {Nobody}]
    /\ destroyed \subseteq Threads /\ dying \in Threads
    /\ watch \in [Threads -> SUBSET Conns]
    /\ connectors \in [Conns -> Threads \cup {Nobody}]
    /\ served \subseteq Conns /\ crashed \in BOOLEAN

\* Once the log has its file, lines go to it until the process ends: it is not
\* opened a second time, which would silence it, and no close of a number that
\* was closed before, as after a failed init_socket, closes it.
LogIntact ==
    log.init /\ mpc # "gone" => log.stream = "open" /\ fds[log.fd] = <<"log">>

\* A connector is in the map of a thread whose epoll watches it, although the
\* thread starts before its epoll_fd_ is assigned and the listen thread before
\* there are threads at all; unless the epoll could not be created.
OwnEpoll ==
    \A c \in Conns :
        LET t == connectors[c]
        IN  t # Nobody /\ t \notin destroyed /\ epoll_fd[t] # NoEpoll =>
                /\ c \in watch[t]
                /\ fds[epoll_fd[t]] = <<"epoll", t>>

\* The service has failed to start or is on its way out.
Leaving ==
    mpc \in {"failed", "stopped", "terminate", "destroy", "join", "unload", "gone"}

\* A client that connects is served, even if it came before the manager was
\* built and although its thread may have begun with epoll_wait on a number that
\* was not its epoll's; unless some epoll could not be created.
Served ==
    \A c \in Conns :
        (\E i \in DOMAIN backlog : backlog[i] = c) ~>
            c \in served \/ Leaving \/ crashed \/ \E t \in Threads : epoll_fd[t] = NoEpoll

\* The main thread is never stuck: the start ends in a running service or in the
\* end of the process, also when the listen thread constructs the manager it
\* waits for; and exit returns, with every connector thread joined.
MainReturns ==
    mpc \notin {"up", "stopped"} ~> mpc \in {"up", "stopped", "gone"} \/ crashed
================================================================================
