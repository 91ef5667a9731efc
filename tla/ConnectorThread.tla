---------------------------- MODULE ConnectorThread ----------------------------
(***************************************************************************)
(* The threads of the TCP server: the listen thread accepts connections    *)
(* (src/listen/tcp_listen_service.cpp) and hands each to the connector     *)
(* thread its descriptor hashes to (src/connector/connector_manager.cpp);  *)
(* a connector thread serves its connections with one level-triggered      *)
(* epoll (src/connector/connector_thread.cpp).                             *)
(*                                                                         *)
(* They share the process's descriptors, the map connectors_ and its       *)
(* mutex.  A step is one system call or one critical section; the          *)
(* critical section of delete_connector is two steps, because the          *)
(* descriptor it closes can be handed out again at once.  The maps of the  *)
(* threads have disjoint keys, so one function stands for all of them.     *)
(*                                                                         *)
(* A request is a whole packet, and a client sends one after the reply to  *)
(* the one before: Connector models the packets' bytes.  EPOLLHUP and      *)
(* EPOLLERR come with EPOLLIN for an accepted TCP socket, so main_loop's   *)
(* branches for them alone are never taken.                                *)
(***************************************************************************)
EXTENDS Integers, Sequences

CONSTANTS
    Fds,          \* the descriptors the process may have for connections
    Conns,        \* the connections that clients make
    ThreadNum,    \* thread_num_
    MaxRequests,  \* bound: the requests of one client
    None          \* no connection

ASSUME FdsAssumption == Fds \subseteq Nat /\ Fds # {}
ASSUME NoneAssumption == None \notin Conns
ASSUME ThreadNumAssumption == ThreadNum \in Nat \ {0}

Threads == 0..(ThreadNum - 1)

VARIABLES
    peer,        \* what a connection's client has done
    asked,       \* the requests it has sent
    req,         \* where its last request is
    backlog,     \* the connections the kernel holds for accept
    owner,       \* the process's descriptor table
    epoll,       \* the descriptors added to their thread's epoll
    connectors,  \* the maps connectors_
    mutex,       \* is the mutex_ of a thread held from one step to the next?
    lpc, lfd,    \* the listen thread
    tpc,         \* a connector thread
    batch,       \* the events epoll_wait gave it
    event,       \* the one it handles
    tread,       \* the connector exec_read found
    tconn,       \* the connector exec_parse or exec_write found
    crashed      \* the process is gone

client  == <<peer, asked>>
listen  == <<lpc, lfd>>
found   == <<tread, tconn>>
vars    == <<client, req, backlog, owner, epoll, connectors, mutex, listen,
             tpc, batch, event, found, crashed>>
--------------------------------------------------------------------------------
(* Clients and the kernel. *)

Connect(c) ==
    /\ peer[c] = "none"
    /\ peer' = [peer EXCEPT ![c] = "up"]
    /\ backlog' = Append(backlog, c)
    /\ UNCHANGED <<asked, req, owner, epoll, connectors, mutex, listen, tpc,
                   batch, event, found, crashed>>

\* A client reads the reply before it sends again.
Request(c) ==
    /\ peer[c] = "up" /\ req[c] = "none" /\ asked[c] < MaxRequests
    /\ asked' = [asked EXCEPT ![c] = @ + 1]
    /\ req' = [req EXCEPT ![c] = "sent"]
    /\ UNCHANGED <<peer, backlog, owner, epoll, connectors, mutex, listen, tpc,
                   batch, event, found, crashed>>

\* The client closes the connection, or resets it.
Leave(c, how) ==
    /\ peer[c] = "up"
    /\ peer' = [peer EXCEPT ![c] = how]
    /\ UNCHANGED <<asked, req, backlog, owner, epoll, connectors, mutex, listen,
                   tpc, batch, event, found, crashed>>

\* The connection is still the process's to serve.
Open(c) == \E fd \in Fds : owner[fd] = c

\* recv would not block: there is a request, the end of the stream or an error.
Readable(c) == req[c] = "sent" \/ peer[c] # "up"

\* What epoll reports for fd; a connection's socket is always writable here.
Event(fd) == [fd |-> fd, in |-> Readable(owner[fd])]

\* accept and epoll_ctl see an open descriptor until it is closed; closing it
\* takes it out of the epoll set.
FreeFds == {fd \in Fds : owner[fd] = None}
--------------------------------------------------------------------------------
(* The listen thread. *)

\* Mutant of AcceptConnection: accept's -1 is taken for a descriptor.
AcceptUnchecked ==
    /\ ~crashed /\ lpc = "accept"
    /\ backlog # <<>>
    /\ IF FreeFds = {}
       THEN lfd' = -1 /\ UNCHANGED <<owner, backlog>>
       ELSE \E fd \in FreeFds :
                /\ owner' = [owner EXCEPT ![fd] = Head(backlog)]
                /\ lfd' = fd /\ backlog' = Tail(backlog)
    /\ lpc' = "add"
    /\ UNCHANGED <<client, req, epoll, connectors, mutex, tpc, batch, event,
                   found, crashed>>

\* accept takes the lowest free descriptor; with none free it fails and main_loop
\* tries again.  The new socket is made non-blocking and handed to the connector
\* thread of its descriptor.
AcceptConnection ==
    /\ ~crashed /\ lpc = "accept"
    /\ backlog # <<>>
    /\ \E fd \in FreeFds :
        /\ \A f \in FreeFds : fd <= f
        /\ owner' = [owner EXCEPT ![fd] = Head(backlog)]
        /\ lfd' = fd
    /\ backlog' = Tail(backlog)
    /\ lpc' = "add"
    /\ UNCHANGED <<client, req, epoll, connectors, mutex, tpc, batch, event,
                   found, crashed>>

\* create_socket: epoll may report the descriptor from here on.
AddToEpoll ==
    /\ ~crashed /\ lpc = "add"
    /\ epoll' = epoll \cup {lfd}
    /\ lpc' = "insert"
    /\ UNCHANGED <<client, req, backlog, owner, connectors, mutex, lfd, tpc,
                   batch, event, found, crashed>>

hash_index(key, max) == key % max

\* Mutant of Unlocked: the lock is not taken.
UnlockedAlways(t) == TRUE

Unlocked(t) == ~mutex[t]

InsertConnector ==
    /\ ~crashed /\ lpc = "insert"
    /\ Unlocked(hash_index(lfd, ThreadNum))
    /\ connectors' = [connectors EXCEPT ![lfd] = owner[lfd]]
    /\ lpc' = "accept"
    /\ UNCHANGED <<client, req, backlog, owner, epoll, mutex, lfd, tpc, batch,
                   event, found, crashed>>
--------------------------------------------------------------------------------
(* A connector thread. *)

\* The descriptors thread t is told of.
Watched(t) == {fd \in epoll : hash_index(fd, ThreadNum) = t}

\* The event loop of thread t stands at pc.
At(t, pc) == ~crashed /\ tpc[t] = pc

\* Mutant of EpollWait: EPOLLONESHOT, never armed again.
EpollWaitOneShot(t) ==
    /\ At(t, "loop")
    /\ batch[t] = {}
    /\ batch' = [batch EXCEPT ![t] = {Event(fd) : fd \in Watched(t)}]
    /\ batch' # batch
    /\ epoll' = epoll \ Watched(t)
    /\ UNCHANGED <<client, req, backlog, owner, connectors, mutex, listen, tpc,
                   event, found, crashed>>

\* epoll_wait; with nothing to report it returns after 100 ms and is called again.
EpollWait(t) ==
    /\ At(t, "loop")
    /\ batch[t] = {}
    /\ batch' = [batch EXCEPT ![t] = {Event(fd) : fd \in Watched(t)}]
    /\ batch' # batch
    /\ UNCHANGED <<client, req, backlog, owner, epoll, connectors, mutex, listen,
                   tpc, event, found, crashed>>

\* The next event: EPOLLIN before EPOLLOUT.
TakeEvent(t) ==
    /\ At(t, "loop")
    /\ \E e \in batch[t] :
        /\ batch' = [batch EXCEPT ![t] = @ \ {e}]
        /\ event' = [event EXCEPT ![t] = e]
        /\ tpc' = [tpc EXCEPT ![t] = IF e.in THEN "read" ELSE "write"]
    /\ tread' = [tread EXCEPT ![t] = None]
    /\ tconn' = [tconn EXCEPT ![t] = None]
    /\ UNCHANGED <<client, req, backlog, owner, epoll, connectors, mutex, listen,
                   crashed>>

\* exec_read looks the descriptor up.
ReadLookup(t) ==
    LET c == connectors[event[t].fd]
    IN  /\ At(t, "read") /\ Unlocked(t)
        /\ tread' = [tread EXCEPT ![t] = c]
        /\ tpc' = [tpc EXCEPT ![t] = IF c = None THEN "parse" ELSE "recv"]
        /\ UNCHANGED <<client, req, backlog, owner, epoll, connectors, mutex,
                       listen, batch, event, tconn, crashed>>

\* Mutant of ExecRead: the end of the stream is not handled.
ExecReadKeeps(t) ==
    LET c == tread[t]
    IN  /\ At(t, "recv")
        /\ req' = [req EXCEPT ![c] = IF @ = "sent" THEN "fed" ELSE @]
        /\ tpc' = [tpc EXCEPT ![t] = "parse"]
        /\ UNCHANGED <<client, backlog, owner, epoll, connectors, mutex, listen,
                       batch, event, found, crashed>>

\* exec_read receives outside the lock: the request, or 0 or -1 when there is
\* none, on which the connector is deleted.
ExecRead(t) ==
    LET c == tread[t]
    IN  /\ At(t, "recv")
        /\ IF req[c] = "sent"
           THEN /\ req' = [req EXCEPT ![c] = "fed"]
                /\ tpc' = [tpc EXCEPT ![t] = "parse"]
           ELSE /\ tpc' = [tpc EXCEPT ![t] = "close"]
                /\ UNCHANGED req
        /\ UNCHANGED <<client, backlog, owner, epoll, connectors, mutex, listen,
                       batch, event, found, crashed>>

\* Where the event loop goes when delete_connector returns.
AfterDelete(t) == IF event[t].in THEN "parse" ELSE "loop"

\* delete_connector takes the lock and closes the descriptor.
DeleteClose(t) ==
    LET fd == event[t].fd
    IN  /\ At(t, "close") /\ Unlocked(t)
        /\ IF connectors[fd] # None
           THEN /\ mutex' = [mutex EXCEPT ![t] = TRUE]
                /\ owner' = [owner EXCEPT ![fd] = None]
                /\ epoll' = epoll \ {fd}
                /\ tpc' = [tpc EXCEPT ![t] = "erase"]
           ELSE /\ tpc' = [tpc EXCEPT ![t] = AfterDelete(t)]
                /\ UNCHANGED <<mutex, owner, epoll>>
        /\ UNCHANGED <<client, req, backlog, connectors, listen, batch, event,
                       found, crashed>>

\* Mutant of FdAfterClose: the member keeps the number it has closed.
FdKept(fd) == fd

\* Socket::close_socket leaves socket_fd_ = invalid_id.
FdAfterClose(fd) == -1

\* The Socket is destroyed, and its destructor closes what socket_fd_ now says;
\* then the entry is erased and the lock released.
DeleteErase(t) ==
    LET fd    == event[t].fd
        again == FdAfterClose(fd)
    IN  /\ At(t, "erase")
        /\ owner' = [f \in Fds |-> IF f = again THEN None ELSE owner[f]]
        /\ epoll' = epoll \ {again}
        /\ connectors' = [connectors EXCEPT ![fd] = None]
        /\ mutex' = [mutex EXCEPT ![t] = FALSE]
        /\ tpc' = [tpc EXCEPT ![t] = AfterDelete(t)]
        /\ UNCHANGED <<client, req, backlog, listen, batch, event, found, crashed>>

\* exec_parse looks the descriptor up again, whatever exec_read did.
ParseLookup(t) ==
    LET c == connectors[event[t].fd]
    IN  /\ At(t, "parse") /\ Unlocked(t)
        /\ tconn' = [tconn EXCEPT ![t] = c]
        /\ tpc' = [tpc EXCEPT ![t] = IF c = None THEN "loop" ELSE "exec"]
        /\ UNCHANGED <<client, req, backlog, owner, epoll, connectors, mutex,
                       listen, batch, event, tread, crashed>>

\* Mutant of ExecParse: what the last packet left in the buffer is executed again.
ExecParseStale(t) ==
    LET c == tconn[t]
    IN  /\ At(t, "exec")
        /\ req' = [req EXCEPT ![c] = "reply"]
        /\ tpc' = [tpc EXCEPT ![t] = "loop"]
        /\ UNCHANGED <<client, backlog, owner, epoll, connectors, mutex, listen,
                       batch, event, found, crashed>>

\* Connector::exec_parse: without a packet in the buffer the header is zero and
\* the content's length wraps below zero, which ends the process.  With one, the
\* request is executed and its reply written to the output buffer.
ExecParse(t) ==
    LET c == tconn[t]
    IN  /\ At(t, "exec")
        /\ IF req[c] = "fed"
           THEN req' = [req EXCEPT ![c] = "reply"] /\ UNCHANGED crashed
           ELSE crashed' = TRUE /\ UNCHANGED req
        /\ tpc' = [tpc EXCEPT ![t] = "loop"]
        /\ UNCHANGED <<client, backlog, owner, epoll, connectors, mutex, listen,
                       batch, event, found>>

WriteLookup(t) ==
    LET c == connectors[event[t].fd]
    IN  /\ At(t, "write") /\ Unlocked(t)
        /\ tconn' = [tconn EXCEPT ![t] = c]
        /\ tpc' = [tpc EXCEPT ![t] = IF c = None THEN "loop" ELSE "send"]
        /\ UNCHANGED <<client, req, backlog, owner, epoll, connectors, mutex,
                       listen, batch, event, tread, crashed>>

\* exec_write sends the reply, if there is one; a send to a peer that has reset
\* the connection fails and the connector is deleted.
ExecWrite(t) ==
    LET c == tconn[t]
    IN  /\ At(t, "send")
        /\ IF req[c] = "reply" /\ peer[c] = "reset"
           THEN /\ tpc' = [tpc EXCEPT ![t] = "close"]
                /\ UNCHANGED req
           ELSE /\ tpc' = [tpc EXCEPT ![t] = "loop"]
                /\ req' = [req EXCEPT ![c] = IF @ = "reply" THEN "none" ELSE @]
        /\ UNCHANGED <<client, backlog, owner, epoll, connectors, mutex, listen,
                       batch, event, found, crashed>>
--------------------------------------------------------------------------------
\* What lfd and event are before the first connection and the first event.
AnyFd == CHOOSE fd \in Fds : TRUE

Init ==
    /\ peer = [c \in Conns |-> "none"]
    /\ asked = [c \in Conns |-> 0]
    /\ req = [c \in Conns |-> "none"]
    /\ backlog = <<>>
    /\ owner = [fd \in Fds |-> None]
    /\ epoll = {}
    /\ connectors = [fd \in Fds |-> None]
    /\ mutex = [t \in Threads |-> FALSE]
    /\ lpc = "accept" /\ lfd = AnyFd
    /\ tpc = [t \in Threads |-> "loop"]
    /\ batch = [t \in Threads |-> {}]
    /\ event = [t \in Threads |-> [fd |-> AnyFd, in |-> FALSE]]
    /\ tread = [t \in Threads |-> None]
    /\ tconn = [t \in Threads |-> None]
    /\ crashed = FALSE

Client(c) == Connect(c) \/ Request(c) \/ Leave(c, "closed") \/ Leave(c, "reset")

ListenThread == AcceptConnection \/ AddToEpoll \/ InsertConnector

MainLoop(t) ==
    \/ EpollWait(t) \/ TakeEvent(t)
    \/ ReadLookup(t) \/ ExecRead(t) \/ ParseLookup(t) \/ ExecParse(t)
    \/ WriteLookup(t) \/ ExecWrite(t)
    \/ DeleteClose(t) \/ DeleteErase(t)

Next ==
    \/ \E c \in Conns : Client(c)
    \/ ListenThread
    \/ \E t \in Threads : MainLoop(t)

\* Every thread is scheduled again and again; clients owe nothing.
Fairness == WF_vars(ListenThread) /\ \A t \in Threads : WF_vars(MainLoop(t))

Spec == Init /\ [][Next]_vars /\ Fairness
--------------------------------------------------------------------------------
(* Properties. *)

TPCs == {"loop", "read", "recv", "close", "erase", "parse", "exec", "write", "send"}

\* The threads' state keeps its types.
TypeOK ==
    /\ peer \in [Conns -> {"none", "up", "closed", "reset"}]
    /\ asked \in [Conns -> Nat]
    /\ req \in [Conns -> {"none", "sent", "fed", "reply"}]
    /\ backlog \in Seq(Conns)
    /\ owner \in [Fds -> Conns \cup {None}]
    /\ epoll \subseteq Fds
    /\ connectors \in [Fds -> Conns \cup {None}]
    /\ mutex \in [Threads -> BOOLEAN]
    /\ lpc \in {"accept", "add", "insert"} /\ lfd \in Fds
    /\ tpc \in [Threads -> TPCs]
    /\ batch \in [Threads -> SUBSET [fd : Fds, in : BOOLEAN]]
    /\ event \in [Threads -> [fd : Fds, in : BOOLEAN]]
    /\ tread \in [Threads -> Conns \cup {None}]
    /\ tconn \in [Threads -> Conns \cup {None}]
    /\ crashed \in BOOLEAN

\* The thread of fd is between close and erase of its entry.
Deleting(fd) ==
    LET t == hash_index(fd, ThreadNum)
    IN  tpc[t] = "erase" /\ event[t].fd = fd

\* fd is on its way through accept_connector.
Pending(fd) == lpc \in {"add", "insert"} /\ lfd = fd

\* A connector in the map is that of the connection its descriptor belongs to,
\* although delete_connector frees the descriptor before it erases the entry
\* and the listen thread may get the same number for the next connection: the
\* entry of a new connection is never the stale one nor erased by the old one's
\* deletion.  A descriptor with no entry is free or on its way through
\* accept_connector.
MapFaithful ==
    \A fd \in Fds :
        \/ Deleting(fd)
        \/ connectors[fd] = owner[fd]
        \/ connectors[fd] = None /\ Pending(fd)

\* A connector thread that works on a connector outside the lock (recv, send,
\* parsing) holds one that is still in its map: nobody else deletes it, and its
\* descriptor cannot meanwhile name another connection.
NoDanglingConnector ==
    \A t \in Threads :
        /\ tpc[t] \in {"recv", "close", "erase"} /\ event[t].in =>
                connectors[event[t].fd] = tread[t]
        /\ tpc[t] \in {"exec", "send"} => connectors[event[t].fd] = tconn[t]

\* A connector thread holds its mutex between close and erase only.
LockInv == \A t \in Threads : mutex[t] = (tpc[t] = "erase")

\* A connector thread is only told of descriptors that hash to it.
OwnFds ==
    \A t \in Threads :
        /\ \A e \in batch[t] : hash_index(e.fd, ThreadNum) = t
        /\ tpc[t] # "loop" => hash_index(event[t].fd, ThreadNum) = t

\* The life of a map entry: none until accept_connector has inserted it, then
\* the owner's, and stale only while it is being deleted, when the descriptor is
\* free or already on its way through accept_connector again.
EntryInv ==
    \A fd \in Fds :
        /\ Pending(fd) => owner[fd] # None
        /\ Deleting(fd) => owner[fd] = None \/ Pending(fd)
        /\ ~Deleting(fd) =>
                connectors[fd] = IF Pending(fd) THEN None ELSE owner[fd]

\* What a connector thread holds is in its map.
HeldInv ==
    \A t \in Threads :
        /\ tpc[t] \in {"read", "recv"} => event[t].in
        /\ tpc[t] \in {"write", "send"} => ~event[t].in
        /\ tpc[t] \in {"recv", "close", "erase", "exec", "send"} =>
                connectors[event[t].fd] # None
        /\ tpc[t] \in {"recv", "close", "erase"} /\ event[t].in =>
                connectors[event[t].fd] = tread[t]
        /\ tpc[t] \in {"exec", "send"} => connectors[event[t].fd] = tconn[t]

\* The inductive invariant.
MapInv == TypeOK /\ LockInv /\ OwnFds /\ EntryInv /\ HeldInv

\* The server closes a connection only when its client has closed or reset it:
\* no stale event, late accept or reused descriptor makes exec_read see EAGAIN
\* and drop a connection that is up, and the second close of a socket, by its
\* destructor, does not close the connection that got its descriptor since.
NoSpuriousDrop ==
    [][\A fd \in Fds : owner[fd] # None /\ owner'[fd] = None =>
            peer[owner[fd]] # "up"]_vars

\* The connections the process has closed: neither waiting for accept nor open.
Closed ==
    {c \in Conns : /\ peer[c] # "none" /\ ~Open(c)
                   /\ \A i \in DOMAIN backlog : backlog[i] # c}

Service == INSTANCE RequestReply WITH
    stage   <- req,
    left    <- {c \in Conns : peer[c] \in {"closed", "reset"}},
    dropped <- Closed

\* The threads together serve each connection as one sequential server would:
\* whichever events are stale, look-ups fail, descriptors are reused or threads
\* work at the same time, a request is received, executed and answered once, on
\* the connection it was sent on and before that connection is closed.
ImplementsRequestReply == Service!Spec

\* exec_parse of a connector that exec_read has just fed finds its packet.
ParsesWhatWasFed ==
    \A t \in Threads :
        tpc[t] = "exec" /\ tconn[t] = tread[t] => req[tconn[t]] = "fed"

\* Every request of a client that stays is answered, although the event of its
\* arrival may come before the connector is in the map and be ignored.
RequestAnswered ==
    \A c \in Conns :
        req[c] = "sent" ~> req[c] = "none" \/ peer[c] # "up" \/ crashed

\* The descriptor of a connection whose client has gone is freed.
DescriptorFreed ==
    \A c \in Conns :
        Open(c) /\ peer[c] # "up" ~> ~Open(c) \/ crashed

\* The connector parsed in an event is the one read in it: "每个Connector表示
\* 一个TCP连接" (a Connector stands for one TCP connection), README.md.
ParsesWhatItRead ==
    \A t \in Threads : tpc[t] = "exec" => tconn[t] = tread[t]
================================================================================
