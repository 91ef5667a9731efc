-------------------------- MODULE ConnectorThreadProofs ------------------------
(***************************************************************************)
(* The map of connectors and the descriptors stay in agreement, for every  *)
(* number of connector threads, descriptors and connections.               *)
(***************************************************************************)
EXTENDS ConnectorThread, SequenceTheorems, TLAPS

\* A descriptor hashes to a thread.
LEMMA HashType ==
    ASSUME NEW fd \in Fds
    PROVE  hash_index(fd, ThreadNum) \in Threads
  BY FdsAssumption, ThreadNumAssumption DEF hash_index, Threads

\* The variables of the clients and of the kernel's queue keep their types.
LEMMA ClientType ==
    ASSUME TypeOK, NEW c \in Conns, Client(c)
    PROVE  TypeOK'
  <1>1. CASE Connect(c)
    <2>1. backlog' \in Seq(Conns)
      BY <1>1 DEF Connect, TypeOK
    <2>2. peer' \in [Conns -> {"none", "up", "closed", "reset"}]
      BY <1>1 DEF Connect, TypeOK
    <2>. QED BY <1>1, <2>1, <2>2 DEF Connect, TypeOK, listen, found
  <1>2. CASE Request(c)
    <2>1. asked' \in [Conns -> Nat]
      BY <1>2 DEF Request, TypeOK
    <2>2. req' \in [Conns -> {"none", "sent", "fed", "reply"}]
      BY <1>2 DEF Request, TypeOK
    <2>. QED BY <1>2, <2>1, <2>2 DEF Request, TypeOK, listen, found
  <1>3. ASSUME NEW how \in {"closed", "reset"}, Leave(c, how) PROVE TypeOK'
    <2>1. peer' \in [Conns -> {"none", "up", "closed", "reset"}]
      BY <1>3 DEF Leave, TypeOK
    <2>. QED BY <1>3, <2>1 DEF Leave, TypeOK, listen, found
  <1>. QED BY <1>1, <1>2, <1>3 DEF Client

\* So do those of the listen thread.
LEMMA ListenType ==
    ASSUME TypeOK, ListenThread
    PROVE  TypeOK'
  <1>1. CASE AcceptConnection
    <2>1. Head(backlog) \in Conns /\ Tail(backlog) \in Seq(Conns)
      BY <1>1, HeadTailProperties DEF AcceptConnection, TypeOK
    <2>2. PICK fd \in Fds : /\ owner' = [owner EXCEPT ![fd] = Head(backlog)]
                            /\ lfd' = fd
      BY <1>1 DEF AcceptConnection, FreeFds
    <2>3. owner' \in [Fds -> Conns \cup {None}]
      BY <2>1, <2>2 DEF TypeOK
    <2>. QED BY <1>1, <2>1, <2>2, <2>3 DEF AcceptConnection, TypeOK, client, found
  <1>2. CASE AddToEpoll
    BY <1>2 DEF AddToEpoll, TypeOK, client, found
  <1>3. CASE InsertConnector
    <2>1. connectors' \in [Fds -> Conns \cup {None}]
      BY <1>3 DEF InsertConnector, TypeOK
    <2>. QED BY <1>3, <2>1 DEF InsertConnector, TypeOK, client, found
  <1>. QED BY <1>1, <1>2, <1>3 DEF ListenThread

\* The destructor's close of a socket that was closed closes nothing.
LEMMA ClosedOnce ==
    ASSUME TypeOK, NEW t \in Threads, DeleteErase(t)
    PROVE  UNCHANGED <<owner, epoll>>
  <1>1. \A f \in Fds : f # -1
    BY FdsAssumption
  <1>2. /\ owner' = [f \in Fds |-> IF f = -1 THEN None ELSE owner[f]]
        /\ epoll' = epoll \ {-1}
    BY DEF DeleteErase, FdAfterClose
  <1>3. owner' = owner
    BY <1>1, <1>2 DEF TypeOK
  <1>4. epoll' = epoll
    BY <1>1, <1>2 DEF TypeOK
  <1>. QED BY <1>3, <1>4

\* And those of a connector thread.
LEMMA ThreadType ==
    ASSUME TypeOK, NEW t \in Threads, MainLoop(t)
    PROVE  TypeOK'
  <1> USE DEF At, client, listen, found
  <1>1. CASE EpollWait(t)
    <2>1. {Event(fd) : fd \in Watched(t)} \in SUBSET [fd : Fds, in : BOOLEAN]
      <3>1. ASSUME NEW fd \in Watched(t)
            PROVE  fd \in Fds /\ Readable(owner[fd]) \in BOOLEAN
        BY DEF Watched, Readable, TypeOK
      <3>. QED BY <3>1 DEF Event
    <2>2. batch' \in [Threads -> SUBSET [fd : Fds, in : BOOLEAN]]
      BY <1>1, <2>1 DEF EpollWait, TypeOK
    <2>. QED BY <1>1, <2>2 DEF EpollWait, TypeOK
  <1>2. CASE TakeEvent(t)
    <2>1. PICK e \in batch[t] :
             /\ batch' = [batch EXCEPT ![t] = @ \ {e}]
             /\ event' = [event EXCEPT ![t] = e]
             /\ tpc' = [tpc EXCEPT ![t] = IF e.in THEN "read" ELSE "write"]
      BY <1>2 DEF TakeEvent
    <2>2. e \in [fd : Fds, in : BOOLEAN]
      BY DEF TypeOK
    <2>3. /\ batch' \in [Threads -> SUBSET [fd : Fds, in : BOOLEAN]]
          /\ event' \in [Threads -> [fd : Fds, in : BOOLEAN]]
          /\ tpc' \in [Threads -> TPCs]
      BY <2>1, <2>2 DEF TypeOK, TPCs
    <2>4. /\ tread' \in [Threads -> Conns \cup {None}]
          /\ tconn' \in [Threads -> Conns \cup {None}]
      BY <1>2 DEF TakeEvent, TypeOK
    <2>. QED BY <1>2, <2>3, <2>4 DEF TakeEvent, TypeOK
  <1>3. CASE ReadLookup(t)
    <2>1. connectors[event[t].fd] \in Conns \cup {None}
      BY DEF TypeOK
    <2>2. /\ tread' \in [Threads -> Conns \cup {None}]
          /\ tpc' \in [Threads -> TPCs]
      BY <1>3, <2>1 DEF ReadLookup, TypeOK, TPCs
    <2>. QED BY <1>3, <2>2 DEF ReadLookup, TypeOK
  <1>4. CASE ExecRead(t)
    <2>1. /\ req' \in [Conns -> {"none", "sent", "fed", "reply"}]
          /\ tpc' \in [Threads -> TPCs]
      BY <1>4 DEF ExecRead, TypeOK, TPCs
    <2>. QED BY <1>4, <2>1 DEF ExecRead, TypeOK
  <1>5. CASE ParseLookup(t)
    <2>1. connectors[event[t].fd] \in Conns \cup {None}
      BY DEF TypeOK
    <2>2. /\ tconn' \in [Threads -> Conns \cup {None}]
          /\ tpc' \in [Threads -> TPCs]
      BY <1>5, <2>1 DEF ParseLookup, TypeOK, TPCs
    <2>. QED BY <1>5, <2>2 DEF ParseLookup, TypeOK
  <1>6. CASE ExecParse(t)
    <2>1. /\ req' \in [Conns -> {"none", "sent", "fed", "reply"}]
          /\ tpc' \in [Threads -> TPCs]
          /\ crashed' \in BOOLEAN
      BY <1>6 DEF ExecParse, TypeOK, TPCs
    <2>. QED BY <1>6, <2>1 DEF ExecParse, TypeOK
  <1>7. CASE WriteLookup(t)
    <2>1. connectors[event[t].fd] \in Conns \cup {None}
      BY DEF TypeOK
    <2>2. /\ tconn' \in [Threads -> Conns \cup {None}]
          /\ tpc' \in [Threads -> TPCs]
      BY <1>7, <2>1 DEF WriteLookup, TypeOK, TPCs
    <2>. QED BY <1>7, <2>2 DEF WriteLookup, TypeOK
  <1>8. CASE ExecWrite(t)
    <2>1. /\ req' \in [Conns -> {"none", "sent", "fed", "reply"}]
          /\ tpc' \in [Threads -> TPCs]
      BY <1>8, ZenonT(40) DEF ExecWrite, TypeOK, TPCs
    <2>. QED BY <1>8, <2>1 DEF ExecWrite, TypeOK
  <1>9. CASE DeleteClose(t)
    <2>1. event[t].fd \in Fds /\ AfterDelete(t) \in TPCs
      BY DEF AfterDelete, TypeOK, TPCs
    <2>2. /\ owner' \in [Fds -> Conns \cup {None}]
          /\ epoll' \subseteq Fds
          /\ mutex' \in [Threads -> BOOLEAN]
          /\ tpc' \in [Threads -> TPCs]
      BY <1>9, <2>1, ZenonT(40) DEF DeleteClose, TypeOK, TPCs
    <2>. QED BY <1>9, <2>2 DEF DeleteClose, TypeOK
  <1>10. CASE DeleteErase(t)
    <2>1. event[t].fd \in Fds /\ AfterDelete(t) \in TPCs
      BY DEF AfterDelete, TypeOK, TPCs
    <2>2. /\ connectors' \in [Fds -> Conns \cup {None}]
          /\ mutex' \in [Threads -> BOOLEAN]
          /\ tpc' \in [Threads -> TPCs]
      BY <1>10, <2>1 DEF DeleteErase, TypeOK, TPCs
    <2>3. UNCHANGED <<owner, epoll>>
      BY <1>10, ClosedOnce
    <2>. QED BY <1>10, <2>2, <2>3 DEF DeleteErase, TypeOK
  <1>. QED BY <1>1, <1>2, <1>3, <1>4, <1>5, <1>6, <1>7, <1>8, <1>9, <1>10
           DEF MainLoop

\* What the invariant says of the state of one connector thread.
ThreadOK(t) ==
    /\ \A e \in batch[t] : hash_index(e.fd, ThreadNum) = t
    /\ tpc[t] # "loop" => hash_index(event[t].fd, ThreadNum) = t
    /\ tpc[t] \in {"read", "recv"} => event[t].in
    /\ tpc[t] \in {"write", "send"} => ~event[t].in
    /\ tpc[t] \in {"recv", "close", "erase", "exec", "send"} =>
            connectors[event[t].fd] # None
    /\ tpc[t] \in {"recv", "close", "erase"} /\ event[t].in =>
            connectors[event[t].fd] = tread[t]
    /\ tpc[t] \in {"exec", "send"} => connectors[event[t].fd] = tconn[t]

LEMMA ThreadParts == (OwnFds /\ HeldInv) <=> \A t \in Threads : ThreadOK(t)
  BY DEF OwnFds, HeldInv, ThreadOK

\* The map's part of the invariant depends on these variables only.
LEMMA SameEntries ==
    ASSUME EntryInv, LockInv, UNCHANGED <<owner, connectors, lpc, lfd, mutex>>,
           \A u \in Threads : (tpc'[u] = "erase") = (tpc[u] = "erase"),
           \A u \in Threads : tpc[u] = "erase" => event'[u] = event[u]
    PROVE  EntryInv' /\ LockInv'
  <1>1. \A fd \in Fds : Deleting(fd)' = Deleting(fd)
    BY HashType DEF Deleting
  <1>2. \A fd \in Fds : Pending(fd)' = Pending(fd)
    BY DEF Pending
  <1>3. EntryInv'
    BY <1>1, <1>2 DEF EntryInv
  <1>4. LockInv'
    BY DEF LockInv
  <1>. QED BY <1>3, <1>4

\* A step of a connector thread that does not delete.
LEMMA LocalStep ==
    ASSUME MapInv, NEW t \in Threads, MainLoop(t),
           tpc[t] \notin {"close", "erase"}
    PROVE  EntryInv' /\ LockInv' /\ OwnFds' /\ HeldInv'
  <1> USE DEF At, client, listen, found
  <1>0. TypeOK /\ ThreadOK(t) /\ \A u \in Threads : ThreadOK(u)
    BY ThreadParts DEF MapInv
  <1>1. /\ UNCHANGED <<owner, connectors, lpc, lfd, mutex>>
        /\ tpc'[t] # "erase"
        /\ \A u \in Threads \ {t} :
              /\ tpc'[u] = tpc[u] /\ event'[u] = event[u] /\ batch'[u] = batch[u]
              /\ tread'[u] = tread[u] /\ tconn'[u] = tconn[u]
    <2>1. CASE EpollWait(t)
      BY <2>1 DEF EpollWait, MapInv, TypeOK
    <2>2. CASE TakeEvent(t)
      BY <2>2 DEF TakeEvent, MapInv, TypeOK
    <2>3. CASE ReadLookup(t)
      BY <2>3 DEF ReadLookup, MapInv, TypeOK
    <2>4. CASE ExecRead(t)
      BY <2>4 DEF ExecRead, MapInv, TypeOK
    <2>5. CASE ParseLookup(t)
      BY <2>5 DEF ParseLookup, MapInv, TypeOK
    <2>6. CASE ExecParse(t)
      BY <2>6 DEF ExecParse, MapInv, TypeOK
    <2>7. CASE WriteLookup(t)
      BY <2>7 DEF WriteLookup, MapInv, TypeOK
    <2>8. CASE ExecWrite(t)
      BY <2>8 DEF ExecWrite, MapInv, TypeOK
    <2>. QED BY <2>1, <2>2, <2>3, <2>4, <2>5, <2>6, <2>7, <2>8
             DEF MainLoop, DeleteClose, DeleteErase
  <1>2. EntryInv' /\ LockInv'
    BY <1>1, SameEntries DEF MapInv
  <1>3. ThreadOK(t)'
    <2>1. CASE EpollWait(t)
      <3>1. \A e \in batch'[t] : hash_index(e.fd, ThreadNum) = t
        BY <2>1 DEF EpollWait, Event, Watched, MapInv, TypeOK
      <3>2. tpc'[t] = "loop"
        BY <2>1 DEF EpollWait
      <3>. QED BY <3>1, <3>2 DEF ThreadOK
    <2>2. CASE TakeEvent(t)
      <3>1. PICK e \in batch[t] :
               /\ batch' = [batch EXCEPT ![t] = @ \ {e}]
               /\ event' = [event EXCEPT ![t] = e]
               /\ tpc' = [tpc EXCEPT ![t] = IF e.in THEN "read" ELSE "write"]
        BY <2>2 DEF TakeEvent
      <3>2. /\ batch'[t] \subseteq batch[t] /\ event'[t] = e
            /\ tpc'[t] = IF e.in THEN "read" ELSE "write"
        BY <3>1, <1>0 DEF TypeOK
      <3>. QED BY <1>0, <3>2 DEF ThreadOK
    <2>3. CASE ReadLookup(t)
      <3>1. /\ UNCHANGED <<connectors, batch, event, tconn>>
            /\ tread'[t] = connectors[event[t].fd]
            /\ tpc'[t] = IF connectors[event[t].fd] = None THEN "parse" ELSE "recv"
            /\ tpc[t] = "read"
        BY <1>0, <2>3 DEF ReadLookup, TypeOK
      <3>. QED BY <1>0, <3>1 DEF ThreadOK
    <2>4. CASE ExecRead(t)
      <3>1. /\ UNCHANGED <<connectors, batch, event, tread, tconn>>
            /\ tpc'[t] \in {"parse", "close"}
            /\ tpc[t] = "recv"
        BY <1>0, <2>4 DEF ExecRead, TypeOK
      <3>. QED BY <1>0, <3>1 DEF ThreadOK
    <2>5. CASE ParseLookup(t)
      <3>1. /\ UNCHANGED <<connectors, batch, event, tread>>
            /\ tconn'[t] = connectors[event[t].fd]
            /\ tpc'[t] = IF connectors[event[t].fd] = None THEN "loop" ELSE "exec"
            /\ tpc[t] = "parse"
        BY <1>0, <2>5 DEF ParseLookup, TypeOK
      <3>. QED BY <1>0, <3>1 DEF ThreadOK
    <2>6. CASE ExecParse(t)
      <3>1. UNCHANGED <<connectors, batch, event, tread, tconn>> /\ tpc'[t] = "loop"
        BY <1>0, <2>6 DEF ExecParse, TypeOK
      <3>. QED BY <1>0, <3>1 DEF ThreadOK
    <2>7. CASE WriteLookup(t)
      <3>1. /\ UNCHANGED <<connectors, batch, event, tread>>
            /\ tconn'[t] = connectors[event[t].fd]
            /\ tpc'[t] = IF connectors[event[t].fd] = None THEN "loop" ELSE "send"
            /\ tpc[t] = "write"
        BY <1>0, <2>7 DEF WriteLookup, TypeOK
      <3>. QED BY <1>0, <3>1 DEF ThreadOK
    <2>8. CASE ExecWrite(t)
      <3>1. /\ UNCHANGED <<connectors, batch, event, tread, tconn>>
            /\ tpc'[t] \in {"close", "loop"}
            /\ tpc[t] = "send"
        BY <1>0, <2>8 DEF ExecWrite, TypeOK
      <3>. QED BY <1>0, <3>1 DEF ThreadOK
    <2>. QED BY <2>1, <2>2, <2>3, <2>4, <2>5, <2>6, <2>7, <2>8
             DEF MainLoop, DeleteClose, DeleteErase
  <1>4. \A u \in Threads : ThreadOK(u)'
    BY <1>0, <1>1, <1>3 DEF ThreadOK
  <1>. QED BY <1>2, <1>4, ThreadParts DEF OwnFds, HeldInv, ThreadOK

\* delete_connector closes the descriptor: its entry becomes stale under the lock.
LEMMA CloseStep ==
    ASSUME MapInv, NEW t \in Threads, DeleteClose(t)
    PROVE  EntryInv' /\ LockInv' /\ OwnFds' /\ HeldInv'
  <1>0. TypeOK /\ ThreadOK(t) /\ \A u \in Threads : ThreadOK(u)
    BY ThreadParts DEF MapInv
  <1>a. PICK fd \in Fds : fd = event[t].fd
    BY <1>0 DEF TypeOK
  <1>1. /\ tpc[t] = "close"
        /\ hash_index(fd, ThreadNum) = t /\ connectors[fd] # None
    BY <1>0, <1>a DEF DeleteClose, At, ThreadOK, TypeOK
  <1>2. /\ mutex' = [mutex EXCEPT ![t] = TRUE]
        /\ owner' = [owner EXCEPT ![fd] = None]
        /\ tpc' = [tpc EXCEPT ![t] = "erase"]
        /\ UNCHANGED <<connectors, lpc, lfd, batch, event, tread, tconn>>
    BY <1>a, <1>1 DEF DeleteClose, listen, found
  <1>3. ~Deleting(fd) /\ ~Pending(fd)
    BY <1>a, <1>1 DEF MapInv, EntryInv, Deleting
  <1>4. /\ tpc'[t] = "erase" /\ \A u \in Threads \ {t} : tpc'[u] = tpc[u]
        /\ owner'[fd] = None /\ \A f \in Fds \ {fd} : owner'[f] = owner[f]
    BY <1>0, <1>2 DEF TypeOK
  <1>5. Deleting(fd)' /\ \A f \in Fds \ {fd} : Deleting(f)' = Deleting(f)
    BY <1>a, <1>1, <1>2, <1>4, HashType DEF Deleting
  <1>6. \A f \in Fds : Pending(f)' = Pending(f)
    BY <1>2 DEF Pending
  <1>7. EntryInv'
    BY <1>2, <1>3, <1>4, <1>5, <1>6 DEF EntryInv, MapInv
  <1>8. LockInv'
    BY <1>0, <1>2, <1>4 DEF LockInv, MapInv, TypeOK
  <1>9. \A u \in Threads : ThreadOK(u)'
    BY <1>a, <1>0, <1>1, <1>2, <1>4 DEF ThreadOK
  <1>. QED BY <1>7, <1>8, <1>9, ThreadParts DEF OwnFds, HeldInv, ThreadOK

\* It erases the entry and releases the lock.
LEMMA EraseStep ==
    ASSUME MapInv, NEW t \in Threads, DeleteErase(t)
    PROVE  EntryInv' /\ LockInv' /\ OwnFds' /\ HeldInv'
  <1>0. TypeOK /\ ThreadOK(t) /\ \A u \in Threads : ThreadOK(u)
    BY ThreadParts DEF MapInv
  <1>a. PICK fd \in Fds : fd = event[t].fd
    BY <1>0 DEF TypeOK
  <1>1. tpc[t] = "erase" /\ hash_index(fd, ThreadNum) = t
    BY <1>0, <1>a DEF DeleteErase, At, ThreadOK, TypeOK
  <1>2. /\ mutex' = [mutex EXCEPT ![t] = FALSE]
        /\ connectors' = [connectors EXCEPT ![fd] = None]
        /\ tpc' = [tpc EXCEPT ![t] = AfterDelete(t)]
        /\ UNCHANGED <<owner, lpc, lfd, batch, event, tread, tconn>>
    BY <1>0, <1>a, ClosedOnce DEF DeleteErase, listen, found
  <1>3. AfterDelete(t) \in {"parse", "loop"}
    BY DEF AfterDelete
  <1>4. /\ tpc'[t] \in {"parse", "loop"} /\ \A u \in Threads \ {t} : tpc'[u] = tpc[u]
        /\ connectors'[fd] = None
        /\ \A f \in Fds \ {fd} : connectors'[f] = connectors[f]
    BY <1>0, <1>2, <1>3 DEF TypeOK
  <1>5. /\ Deleting(fd) /\ ~Deleting(fd)'
        /\ \A f \in Fds \ {fd} : Deleting(f)' = Deleting(f)
    BY <1>a, <1>1, <1>2, <1>4, HashType DEF Deleting
  <1>6. \A f \in Fds : Pending(f)' = Pending(f)
    BY <1>2 DEF Pending
  <1>7. EntryInv'
    BY <1>1, <1>2, <1>4, <1>5, <1>6 DEF EntryInv, MapInv
  <1>8. LockInv'
    BY <1>0, <1>2, <1>4 DEF LockInv, MapInv, TypeOK
  <1>9. ASSUME NEW u \in Threads PROVE ThreadOK(u)'
    <2>1. CASE u = t
      BY <1>a, <1>0, <1>1, <1>2, <1>4, <2>1 DEF ThreadOK
    <2>2. CASE u # t /\ tpc[u] = "loop"
      BY <1>0, <1>2, <1>4, <2>2 DEF ThreadOK
    <2>3. CASE u # t /\ tpc[u] # "loop"
      <3>1. event[u].fd \in Fds \ {fd}
        BY <1>0, <1>1, <2>3 DEF ThreadOK, TypeOK
      <3>. QED BY <1>0, <1>2, <1>4, <2>3, <3>1 DEF ThreadOK
    <2>. QED BY <2>1, <2>2, <2>3
  <1>. QED BY <1>7, <1>8, <1>9, ThreadParts DEF OwnFds, HeldInv, ThreadOK

\* The listen thread touches the entry of a new connection only, and only when
\* no deletion of its descriptor's last entry is under way.
LEMMA ListenStep ==
    ASSUME MapInv, ListenThread
    PROVE  EntryInv' /\ LockInv' /\ OwnFds' /\ HeldInv'
  <1>0. TypeOK /\ \A u \in Threads : ThreadOK(u)
    BY ThreadParts DEF MapInv
  <1>1. UNCHANGED <<mutex, tpc, batch, event, tread, tconn>>
    BY DEF ListenThread, AcceptConnection, AddToEpoll, InsertConnector, found
  <1>2. \A f \in Fds : Deleting(f)' = Deleting(f)
    BY <1>1 DEF Deleting
  <1>3. LockInv'
    BY <1>1 DEF LockInv, MapInv
  <1>4. CASE AcceptConnection
    <2>1. Head(backlog) \in Conns
      BY <1>0, <1>4, HeadTailProperties DEF AcceptConnection, TypeOK
    <2>2. PICK fd \in FreeFds : /\ owner' = [owner EXCEPT ![fd] = Head(backlog)]
                                /\ lfd' = fd
      BY <1>4 DEF AcceptConnection
    <2>3. /\ fd \in Fds /\ owner[fd] = None /\ owner'[fd] # None
          /\ \A f \in Fds \ {fd} : owner'[f] = owner[f]
      BY <1>0, <2>1, <2>2, NoneAssumption DEF FreeFds, TypeOK
    <2>4. /\ \A f \in Fds : ~Pending(f)
          /\ Pending(fd)' /\ \A f \in Fds \ {fd} : ~Pending(f)'
      BY <1>4, <2>2 DEF AcceptConnection, Pending
    <2>5. UNCHANGED connectors
      BY <1>4 DEF AcceptConnection
    <2>6. EntryInv'
      BY <1>2, <2>3, <2>4, <2>5 DEF EntryInv, MapInv
    <2>7. \A u \in Threads : ThreadOK(u)'
      BY <1>0, <1>1, <2>5 DEF ThreadOK
    <2>. QED BY <1>3, <2>6, <2>7, ThreadParts DEF OwnFds, HeldInv, ThreadOK
  <1>5. CASE AddToEpoll
    <2>1. UNCHANGED <<connectors, owner>> /\ \A f \in Fds : Pending(f)' = Pending(f)
      BY <1>5 DEF AddToEpoll, Pending
    <2>2. EntryInv'
      BY <1>2, <2>1 DEF EntryInv, MapInv
    <2>3. \A u \in Threads : ThreadOK(u)'
      BY <1>0, <1>1, <2>1 DEF ThreadOK
    <2>. QED BY <1>3, <2>2, <2>3, ThreadParts DEF OwnFds, HeldInv, ThreadOK
  <1>6. CASE InsertConnector
    <2>1. /\ lfd \in Fds /\ Pending(lfd) /\ UNCHANGED owner
          /\ ~mutex[hash_index(lfd, ThreadNum)]
          /\ \A f \in Fds : ~Pending(f)'
          /\ \A f \in Fds \ {lfd} : ~Pending(f)
      BY <1>0, <1>6 DEF InsertConnector, Unlocked, Pending, TypeOK
    <2>2. ~Deleting(lfd)
      BY <2>1, HashType DEF Deleting, MapInv, LockInv
    <2>3. connectors[lfd] = None
      BY <2>1, <2>2 DEF MapInv, EntryInv
    <2>4. /\ connectors'[lfd] = owner[lfd]
          /\ \A f \in Fds \ {lfd} : connectors'[f] = connectors[f]
      BY <1>0, <1>6, <2>1 DEF InsertConnector, TypeOK
    <2>5. EntryInv'
      BY <1>2, <2>1, <2>2, <2>4 DEF EntryInv, MapInv
    <2>6. ASSUME NEW u \in Threads PROVE ThreadOK(u)'
      <3>1. tpc[u] \in {"recv", "close", "erase", "exec", "send"} =>
               connectors'[event[u].fd] = connectors[event[u].fd]
        BY <1>0, <2>3, <2>4 DEF ThreadOK, TypeOK
      <3>. QED BY <1>0, <1>1, <3>1 DEF ThreadOK
    <2>. QED BY <1>3, <2>5, <2>6, ThreadParts DEF OwnFds, HeldInv, ThreadOK
  <1>. QED BY <1>4, <1>5, <1>6 DEF ListenThread

\* The invariant holds before the first connection.
LEMMA InitMap == Init => MapInv
  <1> SUFFICES ASSUME Init PROVE MapInv
    OBVIOUS
  <1>1. AnyFd \in Fds
    BY FdsAssumption DEF AnyFd
  <1>2. TypeOK
    <2>1. /\ backlog \in Seq(Conns)
          /\ batch \in [Threads -> SUBSET [fd : Fds, in : BOOLEAN]]
          /\ event \in [Threads -> [fd : Fds, in : BOOLEAN]]
      BY <1>1 DEF Init
    <2>2. /\ mutex \in [Threads -> BOOLEAN] /\ crashed \in BOOLEAN
          /\ lpc \in {"accept", "add", "insert"} /\ tpc \in [Threads -> TPCs]
      BY DEF Init, TPCs
    <2>3. /\ peer \in [Conns -> {"none", "up", "closed", "reset"}]
          /\ req \in [Conns -> {"none", "sent", "fed", "reply"}]
          /\ asked \in [Conns -> Nat]
      BY DEF Init
    <2>4. /\ owner \in [Fds -> Conns \cup {None}]
          /\ connectors \in [Fds -> Conns \cup {None}]
          /\ tread \in [Threads -> Conns \cup {None}]
          /\ tconn \in [Threads -> Conns \cup {None}]
      BY DEF Init
    <2>. QED BY <1>1, <2>1, <2>2, <2>3, <2>4 DEF Init, TypeOK
  <1>3. LockInv /\ OwnFds /\ HeldInv
    BY DEF Init, LockInv, OwnFds, HeldInv
  <1>4. EntryInv
    <2>1. \A fd \in Fds : ~Deleting(fd) /\ ~Pending(fd)
      BY HashType DEF Init, Deleting, Pending
    <2>. QED BY <2>1 DEF Init, EntryInv
  <1>. QED BY <1>2, <1>3, <1>4 DEF MapInv

\* Every step keeps the invariant.
LEMMA MapStep == MapInv /\ [Next]_vars => MapInv'
  <1> SUFFICES ASSUME MapInv, [Next]_vars PROVE MapInv'
    OBVIOUS
  <1>1. ASSUME NEW c \in Conns, Client(c) PROVE MapInv'
    <2>1. UNCHANGED <<owner, connectors, lpc, lfd, mutex, tpc, batch, event,
                      tread, tconn>>
      BY <1>1 DEF Client, Connect, Request, Leave, listen, found
    <2>2. TypeOK'
      BY <1>1, ClientType DEF MapInv
    <2>3. EntryInv' /\ LockInv'
      BY <2>1, SameEntries DEF MapInv
    <2>4. OwnFds' /\ HeldInv'
      BY <2>1 DEF MapInv, OwnFds, HeldInv
    <2>. QED BY <2>2, <2>3, <2>4 DEF MapInv
  <1>2. CASE ListenThread
    BY <1>2, ListenType, ListenStep DEF MapInv
  <1>3. ASSUME NEW t \in Threads, MainLoop(t) PROVE MapInv'
    <2>1. TypeOK'
      BY <1>3, ThreadType DEF MapInv
    <2>2. CASE tpc[t] \notin {"close", "erase"}
      BY <1>3, <2>1, <2>2, LocalStep DEF MapInv
    <2>3. CASE DeleteClose(t)
      BY <2>1, <2>3, CloseStep DEF MapInv
    <2>4. CASE DeleteErase(t)
      BY <2>1, <2>4, EraseStep DEF MapInv
    <2>5. tpc[t] \in {"close", "erase"} => DeleteClose(t) \/ DeleteErase(t)
      BY <1>3 DEF MainLoop, EpollWait, TakeEvent, ReadLookup, ExecRead,
                  ParseLookup, ExecParse, WriteLookup, ExecWrite, At
    <2>. QED BY <2>2, <2>3, <2>4, <2>5
  <1>4. CASE UNCHANGED vars
    <2>1. TypeOK'
      BY <1>4 DEF vars, client, listen, found, MapInv, TypeOK
    <2>2. UNCHANGED <<owner, connectors, lpc, lfd, mutex, tpc, batch, event,
                      tread, tconn>>
      BY <1>4 DEF vars, listen, found
    <2>3. EntryInv' /\ LockInv'
      BY <2>2, SameEntries DEF MapInv
    <2>4. OwnFds' /\ HeldInv'
      BY <2>2 DEF MapInv, OwnFds, HeldInv
    <2>. QED BY <2>1, <2>3, <2>4 DEF MapInv
  <1>. QED BY <1>1, <1>2, <1>3, <1>4 DEF Next

LEMMA AlwaysMap == Spec => []MapInv
  <1>1. Init => MapInv
    BY InitMap
  <1>2. MapInv /\ [Next]_vars => MapInv'
    BY MapStep
  <1>. QED BY <1>1, <1>2, PTL DEF Spec

\* The queues, maps and locals of the listen thread and of any number of
\* connector threads keep their types.
THEOREM ThreadTypes == Spec => []TypeOK
  <1>1. MapInv => TypeOK
    BY DEF MapInv
  <1>. QED BY <1>1, AlwaysMap, PTL

\* A descriptor's connector is that of the connection that owns it, however soon
\* the descriptor is handed out again.
THEOREM MapSafety == Spec => []MapFaithful
  <1>1. MapInv => MapFaithful
    BY DEF MapInv, EntryInv, MapFaithful
  <1>. QED BY <1>1, AlwaysMap, PTL

\* A connector in use outside the lock stays in its map, however accepts, reads
\* and deletions interleave.
THEOREM HolderSafety == Spec => []NoDanglingConnector
  <1>1. MapInv => NoDanglingConnector
    BY DEF MapInv, HeldInv, NoDanglingConnector
  <1>. QED BY <1>1, AlwaysMap, PTL
================================================================================
