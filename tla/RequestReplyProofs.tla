--------------------------- MODULE RequestReplyProofs --------------------------
(***************************************************************************)
(* The threads of the TCP server implement RequestReply, for every number  *)
(* of connector threads, descriptors and connections: a connection is      *)
(* received from, executed, answered and dropped as one sequential server  *)
(* would.  ConnectorThreadProofs has the agreement of the descriptors with *)
(* the map of connectors; this module adds what the events a thread has    *)
(* not handled yet still say of their connections.                         *)
(***************************************************************************)
EXTENDS ConnectorThreadProofs

\* A connection waits for accept.
Waits(c) == \E i \in DOMAIN backlog : backlog[i] = c

\* A connection waits for accept once, or has one descriptor, or neither, and
\* its client has connected; epoll watches open descriptors only.
PlaceInv ==
    /\ \A i, j \in DOMAIN backlog : backlog[i] = backlog[j] => i = j
    /\ \A c \in Conns : Waits(c) => /\ peer[c] # "none"
                                    /\ \A fd \in Fds : owner[fd] # c
    /\ \A fd \in Fds : owner[fd] # None => peer[owner[fd]] # "none"
    /\ \A f, g \in Fds : owner[f] = owner[g] /\ owner[f] # None => f = g
    /\ \A fd \in epoll : owner[fd] # None

\* What an event still says when thread t comes to it: the descriptor is open
\* and, for EPOLLIN, recv will not block; what t knows of the connector it has
\* received from, and of the one it deletes.
EventOK(t) ==
    LET fd == event[t].fd
    IN  /\ \A e \in batch[t] : /\ owner[e.fd] # None
                               /\ e.in => Readable(owner[e.fd])
        /\ \A e, g \in batch[t] : e.fd = g.fd => e = g
        /\ tpc[t] # "loop" => \A e \in batch[t] : e.fd # fd
        /\ tpc[t] = "read" => owner[fd] # None /\ Readable(owner[fd])
        /\ tpc[t] = "recv" => Readable(tread[t])
        /\ tpc[t] = "close" => peer[connectors[fd]] # "up"
        /\ tpc[t] = "erase" /\ event[t].in => tread[t] \in Closed
        /\ tpc[t] \in {"parse", "exec"} /\ tread[t] # None =>
                \/ tread[t] \in Closed
                \/ req[tread[t]] = "fed" /\ owner[fd] = tread[t]

\* The inductive invariant.
ServeInv == MapInv /\ PlaceInv /\ \A t \in Threads : EventOK(t)

\* A connector that a thread works on outside the lock is that of an open
\* connection, the one its event's descriptor belongs to.
LEMMA HeldOwner ==
    ASSUME MapInv, NEW t \in Threads, tpc[t] \in {"recv", "close", "exec", "send"}
    PROVE  /\ event[t].fd \in Fds /\ hash_index(event[t].fd, ThreadNum) = t
           /\ owner[event[t].fd] = connectors[event[t].fd]
           /\ owner[event[t].fd] # None /\ owner[event[t].fd] \in Conns
  <1>1. event[t].fd \in Fds /\ hash_index(event[t].fd, ThreadNum) = t
    BY DEF MapInv, TypeOK, OwnFds
  <1>2. connectors[event[t].fd] # None
    BY DEF MapInv, HeldInv
  <1>3. ~Deleting(event[t].fd)
    BY <1>1 DEF Deleting
  <1>4. owner[event[t].fd] = connectors[event[t].fd]
    BY <1>1, <1>2, <1>3 DEF MapInv, EntryInv
  <1>5. owner[event[t].fd] \in Conns \cup {None}
    BY <1>1 DEF MapInv, TypeOK
  <1>. QED BY <1>1, <1>2, <1>4, <1>5

\* The backlog after a connection has joined it.
LEMMA JoinBacklog ==
    ASSUME TypeOK, NEW c \in Conns, backlog' = Append(backlog, c)
    PROVE  /\ \A d \in Conns : Waits(d)' <=> Waits(d) \/ d = c
           /\ ~Waits(c) /\ (\A i, j \in DOMAIN backlog :
                                backlog[i] = backlog[j] => i = j) =>
                \A i, j \in DOMAIN backlog' : backlog'[i] = backlog'[j] => i = j
  <1>1. /\ backlog \in Seq(Conns) /\ DOMAIN backlog = 1..Len(backlog)
        /\ Len(backlog) \in Nat
    BY DEF TypeOK
  <1>2. /\ backlog' \in Seq(Conns) /\ Len(backlog') = Len(backlog) + 1
        /\ \A i \in 1..Len(backlog) : backlog'[i] = backlog[i]
        /\ backlog'[Len(backlog) + 1] = c
    BY <1>1, AppendProperties
  <1>3. DOMAIN backlog' = 1..(Len(backlog) + 1)
    BY <1>2
  <1>4. \A d \in Conns : Waits(d)' <=> Waits(d) \/ d = c
    BY <1>1, <1>2, <1>3 DEF Waits
  <1>5. ASSUME ~Waits(c),
               \A i, j \in DOMAIN backlog : backlog[i] = backlog[j] => i = j,
               NEW i \in DOMAIN backlog', NEW j \in DOMAIN backlog',
               backlog'[i] = backlog'[j]
        PROVE  i = j
    BY <1>1, <1>2, <1>3, <1>5 DEF Waits
  <1>. QED BY <1>4, <1>5

\* The backlog after accept has taken its first connection.
LEMMA LeaveBacklog ==
    ASSUME TypeOK, backlog # <<>>, backlog' = Tail(backlog)
    PROVE  /\ Head(backlog) \in Conns /\ Waits(Head(backlog))
           /\ \A d \in Conns : d # Head(backlog) => (Waits(d)' <=> Waits(d))
           /\ (\A i, j \in DOMAIN backlog : backlog[i] = backlog[j] => i = j) =>
                /\ \A i, j \in DOMAIN backlog' : backlog'[i] = backlog'[j] => i = j
                /\ \A d \in Conns : d = Head(backlog) => ~Waits(d)'
  <1>1. /\ backlog \in Seq(Conns) /\ DOMAIN backlog = 1..Len(backlog)
        /\ Len(backlog) \in Nat /\ Len(backlog) > 0
    BY EmptySeq DEF TypeOK
  <1>2. /\ backlog' \in Seq(Conns) /\ Len(backlog') = Len(backlog) - 1
        /\ \A i \in 1..Len(backlog') : backlog'[i] = backlog[i + 1]
        /\ Head(backlog) = backlog[1] /\ Head(backlog) \in Conns
    BY <1>1, HeadTailProperties
  <1>3. DOMAIN backlog' = 1..(Len(backlog) - 1)
    BY <1>2
  <1>4. Waits(Head(backlog))
    BY <1>1, <1>2 DEF Waits
  <1>5. ASSUME NEW d \in Conns, d # Head(backlog) PROVE Waits(d)' <=> Waits(d)
    <2>1. ASSUME Waits(d)' PROVE Waits(d)
      <3>1. PICK i \in DOMAIN backlog' : backlog'[i] = d
        BY <2>1 DEF Waits
      <3>2. i + 1 \in DOMAIN backlog /\ backlog[i + 1] = d
        BY <1>1, <1>2, <1>3, <3>1
      <3>. QED BY <3>2 DEF Waits
    <2>2. ASSUME Waits(d) PROVE Waits(d)'
      <3>1. PICK i \in DOMAIN backlog : backlog[i] = d
        BY <2>2 DEF Waits
      <3>2. i # 1
        BY <1>2, <1>5, <3>1
      <3>3. i - 1 \in DOMAIN backlog'
        BY <1>1, <1>3, <3>1, <3>2
      <3>4. backlog'[i - 1] = backlog[(i - 1) + 1] /\ (i - 1) + 1 = i
        BY <1>1, <1>2, <1>3, <3>1, <3>3
      <3>. QED BY <3>1, <3>3, <3>4 DEF Waits
    <2>. QED BY <2>1, <2>2
  <1>6. ASSUME \A i, j \in DOMAIN backlog : backlog[i] = backlog[j] => i = j
        PROVE  /\ \A i, j \in DOMAIN backlog' : backlog'[i] = backlog'[j] => i = j
               /\ \A d \in Conns : d = Head(backlog) => ~Waits(d)'
    <2>1. ASSUME NEW i \in DOMAIN backlog'
          PROVE  /\ i \in Nat /\ i + 1 \in DOMAIN backlog /\ i + 1 # 1
                 /\ backlog'[i] = backlog[i + 1]
      BY <1>1, <1>2, <1>3
    <2>2. ASSUME NEW i \in DOMAIN backlog', NEW j \in DOMAIN backlog',
                 backlog'[i] = backlog'[j]
          PROVE  i = j
      <3>1. i + 1 = j + 1
        BY <1>6, <2>1, <2>2
      <3>. QED BY <2>1, <3>1
    <2>3. ASSUME NEW i \in DOMAIN backlog' PROVE backlog'[i] # backlog[1]
      <3>1. 1 \in DOMAIN backlog
        BY <1>1
      <3>. QED BY <1>6, <2>1, <3>1
    <2>. QED BY <1>2, <2>2, <2>3 DEF Waits
  <1>. QED BY <1>2, <1>4, <1>5, <1>6

\* The connections the process has closed, in terms of Waits.
LEMMA ClosedIs ==
    Closed = {c \in Conns : /\ peer[c] # "none" /\ ~Waits(c)
                            /\ \A fd \in Fds : owner[fd] # c}
  BY DEF Closed, Open, Waits

\* A client's step keeps every connection in its place and closes none.
LEMMA ClientPlaces ==
    ASSUME MapInv, PlaceInv, NEW c \in Conns, Client(c)
    PROVE  PlaceInv' /\ Closed' = Closed
  <1>0. TypeOK
    BY DEF MapInv
  <1>1. CASE Connect(c)
    <2>1. /\ peer[c] = "none" /\ backlog' = Append(backlog, c)
          /\ peer' = [peer EXCEPT ![c] = "up"] /\ UNCHANGED <<owner, epoll>>
      BY <1>1 DEF Connect
    <2>2. ~Waits(c) /\ \A fd \in Fds : owner[fd] # c
      BY <2>1, NoneAssumption DEF PlaceInv
    <2>3. /\ peer'[c] # "none" /\ \A d \in Conns \ {c} : peer'[d] = peer[d]
          /\ \A d \in Conns : Waits(d)' <=> Waits(d) \/ d = c
          /\ \A i, j \in DOMAIN backlog' : backlog'[i] = backlog'[j] => i = j
      BY <1>0, <2>1, <2>2, JoinBacklog DEF PlaceInv, TypeOK
    <2>4. \A fd \in Fds : owner[fd] \in Conns \cup {None}
      BY <1>0 DEF TypeOK
    <2>5. PlaceInv'
      BY <2>1, <2>2, <2>3, <2>4 DEF PlaceInv
    <2>6. Closed' = {d \in Conns : /\ peer'[d] # "none" /\ ~Waits(d)'
                                   /\ \A fd \in Fds : owner'[fd] # d}
      BY DEF Closed, Open, Waits
    <2>. QED BY <2>1, <2>2, <2>3, <2>5, <2>6, ClosedIs
  <1>2. ASSUME UNCHANGED <<owner, epoll, backlog>>,
               \A d \in Conns : (peer'[d] = "none") = (peer[d] = "none")
        PROVE  PlaceInv' /\ Closed' = Closed
    <2>1. \A d \in Conns : Waits(d)' <=> Waits(d)
      BY <1>2 DEF Waits
    <2>2. \A fd \in Fds : owner[fd] \in Conns \cup {None}
      BY <1>0 DEF TypeOK
    <2>3. PlaceInv'
      BY <1>2, <2>1, <2>2 DEF PlaceInv
    <2>. QED BY <1>2, <2>3 DEF Closed, Open
  <1>3. CASE Request(c)
    BY <1>2, <1>3 DEF Request
  <1>4. ASSUME NEW how \in {"closed", "reset"}, Leave(c, how)
        PROVE  PlaceInv' /\ Closed' = Closed
    <2>1. \A d \in Conns : (peer'[d] = "none") = (peer[d] = "none")
      BY <1>0, <1>4 DEF Leave, TypeOK
    <2>. QED BY <1>2, <1>4, <2>1 DEF Leave
  <1>. QED BY <1>1, <1>3, <1>4 DEF Client

\* So does a step of the listen thread.
LEMMA ListenPlaces ==
    ASSUME MapInv, PlaceInv, ListenThread
    PROVE  PlaceInv' /\ Closed' = Closed
  <1>0. TypeOK
    BY DEF MapInv
  <1>1. CASE AcceptConnection
    <2>1. /\ backlog # <<>> /\ backlog' = Tail(backlog) /\ UNCHANGED <<peer, epoll>>
      BY <1>1 DEF AcceptConnection, client
    <2>2. PICK c \in Conns : c = Head(backlog)
      BY <1>0, <2>1, LeaveBacklog
    <2>3. /\ Waits(c) /\ ~Waits(c)'
          /\ \A d \in Conns \ {c} : Waits(d)' <=> Waits(d)
          /\ \A i, j \in DOMAIN backlog' : backlog'[i] = backlog'[j] => i = j
      BY <1>0, <2>1, <2>2, LeaveBacklog DEF PlaceInv
    <2>4. PICK fd \in FreeFds : owner' = [owner EXCEPT ![fd] = c]
      BY <1>1, <2>2 DEF AcceptConnection
    <2>5. /\ fd \in Fds /\ owner[fd] = None /\ owner'[fd] = c /\ c # None
          /\ \A f \in Fds \ {fd} : owner'[f] = owner[f]
      BY <1>0, <2>4, NoneAssumption DEF FreeFds, TypeOK
    <2>6. peer[c] # "none" /\ \A f \in Fds : owner[f] # c
      BY <2>3 DEF PlaceInv
    <2>7. \A f \in Fds : owner[f] \in Conns \cup {None}
      BY <1>0 DEF TypeOK
    <2>8. PlaceInv'
      <3>1. \A d \in Conns : Waits(d)' => /\ peer'[d] # "none"
                                          /\ \A f \in Fds : owner'[f] # d
        BY <2>1, <2>3, <2>5 DEF PlaceInv
      <3>2. \A f \in Fds : owner'[f] # None => peer'[owner'[f]] # "none"
        BY <2>1, <2>5, <2>6 DEF PlaceInv
      <3>3. \A f, g \in Fds : owner'[f] = owner'[g] /\ owner'[f] # None => f = g
        BY <2>5, <2>6 DEF PlaceInv
      <3>4. \A f \in epoll' : owner'[f] # None
        BY <1>0, <2>1, <2>5 DEF PlaceInv, TypeOK
      <3>. QED BY <2>3, <3>1, <3>2, <3>3, <3>4 DEF PlaceInv
    <2>9. Closed' = {d \in Conns : /\ peer'[d] # "none" /\ ~Waits(d)'
                                   /\ \A f \in Fds : owner'[f] # d}
      BY DEF Closed, Open, Waits
    <2>10. ASSUME NEW d \in Conns PROVE d \in Closed' <=> d \in Closed
      <3>1. CASE d = c
        BY <2>3, <2>5, <2>9, <3>1, ClosedIs
      <3>2. CASE d # c
        <4>1. (\A f \in Fds : owner'[f] # d) <=> (\A f \in Fds : owner[f] # d)
          BY <2>5, <3>2, NoneAssumption
        <4>2. peer'[d] = peer[d] /\ (Waits(d)' <=> Waits(d))
          BY <2>1, <2>3, <3>2
        <4>. QED BY <2>9, <4>1, <4>2, ClosedIs
      <3>. QED BY <3>1, <3>2
    <2>11. Closed \subseteq Conns /\ Closed' \subseteq Conns
      BY <2>9, ClosedIs
    <2>. QED BY <2>8, <2>10, <2>11
  <1>2. ASSUME UNCHANGED <<peer, owner, backlog>>, epoll' \subseteq epoll \cup {lfd},
               lpc # "accept"
        PROVE  PlaceInv' /\ Closed' = Closed
    <2>1. \A d \in Conns : Waits(d)' <=> Waits(d)
      BY <1>2 DEF Waits
    <2>2. owner[lfd] # None
      BY <1>0, <1>2 DEF MapInv, EntryInv, Pending, TypeOK
    <2>3. PlaceInv'
      BY <1>2, <2>1, <2>2 DEF PlaceInv
    <2>. QED BY <1>2, <2>3 DEF Closed, Open
  <1>3. CASE AddToEpoll
    BY <1>2, <1>3 DEF AddToEpoll, client
  <1>4. CASE InsertConnector
    BY <1>2, <1>4 DEF InsertConnector, client
  <1>. QED BY <1>1, <1>3, <1>4 DEF ListenThread

\* A connector thread closes one connection, in delete_connector.
LEMMA ThreadPlaces ==
    ASSUME MapInv, PlaceInv, NEW t \in Threads, MainLoop(t)
    PROVE  /\ PlaceInv'
           /\ ~DeleteClose(t) => Closed' = Closed /\ UNCHANGED <<owner, epoll>>
           /\ DeleteClose(t) =>
                /\ Closed' = Closed \cup {owner[event[t].fd]}
                /\ owner' = [owner EXCEPT ![event[t].fd] = None]
  <1>0. TypeOK
    BY DEF MapInv
  <1>1. ASSUME ~DeleteClose(t)
        PROVE  PlaceInv' /\ Closed' = Closed /\ UNCHANGED <<owner, epoll>>
    <2>1. UNCHANGED <<peer, backlog>>
      BY <1>1 DEF MainLoop, EpollWait, TakeEvent, ReadLookup, ExecRead,
                  ParseLookup, ExecParse, WriteLookup, ExecWrite, DeleteErase,
                  client
    <2>2. UNCHANGED <<owner, epoll>>
      <3>1. CASE DeleteErase(t)
        BY <1>0, <3>1, ClosedOnce
      <3>2. CASE ~DeleteErase(t)
        BY <1>1, <3>2 DEF MainLoop, EpollWait, TakeEvent, ReadLookup, ExecRead,
                          ParseLookup, ExecParse, WriteLookup, ExecWrite
      <3>. QED BY <3>1, <3>2
    <2>3. \A d \in Conns : Waits(d)' <=> Waits(d)
      BY <2>1 DEF Waits
    <2>4. PlaceInv'
      BY <2>1, <2>2, <2>3 DEF PlaceInv
    <2>. QED BY <2>1, <2>2, <2>4 DEF Closed, Open
  <1>2. ASSUME DeleteClose(t)
        PROVE  /\ PlaceInv'
               /\ Closed' = Closed \cup {owner[event[t].fd]}
               /\ owner' = [owner EXCEPT ![event[t].fd] = None]
    <2>1. tpc[t] = "close"
      BY <1>2 DEF DeleteClose, At
    <2>2. PICK fd \in Fds : fd = event[t].fd
      BY <1>0 DEF TypeOK
    <2>3. PICK c \in Conns : c = owner[fd]
      BY <2>1, <2>2, HeldOwner
    <2>4. c # None /\ connectors[fd] = c
      BY <2>1, <2>2, <2>3, HeldOwner
    <2>5. /\ owner' = [owner EXCEPT ![fd] = None] /\ epoll' = epoll \ {fd}
          /\ UNCHANGED <<peer, backlog>>
      BY <1>2, <2>2, <2>4 DEF DeleteClose, client
    <2>6. /\ owner'[fd] = None /\ \A f \in Fds \ {fd} : owner'[f] = owner[f]
          /\ \A d \in Conns : Waits(d)' <=> Waits(d)
      BY <1>0, <2>5 DEF TypeOK, Waits
    <2>7. /\ peer[c] # "none" /\ ~Waits(c)
          /\ \A f \in Fds : owner[f] = c => f = fd
      BY <2>3, <2>4 DEF PlaceInv
    <2>8. PlaceInv'
      <3>1. \A d \in Conns : Waits(d)' => /\ peer'[d] # "none"
                                          /\ \A f \in Fds : owner'[f] # d
        BY <2>5, <2>6, NoneAssumption DEF PlaceInv
      <3>2. \A f \in Fds : owner'[f] # None => peer'[owner'[f]] # "none"
        BY <2>5, <2>6 DEF PlaceInv
      <3>3. \A f, g \in Fds : owner'[f] = owner'[g] /\ owner'[f] # None => f = g
        BY <2>6 DEF PlaceInv
      <3>4. \A f \in epoll' : owner'[f] # None
        BY <1>0, <2>5, <2>6 DEF PlaceInv, TypeOK
      <3>. QED BY <2>5, <3>1, <3>2, <3>3, <3>4 DEF PlaceInv
    <2>9. Closed' = {d \in Conns : /\ peer'[d] # "none" /\ ~Waits(d)'
                                   /\ \A f \in Fds : owner'[f] # d}
      BY DEF Closed, Open, Waits
    <2>10. ASSUME NEW d \in Conns PROVE d \in Closed' <=> d \in Closed \/ d = c
      <3>1. CASE d = c
        BY <2>4, <2>5, <2>6, <2>7, <2>9, <3>1
      <3>2. CASE d # c
        <4>1. (\A f \in Fds : owner'[f] # d) <=> (\A f \in Fds : owner[f] # d)
          BY <2>3, <2>6, <3>2, NoneAssumption
        <4>. QED BY <2>5, <2>6, <2>9, <3>2, <4>1, ClosedIs
      <3>. QED BY <3>1, <3>2
    <2>11. Closed \subseteq Conns /\ Closed' \subseteq Conns
      BY <2>9, ClosedIs
    <2>12. Closed' = Closed \cup {c}
      BY <2>10, <2>11
    <2>. QED BY <2>2, <2>3, <2>5, <2>8, <2>12
  <1>. QED BY <1>1, <1>2

\* What a step must leave alone for the events of a thread u that does not take
\* it to keep their meaning: u's own state, the descriptors u serves while they
\* are open, and what u can tell of their connections.
LEMMA OtherEvents ==
    ASSUME ServeInv, NEW u \in Threads,
           /\ tpc'[u] = tpc[u] /\ event'[u] = event[u] /\ batch'[u] = batch[u]
           /\ tread'[u] = tread[u],
           \A fd \in Fds : hash_index(fd, ThreadNum) = u =>
                /\ owner[fd] # None => owner'[fd] = owner[fd]
                /\ connectors[fd] # None => connectors'[fd] = connectors[fd],
           \A fd \in Fds : hash_index(fd, ThreadNum) = u /\ owner[fd] # None =>
                /\ Readable(owner[fd]) => req'[owner[fd]] = "sent" \/ peer'[owner[fd]] # "up"
                /\ req[owner[fd]] = "fed" => req'[owner[fd]] = "fed"
                /\ peer[owner[fd]] # "up" => peer'[owner[fd]] # "up",
           Closed \subseteq Closed'
    PROVE  EventOK(u)'
  <1>0. MapInv /\ TypeOK /\ EventOK(u)
    BY DEF ServeInv, MapInv
  <1>1. ASSUME NEW e \in batch[u]
        PROVE  /\ owner'[e.fd] # None
               /\ e.in => Readable(owner[e.fd])'
    <2>1. e.fd \in Fds /\ hash_index(e.fd, ThreadNum) = u
      BY <1>0 DEF TypeOK, MapInv, OwnFds
    <2>2. owner[e.fd] # None /\ (e.in => Readable(owner[e.fd]))
      BY <1>0 DEF EventOK
    <2>. QED BY <2>1, <2>2 DEF Readable
  <1>2. event[u].fd \in Fds /\ (tpc[u] # "loop" =>
                                   hash_index(event[u].fd, ThreadNum) = u)
    BY <1>0 DEF TypeOK, MapInv, OwnFds
  <1>3. tpc[u] = "read" => /\ owner'[event[u].fd] # None
                           /\ Readable(owner[event[u].fd])'
    <2>1. CASE tpc[u] = "read"
      <3>1. owner[event[u].fd] # None /\ Readable(owner[event[u].fd])
        BY <1>0, <2>1 DEF EventOK
      <3>. QED BY <1>2, <2>1, <3>1 DEF Readable
    <2>. QED BY <2>1
  <1>4. tpc[u] = "recv" => Readable(tread[u])'
    <2>1. CASE tpc[u] = "recv"
      <3>1. /\ owner[event[u].fd] = tread[u] /\ owner[event[u].fd] # None
            /\ Readable(tread[u])
        BY <1>0, <2>1, HeldOwner DEF EventOK, MapInv, HeldInv
      <3>. QED BY <1>2, <2>1, <3>1 DEF Readable
    <2>. QED BY <2>1
  <1>5. tpc[u] = "close" => peer'[connectors'[event[u].fd]] # "up"
    <2>1. CASE tpc[u] = "close"
      <3>1. /\ owner[event[u].fd] = connectors[event[u].fd]
            /\ owner[event[u].fd] # None
            /\ peer[connectors[event[u].fd]] # "up"
        BY <1>0, <2>1, HeldOwner DEF EventOK
      <3>. QED BY <1>2, <2>1, <3>1
    <2>. QED BY <2>1
  <1>6. tpc[u] = "erase" /\ event[u].in => tread[u] \in Closed'
    BY <1>0 DEF EventOK
  <1>7. tpc[u] \in {"parse", "exec"} /\ tread[u] # None =>
            \/ tread[u] \in Closed'
            \/ req'[tread[u]] = "fed" /\ owner'[event[u].fd] = tread[u]
    BY <1>0, <1>2 DEF EventOK
  <1>. QED BY <1>0, <1>1, <1>3, <1>4, <1>5, <1>6, <1>7 DEF EventOK

\* A connector thread works on the connection of its event only.
LEMMA ThreadTouches ==
    ASSUME ServeInv, NEW t \in Threads, MainLoop(t)
    PROVE  /\ UNCHANGED peer
           /\ \A u \in Threads \ {t} :
                /\ tpc'[u] = tpc[u] /\ event'[u] = event[u]
                /\ batch'[u] = batch[u] /\ tread'[u] = tread[u]
           /\ \A fd \in Fds \ {event[t].fd} :
                owner'[fd] = owner[fd] /\ connectors'[fd] = connectors[fd]
           /\ \A c \in Conns : c # owner[event[t].fd] => req'[c] = req[c]
           /\ tpc[t] = "loop" => UNCHANGED <<owner, connectors, req>>
  <1> USE DEF At, client, listen, found
  <1>0. TypeOK /\ MapInv
    BY DEF ServeInv, MapInv
  <1>1. CASE EpollWait(t)
    BY <1>0, <1>1 DEF EpollWait, TypeOK
  <1>2. CASE TakeEvent(t)
    BY <1>0, <1>2 DEF TakeEvent, TypeOK
  <1>3. CASE ReadLookup(t)
    BY <1>0, <1>3 DEF ReadLookup, TypeOK
  <1>4. CASE ExecRead(t)
    <2>1. tread[t] = owner[event[t].fd] /\ tpc[t] = "recv"
      BY <1>0, <1>4, HeldOwner DEF ExecRead, MapInv, HeldInv
    <2>. QED BY <1>0, <1>4, <2>1 DEF ExecRead, TypeOK
  <1>5. CASE ParseLookup(t)
    BY <1>0, <1>5 DEF ParseLookup, TypeOK
  <1>6. CASE ExecParse(t)
    <2>1. tconn[t] = owner[event[t].fd] /\ tpc[t] = "exec"
      BY <1>0, <1>6, HeldOwner DEF ExecParse, MapInv, HeldInv
    <2>. QED BY <1>0, <1>6, <2>1 DEF ExecParse, TypeOK
  <1>7. CASE WriteLookup(t)
    BY <1>0, <1>7 DEF WriteLookup, TypeOK
  <1>8. CASE ExecWrite(t)
    <2>1. tconn[t] = owner[event[t].fd] /\ tpc[t] = "send"
      BY <1>0, <1>8, HeldOwner DEF ExecWrite, MapInv, HeldInv
    <2>. QED BY <1>0, <1>8, <2>1 DEF ExecWrite, TypeOK
  <1>9. CASE DeleteClose(t)
    BY <1>0, <1>9 DEF DeleteClose, TypeOK
  <1>10. CASE DeleteErase(t)
    <2>1. UNCHANGED owner
      BY <1>0, <1>10, ClosedOnce
    <2>. QED BY <1>0, <1>10, <2>1 DEF DeleteErase, TypeOK
  <1>. QED BY <1>1, <1>2, <1>3, <1>4, <1>5, <1>6, <1>7, <1>8, <1>9, <1>10
           DEF MainLoop

\* The events still in the batch of a thread keep their meaning while it
\* handles another one.
LEMMA BatchKept ==
    ASSUME ServeInv, NEW t \in Threads, MainLoop(t), NEW e \in batch[t],
           tpc[t] # "loop"
    PROVE  /\ e.fd # event[t].fd
           /\ owner'[e.fd] # None
           /\ e.in => Readable(owner[e.fd])'
  <1>1. TypeOK /\ EventOK(t) /\ PlaceInv
    BY DEF ServeInv, MapInv
  <1>2. e.fd \in Fds /\ event[t].fd \in Fds /\ e.fd # event[t].fd
    BY <1>1 DEF TypeOK, EventOK
  <1>3. owner[e.fd] # None /\ (e.in => Readable(owner[e.fd]))
    BY <1>1 DEF EventOK
  <1>4. owner[e.fd] \in Conns
    BY <1>1, <1>2, <1>3 DEF TypeOK
  <1>5. owner[e.fd] # owner[event[t].fd]
    BY <1>1, <1>2, <1>3 DEF PlaceInv
  <1>6. owner'[e.fd] = owner[e.fd] /\ req'[owner[e.fd]] = req[owner[e.fd]]
        /\ UNCHANGED peer
    BY <1>2, <1>4, <1>5, ThreadTouches
  <1>. QED BY <1>2, <1>3, <1>6 DEF Readable

\* A step of thread t keeps the meaning of its own events.
LEMMA OwnEvents ==
    ASSUME ServeInv, NEW t \in Threads, MainLoop(t)
    PROVE  EventOK(t)'
  <1> USE DEF At, client, listen, found
  <1>0. TypeOK /\ MapInv /\ EventOK(t) /\ PlaceInv
    BY DEF ServeInv, MapInv
  <1>. DEFINE fd == event[t].fd
  <1>a. fd \in Fds
    BY <1>0 DEF TypeOK
  <1>b. ASSUME tpc[t] # "loop", batch'[t] = batch[t], event'[t] = event[t]
        PROVE  /\ \A e \in batch'[t] : /\ (owner[e.fd] # None)'
                                       /\ e.in => Readable(owner[e.fd])'
               /\ \A e, g \in batch'[t] : e.fd = g.fd => e = g
               /\ \A e \in batch'[t] : e.fd # event'[t].fd
    <2>1. ASSUME NEW e \in batch[t]
          PROVE  /\ e.fd # event[t].fd /\ owner'[e.fd] # None
                 /\ e.in => Readable(owner[e.fd])'
      BY <1>b, BatchKept
    <2>2. \A e, g \in batch[t] : e.fd = g.fd => e = g
      BY <1>0 DEF EventOK
    <2>. QED BY <1>b, <2>1, <2>2
  <1>1. CASE EpollWait(t)
    <2>1. /\ tpc'[t] = "loop" /\ UNCHANGED <<owner, req, peer>>
          /\ batch'[t] = {Event(f) : f \in Watched(t)}
      BY <1>0, <1>1 DEF EpollWait, TypeOK
    <2>2. \A f \in Watched(t) : owner[f] # None
      BY <1>0 DEF Watched, PlaceInv
    <2>3. ASSUME NEW e \in batch'[t]
          PROVE  /\ owner'[e.fd] # None
                 /\ e.in => Readable(owner[e.fd])'
                 /\ e = Event(e.fd)
      <3>1. PICK f \in Watched(t) : e = Event(f)
        BY <2>1
      <3>2. e.fd = f /\ e.in = Readable(owner[f])
        BY <3>1 DEF Event
      <3>. QED BY <2>1, <2>2, <3>1, <3>2 DEF Readable
    <2>4. \A e, g \in batch'[t] : e.fd = g.fd => e = g
      BY <2>3
    <2>. QED BY <2>1, <2>3, <2>4 DEF EventOK
  <1>2. CASE TakeEvent(t)
    <2>1. PICK e \in batch[t] :
             /\ batch' = [batch EXCEPT ![t] = @ \ {e}]
             /\ event' = [event EXCEPT ![t] = e]
             /\ tpc' = [tpc EXCEPT ![t] = IF e.in THEN "read" ELSE "write"]
      BY <1>2 DEF TakeEvent
    <2>2. /\ batch'[t] = batch[t] \ {e} /\ event'[t] = e
          /\ tpc'[t] = IF e.in THEN "read" ELSE "write"
          /\ UNCHANGED <<owner, req, peer>>
      BY <1>0, <1>2, <2>1 DEF TakeEvent, TypeOK
    <2>3. ASSUME NEW g \in batch'[t]
          PROVE  /\ g \in batch[t] /\ g.fd # e.fd
                 /\ owner'[g.fd] # None /\ (g.in => Readable(owner[g.fd])')
      BY <1>0, <2>2 DEF EventOK, Readable
    <2>4. owner'[e.fd] # None /\ (e.in => Readable(owner[e.fd])')
      BY <1>0, <2>2 DEF EventOK, Readable
    <2>5. \A g, h \in batch'[t] : g.fd = h.fd => g = h
      BY <1>0, <2>2 DEF EventOK
    <2>. QED BY <2>2, <2>3, <2>4, <2>5 DEF EventOK
  <1>3. CASE ReadLookup(t)
    <2>1. /\ UNCHANGED <<owner, req, peer, connectors>>
          /\ batch'[t] = batch[t] /\ event'[t] = event[t]
          /\ tpc[t] = "read" /\ tread'[t] = connectors[fd]
          /\ tpc'[t] = IF connectors[fd] = None THEN "parse" ELSE "recv"
      BY <1>0, <1>3 DEF ReadLookup, TypeOK
    <2>2. Readable(owner[fd]) /\ hash_index(fd, ThreadNum) = t
      BY <1>0, <2>1 DEF EventOK, MapInv, OwnFds
    <2>3. connectors[fd] # None => connectors[fd] = owner[fd]
      <3>1. ~Deleting(fd)
        BY <2>1, <2>2 DEF Deleting
      <3>. QED BY <1>0, <1>a, <3>1 DEF MapInv, EntryInv
    <2>4. tpc'[t] = "recv" => Readable(tread[t])'
      BY <2>1, <2>2, <2>3 DEF Readable
    <2>. QED BY <1>b, <2>1, <2>4 DEF EventOK
  <1>4. CASE ExecRead(t)
    <2>1. /\ UNCHANGED <<owner, peer, connectors>>
          /\ batch'[t] = batch[t] /\ event'[t] = event[t]
          /\ tpc[t] = "recv" /\ tread'[t] = tread[t]
          /\ IF req[tread[t]] = "sent"
             THEN req' = [req EXCEPT ![tread[t]] = "fed"] /\ tpc'[t] = "parse"
             ELSE tpc'[t] = "close"
      BY <1>0, <1>4 DEF ExecRead, TypeOK
    <2>2. /\ tread[t] = owner[fd] /\ tread[t] = connectors[fd]
          /\ tread[t] \in Conns /\ Readable(tread[t])
      BY <1>0, <2>1, HeldOwner DEF EventOK, MapInv, HeldInv
    <2>3. tpc'[t] = "parse" => req'[tread[t]] = "fed" /\ owner'[fd] = tread[t]
      BY <1>0, <2>1, <2>2 DEF TypeOK
    <2>4. tpc'[t] = "close" => peer[connectors[fd]] # "up"
      BY <2>1, <2>2 DEF Readable
    <2>. QED BY <1>b, <2>1, <2>3, <2>4 DEF EventOK
  <1>5. CASE ParseLookup(t)
    <2>1. /\ UNCHANGED <<owner, req, peer, backlog>>
          /\ batch'[t] = batch[t] /\ event'[t] = event[t]
          /\ tpc[t] = "parse" /\ tread'[t] = tread[t]
          /\ tpc'[t] \in {"loop", "exec"}
      BY <1>0, <1>5 DEF ParseLookup, TypeOK
    <2>2. Closed' = Closed
      BY <2>1 DEF Closed, Open
    <2>3. tpc'[t] = "exec" /\ tread'[t] # None =>
             \/ tread'[t] \in Closed'
             \/ req'[tread'[t]] = "fed" /\ owner'[fd] = tread'[t]
      BY <1>0, <2>1, <2>2 DEF EventOK
    <2>. QED BY <1>b, <2>1, <2>3 DEF EventOK
  <1>6. CASE ExecParse(t) \/ WriteLookup(t)
    <2>1. /\ batch'[t] = batch[t] /\ event'[t] = event[t]
          /\ tpc[t] # "loop" /\ tpc'[t] \in {"loop", "send"}
      BY <1>0, <1>6 DEF ExecParse, WriteLookup, TypeOK
    <2>. QED BY <1>b, <2>1 DEF EventOK
  <1>7. CASE ExecWrite(t)
    <2>1. /\ batch'[t] = batch[t] /\ event'[t] = event[t]
          /\ UNCHANGED <<peer, connectors>>
          /\ tpc[t] = "send" /\ tpc'[t] \in {"loop", "close"}
          /\ tpc'[t] = "close" => peer[tconn[t]] = "reset"
      BY <1>0, <1>7 DEF ExecWrite, TypeOK
    <2>2. tconn[t] = connectors[fd]
      BY <1>0, <2>1 DEF MapInv, HeldInv
    <2>. QED BY <1>b, <2>1, <2>2 DEF EventOK
  <1>8. CASE DeleteClose(t)
    <2>1. tpc[t] = "close" /\ connectors[fd] # None
      BY <1>0, <1>8 DEF DeleteClose, MapInv, HeldInv
    <2>2. /\ batch'[t] = batch[t] /\ event'[t] = event[t]
          /\ tpc'[t] = "erase" /\ tread'[t] = tread[t]
      BY <1>0, <1>8, <2>1 DEF DeleteClose, TypeOK
    <2>3. event[t].in => tread[t] \in Closed'
      <3>1. Closed' = Closed \cup {owner[fd]}
        BY <1>0, <1>8, ThreadPlaces
      <3>2. event[t].in => tread[t] = owner[fd]
        BY <1>0, <2>1, HeldOwner DEF MapInv, HeldInv
      <3>. QED BY <3>1, <3>2
    <2>. QED BY <1>b, <2>1, <2>2, <2>3 DEF EventOK
  <1>9. CASE DeleteErase(t)
    <2>1. /\ batch'[t] = batch[t] /\ event'[t] = event[t]
          /\ tpc[t] = "erase" /\ tread'[t] = tread[t]
          /\ tpc'[t] = IF event[t].in THEN "parse" ELSE "loop"
          /\ UNCHANGED <<peer, backlog>>
      BY <1>0, <1>9 DEF DeleteErase, AfterDelete, TypeOK
    <2>2. UNCHANGED owner
      BY <1>0, <1>9, ClosedOnce
    <2>3. Closed' = Closed
      BY <2>1, <2>2 DEF Closed, Open
    <2>4. tpc'[t] = "parse" => tread'[t] \in Closed'
      BY <1>0, <2>1, <2>3 DEF EventOK
    <2>. QED BY <1>b, <2>1, <2>4 DEF EventOK
  <1>. QED BY <1>1, <1>2, <1>3, <1>4, <1>5, <1>6, <1>7, <1>8, <1>9 DEF MainLoop

\* The invariant holds before the first connection.
LEMMA InitServe == Init => ServeInv
  <1> SUFFICES ASSUME Init PROVE ServeInv
    OBVIOUS
  <1>1. MapInv
    BY InitMap
  <1>2. PlaceInv
    BY DEF Init, PlaceInv, Waits
  <1>3. \A t \in Threads : EventOK(t)
    BY DEF Init, EventOK
  <1>. QED BY <1>1, <1>2, <1>3 DEF ServeInv

\* Every step keeps the invariant.
LEMMA ServeStep == ServeInv /\ [Next]_vars => ServeInv'
  <1> SUFFICES ASSUME ServeInv, [Next]_vars PROVE ServeInv'
    OBVIOUS
  <1>0. MapInv /\ TypeOK /\ PlaceInv /\ MapInv'
    BY MapStep DEF ServeInv, MapInv
  <1>1. ASSUME NEW c \in Conns, Client(c)
        PROVE  PlaceInv' /\ \A u \in Threads : EventOK(u)'
    <2>1. UNCHANGED <<owner, connectors, tpc, batch, event, tread>>
      BY <1>1 DEF Client, Connect, Request, Leave, found
    <2>2. PlaceInv' /\ Closed' = Closed
      BY <1>0, <1>1, ClientPlaces
    <2>3. ASSUME NEW d \in Conns, peer[d] # "none"
          PROVE  /\ Readable(d) => req'[d] = "sent" \/ peer'[d] # "up"
                 /\ req[d] = "fed" => req'[d] = "fed"
                 /\ peer[d] # "up" => peer'[d] # "up"
      <3>1. CASE Connect(c)
        BY <1>0, <2>3, <3>1 DEF Connect, Readable, TypeOK
      <3>2. CASE Request(c)
        BY <1>0, <3>2 DEF Request, Readable, TypeOK
      <3>3. ASSUME NEW how \in {"closed", "reset"}, Leave(c, how)
            PROVE  /\ Readable(d) => req'[d] = "sent" \/ peer'[d] # "up"
                   /\ req[d] = "fed" => req'[d] = "fed"
                   /\ peer[d] # "up" => peer'[d] # "up"
        BY <1>0, <3>3 DEF Leave, Readable, TypeOK
      <3>. QED BY <1>1, <3>1, <3>2, <3>3 DEF Client
    <2>4. \A fd \in Fds : owner[fd] # None =>
             owner[fd] \in Conns /\ peer[owner[fd]] # "none"
      BY <1>0 DEF TypeOK, PlaceInv
    <2>5. ASSUME NEW u \in Threads PROVE EventOK(u)'
      BY <2>1, <2>2, <2>3, <2>4, OtherEvents
    <2>. QED BY <2>2, <2>5
  <1>2. CASE ListenThread
    <2>1. UNCHANGED <<req, peer, tpc, batch, event, tread>>
      BY <1>2 DEF ListenThread, AcceptConnection, AddToEpoll, InsertConnector,
                  client, found
    <2>2. PlaceInv' /\ Closed' = Closed
      BY <1>0, <1>2, ListenPlaces
    <2>3. \A fd \in Fds : owner[fd] # None => owner'[fd] = owner[fd]
      BY <1>0, <1>2 DEF ListenThread, AcceptConnection, AddToEpoll,
                        InsertConnector, FreeFds, TypeOK
    <2>4. \A fd \in Fds : connectors[fd] # None => connectors'[fd] = connectors[fd]
      <3>1. CASE InsertConnector
        <4>1. /\ lfd \in Fds /\ Pending(lfd) /\ ~mutex[hash_index(lfd, ThreadNum)]
              /\ connectors' = [connectors EXCEPT ![lfd] = owner[lfd]]
          BY <1>0, <3>1 DEF InsertConnector, Unlocked, Pending, TypeOK
        <4>2. ~Deleting(lfd)
          BY <1>0, <4>1, HashType DEF Deleting, MapInv, LockInv
        <4>3. connectors[lfd] = None
          BY <1>0, <4>1, <4>2 DEF MapInv, EntryInv
        <4>. QED BY <1>0, <4>1, <4>3 DEF TypeOK
      <3>2. CASE ~InsertConnector
        BY <1>2, <3>2 DEF ListenThread, AcceptConnection, AddToEpoll
      <3>. QED BY <3>1, <3>2
    <2>5. ASSUME NEW u \in Threads PROVE EventOK(u)'
      BY <2>1, <2>2, <2>3, <2>4, OtherEvents DEF Readable
    <2>. QED BY <1>0, <2>2, <2>5 DEF ServeInv
  <1>3. ASSUME NEW t \in Threads, MainLoop(t)
        PROVE  PlaceInv' /\ \A u \in Threads : EventOK(u)'
    <2>1. PlaceInv' /\ Closed \subseteq Closed'
      BY <1>0, <1>3, ThreadPlaces
    <2>2. ASSUME NEW u \in Threads, u # t PROVE EventOK(u)'
      <3>1. /\ UNCHANGED peer
            /\ tpc'[u] = tpc[u] /\ event'[u] = event[u] /\ batch'[u] = batch[u]
            /\ tread'[u] = tread[u]
        BY <1>3, <2>2, ThreadTouches
      <3>2. ASSUME NEW fd \in Fds, hash_index(fd, ThreadNum) = u
            PROVE  /\ owner'[fd] = owner[fd] /\ connectors'[fd] = connectors[fd]
                   /\ owner[fd] # None => req'[owner[fd]] = req[owner[fd]]
        <4>1. CASE tpc[t] = "loop"
          BY <1>3, <4>1, ThreadTouches
        <4>2. CASE tpc[t] # "loop"
          <5>1. event[t].fd \in Fds /\ fd # event[t].fd
            BY <1>0, <2>2, <3>2, <4>2 DEF MapInv, OwnFds, TypeOK
          <5>2. owner[fd] # None => /\ owner[fd] \in Conns
                                    /\ owner[fd] # owner[event[t].fd]
            BY <1>0, <5>1 DEF PlaceInv, TypeOK
          <5>. QED BY <1>3, <5>1, <5>2, ThreadTouches
        <4>. QED BY <4>1, <4>2
      <3>. QED BY <2>1, <3>1, <3>2, OtherEvents DEF Readable
    <2>3. EventOK(t)'
      BY <1>3, OwnEvents
    <2>. QED BY <2>1, <2>2, <2>3
  <1>4. CASE UNCHANGED vars
    <2>1. UNCHANGED <<peer, req, backlog, owner, epoll, connectors, tpc, batch,
                      event, tread>>
      BY <1>4 DEF vars, client, found
    <2>2. PlaceInv' /\ Closed' = Closed
      <3>1. \A c \in Conns : Waits(c)' <=> Waits(c)
        BY <2>1 DEF Waits
      <3>2. PlaceInv'
        BY <1>0, <2>1, <3>1 DEF PlaceInv
      <3>. QED BY <2>1, <3>2 DEF Closed, Open
    <2>3. ASSUME NEW u \in Threads PROVE EventOK(u)'
      BY <2>1, <2>2, OtherEvents DEF Readable
    <2>. QED BY <1>0, <2>2, <2>3 DEF ServeInv
  <1>. QED BY <1>0, <1>1, <1>2, <1>3, <1>4 DEF Next, ServeInv

\* exec_parse of a connector that its thread has just received from finds the
\* packet there: nothing that any other thread or a client does in between takes
\* it away.
THEOREM ParseSafety == Spec => []ParsesWhatWasFed
  <1>1. Init => ServeInv
    BY InitServe
  <1>2. ServeInv /\ [Next]_vars => ServeInv'
    BY ServeStep
  <1>3. ServeInv => ParsesWhatWasFed
    <2> SUFFICES ASSUME ServeInv, NEW t \in Threads,
                        tpc[t] = "exec", tconn[t] = tread[t]
                 PROVE  req[tconn[t]] = "fed"
      BY DEF ParsesWhatWasFed
    <2>1. MapInv /\ EventOK(t)
      BY DEF ServeInv
    <2>2. /\ event[t].fd \in Fds /\ owner[event[t].fd] = tconn[t]
          /\ tconn[t] # None
      BY <2>1, HeldOwner DEF MapInv, HeldInv
    <2>3. tread[t] \notin Closed
      BY <2>2 DEF Closed, Open
    <2>. QED BY <2>1, <2>2, <2>3 DEF EventOK
  <1>. QED BY <1>1, <1>2, <1>3, PTL DEF Spec

\* The server's side of a step closes a connection only if its client has left.
LEMMA DropStep ==
    ASSUME ServeInv, [Next]_vars, NEW fd \in Fds,
           owner[fd] # None, owner'[fd] = None
    PROVE  \E t \in Threads : /\ DeleteClose(t) /\ fd = event[t].fd
                              /\ peer[owner[fd]] # "up"
  <1>0. MapInv /\ TypeOK
    BY DEF ServeInv, MapInv
  <1>1. ~\E c \in Conns : Client(c)
    BY DEF Client, Connect, Request, Leave
  <1>2. ~ListenThread
    BY <1>0 DEF ListenThread, AcceptConnection, AddToEpoll, InsertConnector,
                FreeFds, TypeOK
  <1>3. ~UNCHANGED vars
    BY DEF vars
  <1>4. PICK t \in Threads : MainLoop(t)
    BY <1>1, <1>2, <1>3 DEF Next
  <1>5. DeleteClose(t) /\ owner' = [owner EXCEPT ![event[t].fd] = None]
    BY <1>0, <1>4, ThreadPlaces DEF ServeInv
  <1>6. fd = event[t].fd
    BY <1>0, <1>5 DEF TypeOK
  <1>7. tpc[t] = "close"
    BY <1>5 DEF DeleteClose, At
  <1>8. peer[owner[fd]] # "up"
    BY <1>0, <1>6, <1>7, HeldOwner DEF ServeInv, EventOK
  <1>. QED BY <1>5, <1>6, <1>8

\* No connection is closed under a client that is still there: not by an event
\* that has gone stale, not by recv's EAGAIN, and not by a second close of a
\* descriptor that has been handed out again.
THEOREM DropSafety == Spec => NoSpuriousDrop
  <1>1. Init => ServeInv
    BY InitServe
  <1>2. ServeInv /\ [Next]_vars => ServeInv'
    BY ServeStep
  <1>3. ServeInv /\ [Next]_vars =>
            [\A fd \in Fds : owner[fd] # None /\ owner'[fd] = None =>
                peer[owner[fd]] # "up"]_vars
    BY DropStep
  <1>. QED BY <1>1, <1>2, <1>3, PTL DEF Spec, NoSpuriousDrop

\* The connections their clients have left, as Service takes them.
Left == {c \in Conns : peer[c] \in {"closed", "reset"}}

\* A step of the threads or of a client is a step of RequestReply, or changes
\* nothing a client can tell.
LEMMA ServiceStep ==
    ASSUME ServeInv, [Next]_vars
    PROVE  [Service!Next]_(Service!vars)
  <1>0. MapInv /\ TypeOK /\ PlaceInv
    BY DEF ServeInv, MapInv
  <1>a. ASSUME UNCHANGED req, Left' = Left, Closed' = Closed
        PROVE  UNCHANGED Service!vars
    BY <1>a DEF Service!vars, Left
  <1>b. ASSUME NEW c \in Conns, NEW to,
               c \notin Closed, Left' = Left, Closed' = Closed,
               req' = [req EXCEPT ![c] = to],
               \/ req[c] = "sent" /\ to = "fed"
               \/ req[c] = "fed" /\ to = "reply"
               \/ req[c] = "reply" /\ to = "none"
        PROVE  Service!Next
    <2>1. Service!Serve(c)
      BY <1>b DEF Service!Serve, Service!Move, Left
    <2>. QED BY <2>1 DEF Service!Next
  <1>1. ASSUME NEW c \in Conns, Client(c)
        PROVE  [Service!Next]_(Service!vars)
    <2>1. Closed' = Closed
      BY <1>0, <1>1, ClientPlaces
    <2>2. CASE Connect(c)
      <3>1. UNCHANGED req /\ Left' = Left
        BY <1>0, <2>2 DEF Connect, Left, TypeOK
      <3>. QED BY <1>a, <2>1, <3>1
    <2>3. CASE Request(c)
      <3>1. /\ c \notin Left /\ Left' = Left
            /\ req[c] = "none" /\ req' = [req EXCEPT ![c] = "sent"]
        BY <2>3 DEF Request, Left
      <3>2. Service!Ask(c)
        BY <2>1, <3>1 DEF Service!Ask, Service!Move, Left
      <3>. QED BY <3>2 DEF Service!Next
    <2>4. ASSUME NEW how \in {"closed", "reset"}, Leave(c, how)
          PROVE  Service!Next
      <3>1. peer[c] = "up" /\ peer' = [peer EXCEPT ![c] = how] /\ UNCHANGED req
        BY <2>4 DEF Leave
      <3>2. peer'[c] = how /\ \A d \in Conns \ {c} : peer'[d] = peer[d]
        BY <1>0, <3>1 DEF TypeOK
      <3>3. c \notin Left /\ Left' = Left \cup {c}
        BY <3>1, <3>2 DEF Left
      <3>4. Service!Leave(c)
        BY <2>1, <3>1, <3>3 DEF Service!Leave, Left
      <3>. QED BY <3>4 DEF Service!Next
    <2>. QED BY <1>1, <2>2, <2>3, <2>4 DEF Client
  <1>2. CASE ListenThread
    <2>1. UNCHANGED req /\ Left' = Left
      BY <1>2 DEF ListenThread, AcceptConnection, AddToEpoll, InsertConnector,
                  client, Left
    <2>2. Closed' = Closed
      BY <1>0, <1>2, ListenPlaces
    <2>. QED BY <1>a, <2>1, <2>2
  <1>3. ASSUME NEW t \in Threads, MainLoop(t)
        PROVE  [Service!Next]_(Service!vars)
    <2>1. UNCHANGED peer /\ Left' = Left
      BY <1>3, ThreadTouches DEF Left
    <2>2. ~DeleteClose(t) => Closed' = Closed
      BY <1>0, <1>3, ThreadPlaces
    <2>3. ASSUME tpc[t] \in {"recv", "exec", "send"}, ~DeleteClose(t)
          PROVE  /\ owner[event[t].fd] \in Conns /\ owner[event[t].fd] \notin Closed
                 /\ tpc[t] = "recv" => tread[t] = owner[event[t].fd]
                 /\ tpc[t] \in {"exec", "send"} => tconn[t] = owner[event[t].fd]
      <3>1. /\ event[t].fd \in Fds /\ owner[event[t].fd] \in Conns
            /\ owner[event[t].fd] = connectors[event[t].fd]
        BY <1>0, <2>3, HeldOwner
      <3>2. owner[event[t].fd] \notin Closed
        BY <3>1 DEF Closed, Open
      <3>. QED BY <1>0, <2>3, <3>1, <3>2 DEF MapInv, HeldInv
    <2>4. CASE ExecRead(t)
      <3>1. tpc[t] = "recv" /\ ~DeleteClose(t)
        BY <2>4 DEF ExecRead, DeleteClose, At
      <3>2. CASE req[tread[t]] = "sent"
        <4>1. req' = [req EXCEPT ![tread[t]] = "fed"]
          BY <2>4, <3>2 DEF ExecRead
        <4>. QED BY <1>b, <2>1, <2>2, <2>3, <3>1, <3>2, <4>1
      <3>3. CASE req[tread[t]] # "sent"
        <4>1. UNCHANGED req
          BY <2>4, <3>3 DEF ExecRead
        <4>. QED BY <1>a, <2>1, <2>2, <3>1, <4>1
      <3>. QED BY <3>2, <3>3
    <2>5. CASE ExecParse(t)
      <3>1. tpc[t] = "exec" /\ ~DeleteClose(t)
        BY <2>5 DEF ExecParse, DeleteClose, At
      <3>2. CASE req[tconn[t]] = "fed"
        <4>1. req' = [req EXCEPT ![tconn[t]] = "reply"]
          BY <2>5, <3>2 DEF ExecParse
        <4>. QED BY <1>b, <2>1, <2>2, <2>3, <3>1, <3>2, <4>1
      <3>3. CASE req[tconn[t]] # "fed"
        <4>1. UNCHANGED req
          BY <2>5, <3>3 DEF ExecParse
        <4>. QED BY <1>a, <2>1, <2>2, <3>1, <4>1
      <3>. QED BY <3>2, <3>3
    <2>6. CASE ExecWrite(t)
      <3>1. tpc[t] = "send" /\ ~DeleteClose(t)
        BY <2>6 DEF ExecWrite, DeleteClose, At
      <3>2. tconn[t] \in Conns /\ tconn[t] \notin Closed
        BY <2>3, <3>1
      <3>3. CASE req[tconn[t]] = "reply" /\ peer[tconn[t]] # "reset"
        <4>1. req' = [req EXCEPT ![tconn[t]] = "none"]
          BY <1>0, <2>6, <3>3 DEF ExecWrite, TypeOK
        <4>. QED BY <1>b, <2>1, <2>2, <3>1, <3>2, <3>3, <4>1
      <3>4. CASE ~(req[tconn[t]] = "reply" /\ peer[tconn[t]] # "reset")
        <4>1. UNCHANGED req
          BY <1>0, <2>6, <3>2, <3>4 DEF ExecWrite, TypeOK
        <4>. QED BY <1>a, <2>1, <2>2, <3>1, <4>1
      <3>. QED BY <3>3, <3>4
    <2>7. CASE DeleteClose(t)
      <3>1. tpc[t] = "close"
        BY <2>7 DEF DeleteClose, At
      <3>2. PICK c \in Conns : c = owner[event[t].fd]
        BY <1>0, <3>1, HeldOwner
      <3>3. Closed' = Closed \cup {c} /\ UNCHANGED req
        BY <1>0, <1>3, <2>7, <3>2, ThreadPlaces DEF DeleteClose
      <3>4. /\ event[t].fd \in Fds /\ c = connectors[event[t].fd] /\ c # None
        BY <1>0, <3>1, <3>2, HeldOwner
      <3>5. c \notin Closed
        BY <3>2, <3>4 DEF Closed, Open
      <3>6. peer[c] # "up" /\ peer[c] # "none"
        BY <1>0, <3>1, <3>2, <3>4 DEF ServeInv, EventOK, PlaceInv
      <3>7. c \in Left
        BY <1>0, <3>6 DEF Left, TypeOK
      <3>8. Service!Drop(c)
        BY <2>1, <3>3, <3>5, <3>7 DEF Service!Drop, Left
      <3>. QED BY <3>8 DEF Service!Next
    <2>8. CASE ~(ExecRead(t) \/ ExecParse(t) \/ ExecWrite(t) \/ DeleteClose(t))
      <3>1. UNCHANGED req
        BY <1>3, <2>8 DEF MainLoop, EpollWait, TakeEvent, ReadLookup, ParseLookup,
                          WriteLookup, DeleteErase
      <3>. QED BY <1>a, <2>1, <2>2, <2>8, <3>1
    <2>. QED BY <2>4, <2>5, <2>6, <2>7, <2>8
  <1>4. CASE UNCHANGED vars
    <2>1. UNCHANGED <<req, peer, backlog, owner>>
      BY <1>4 DEF vars, client
    <2>. QED BY <1>a, <2>1 DEF Left, Closed, Open
  <1>. QED BY <1>1, <1>2, <1>3, <1>4 DEF Next

\* For every number of connector threads, descriptors and connections, the
\* threads of the TCP server implement RequestReply: each request of a
\* connection is received, executed and answered once and in this order, on a
\* connection that is open, and a connection is closed once and only after its
\* client has left it.
THEOREM ServerRefines == Spec => ImplementsRequestReply
  <1>1. Init => ServeInv
    BY InitServe
  <1>2. ServeInv /\ [Next]_vars => ServeInv'
    BY ServeStep
  <1>3. Init => Service!Init
    <2> SUFFICES ASSUME Init PROVE Service!Init
      OBVIOUS
    <2>1. Left = {} /\ Closed = {}
      BY DEF Init, Left, Closed
    <2>. QED BY <2>1 DEF Init, Service!Init, Left
  <1>4. ServeInv /\ [Next]_vars => [Service!Next]_(Service!vars)
    BY ServiceStep
  <1>. QED BY <1>1, <1>2, <1>3, <1>4, PTL
           DEF Spec, ImplementsRequestReply, Service!Spec
================================================================================
