---------------------------- MODULE TCPServiceProofs ---------------------------
(***************************************************************************)
(* The start and the end of the TCP server, for every number of connector  *)
(* threads, descriptors and connections: its members keep their types, its *)
(* log keeps its file, and a connector is in the map of the thread whose   *)
(* epoll watches it.                                                       *)
(***************************************************************************)
EXTENDS TCPService, SequenceTheorems, FiniteSetTheorems, FunctionTheorems,
        WellFoundedInduction, TLAPS

\* The lowest element of a set of numbers.
LEMMA LeastNumber ==
    ASSUME NEW T, T \subseteq Nat, T # {}
    PROVE  \E x \in T : \A y \in T : x <= y
  <1>1. PICK x \in T : \A y \in T : ~(<<y, x>> \in OpToRel(<, Nat))
    BY NatLessThanWellFounded, WFMin, Zenon
  <1>2. ASSUME NEW y \in T PROVE x <= y
    <2>1. ~(y < x)
      BY <1>1 DEF OpToRel
    <2>. QED BY <2>1
  <1>. QED BY <1>2

--------------------------------------------------------------------------------
(* The descriptor table and the log. *)

LogType == [init : BOOLEAN, stream : {"closed", "open", "failed"},
            fd : Fds \cup {-1}]

\* Nothing is open on two numbers of the table d.
OneNumber(d) == \A f, g \in Fds : d[f] = d[g] /\ d[f] # FreeFd => f = g

\* The log l is new, or has its file in the table d.
LogOK(l, d) ==
    /\ ~l.init => l = NewLog /\ \A f \in Fds : d[f] # <<"log">>
    /\ l.init => l.fd \in Fds /\ l.stream = "open" /\ d[l.fd] = <<"log">>

TableOK(l, d) ==
    d \in [Fds -> Objects] /\ l \in LogType /\ OneNumber(d) /\ LogOK(l, d)

\* The tables d and e differ in the numbers of the objects in X at most.
SameBut(X, d, e) ==
    \A x \in Objects : x # FreeFd /\ x \notin X =>
        \A f \in Fds : e[f] = x <=> d[f] = x

\* What a number is open on tells the kinds of objects, the threads and the
\* connections apart.
LEMMA ObjectsDiffer ==
    /\ FreeFd # <<"log">> /\ FreeFd # <<"listen">> /\ FreeFd # <<"listen epoll">>
    /\ <<"log">> # <<"listen">> /\ <<"log">> # <<"listen epoll">>
    /\ <<"listen">> # <<"listen epoll">>
    /\ \A x : /\ FreeFd # <<"epoll", x>> /\ FreeFd # <<"conn", x>>
              /\ <<"log">> # <<"epoll", x>> /\ <<"log">> # <<"conn", x>>
              /\ <<"listen">> # <<"epoll", x>> /\ <<"listen">> # <<"conn", x>>
              /\ <<"listen epoll">> # <<"epoll", x>>
              /\ <<"listen epoll">> # <<"conn", x>>
    /\ \A x, y : /\ <<"epoll", x>> # <<"conn", y>>
                 /\ <<"epoll", x>> = <<"epoll", y>> => x = y
                 /\ <<"conn", x>> = <<"conn", y>> => x = y
  BY DEF FreeFd

LEMMA ObjectTypes ==
    /\ FreeFd \in Objects /\ <<"log">> \in Objects /\ <<"listen">> \in Objects
    /\ <<"listen epoll">> \in Objects
    /\ \A t \in Threads : <<"epoll", t>> \in Objects
    /\ \A c \in Conns : <<"conn", c>> \in Objects
  BY DEF Objects

\* A set has no more images than elements.
LEMMA ImageCount ==
    ASSUME NEW S, NEW T, IsFiniteSet(S), NEW f \in Surjection(S, T)
    PROVE  /\ IsFiniteSet(T)
           /\ Cardinality(T) \in Nat /\ Cardinality(S) \in Nat
           /\ Cardinality(T) <= Cardinality(S)
  <1>1. IsFiniteSet(T) /\ Cardinality(T) <= Cardinality(S)
    BY FS_Surjection
  <1>2. Cardinality(T) \in Nat
    BY <1>1, FS_CardinalityType
  <1>3. Cardinality(S) \in Nat
    BY FS_CardinalityType
  <1>. QED BY <1>1, <1>2, <1>3

\* A union has no more elements than its parts.
LEMMA UnionCount ==
    ASSUME NEW S, NEW T, IsFiniteSet(S), IsFiniteSet(T)
    PROVE  /\ IsFiniteSet(S \cup T)
           /\ Cardinality(S \cup T) \in Nat
           /\ Cardinality(S) \in Nat /\ Cardinality(T) \in Nat
           /\ Cardinality(S \cup T) <= Cardinality(S) + Cardinality(T)
  <1>1. IsFiniteSet(S \cup T) /\ Cardinality(S \cup T) =
            Cardinality(S) + Cardinality(T) - Cardinality(S \cap T)
    BY FS_Union
  <1>2. IsFiniteSet(S \cap T)
    <2>1. S \cap T \in SUBSET S
      OBVIOUS
    <2>. QED BY <2>1, FS_Subset
  <1>3. Cardinality(S \cap T) \in Nat
    BY <1>2, FS_CardinalityType
  <1>4. Cardinality(S) \in Nat
    BY FS_CardinalityType
  <1>5. Cardinality(T) \in Nat
    BY FS_CardinalityType
  <1>6. Cardinality(S \cup T) \in Nat
    BY <1>1, FS_CardinalityType
  <1>. QED BY <1>1, <1>3, <1>4, <1>5, <1>6

\* There are no more objects than the process has descriptors for.
LEMMA ObjectCount ==
    /\ IsFiniteSet(Objects \ {FreeFd})
    /\ Cardinality(Objects \ {FreeFd}) <= Cardinality(Fds)
  <1>. DEFINE E == {<<"epoll", t>> : t \in Threads}
              C == {<<"conn", c>> : c \in Conns}
              K1 == {<<"log">>}
              K2 == {<<"listen">>}
              K3 == {<<"listen epoll">>}
              ef == [t \in Threads |-> <<"epoll", t>>]
              cf == [c \in Conns |-> <<"conn", c>>]
  <1>1. IsFiniteSet(Threads) /\ Cardinality(Threads) = ThreadNum
    BY ThreadNumAssumption, FS_Interval DEF Threads
  <1>2. ef \in Surjection(Threads, E) /\ cf \in Surjection(Conns, C)
    BY DEF Surjection
  <1>3. Objects \ {FreeFd} = (((K1 \cup K2) \cup K3) \cup E) \cup C
    BY ObjectsDiffer DEF Objects
  <1>4. /\ IsFiniteSet(K1) /\ Cardinality(K1) = 1
        /\ IsFiniteSet(K2) /\ Cardinality(K2) = 1
        /\ IsFiniteSet(K3) /\ Cardinality(K3) = 1
    BY FS_Singleton
  <1>. HIDE DEF E, C, K1, K2, K3, ef, cf
  <1>5. IsFiniteSet(E) /\ Cardinality(E) <= Cardinality(Threads)
    BY <1>1, <1>2, ImageCount
  <1>6. /\ IsFiniteSet(C) /\ Cardinality(C) <= Cardinality(Conns)
        /\ Cardinality(Conns) \in Nat
    BY <1>2, ConnsAssumption, ImageCount
  <1>. DEFINE A == K1 \cup K2
              B == A \cup K3
              D == B \cup E
              O == D \cup C
  <1>7. /\ IsFiniteSet(A) /\ Cardinality(A) \in Nat
        /\ Cardinality(A) <= Cardinality(K1) + Cardinality(K2)
    BY <1>4, UnionCount
  <1>. HIDE DEF A
  <1>8. /\ IsFiniteSet(B) /\ Cardinality(B) \in Nat
        /\ Cardinality(B) <= Cardinality(A) + Cardinality(K3)
    BY <1>4, <1>7, UnionCount
  <1>. HIDE DEF B
  <1>9. /\ IsFiniteSet(D) /\ Cardinality(D) \in Nat /\ Cardinality(E) \in Nat
        /\ Cardinality(D) <= Cardinality(B) + Cardinality(E)
    BY <1>5, <1>8, UnionCount
  <1>. HIDE DEF D
  <1>10. /\ IsFiniteSet(O) /\ Cardinality(O) \in Nat /\ Cardinality(C) \in Nat
         /\ Cardinality(O) <= Cardinality(D) + Cardinality(C)
    BY <1>6, <1>9, UnionCount
  <1>11. Objects \ {FreeFd} = O
    BY <1>3 DEF A, B, D
  <1>. HIDE DEF O
  <1>12. Cardinality(Fds) \in Nat
    BY FdsAssumption, FS_CardinalityType
  <1>13. Cardinality(O) <= 3 + ThreadNum + Cardinality(Conns)
    BY <1>1, <1>4, <1>5, <1>6, <1>7, <1>8, <1>9, <1>10, ThreadNumAssumption
  <1>14. Cardinality(O) <= Cardinality(Fds)
    BY <1>6, <1>10, <1>12, <1>13, EnoughFds, ThreadNumAssumption
  <1>. QED BY <1>10, <1>11, <1>14

\* While something is not open there is a free number, and the kernel hands out
\* a free one.
LEMMA LowestFree ==
    ASSUME NEW d \in [Fds -> Objects], ~Full(d)
    PROVE  Lowest(d) \in Fds /\ d[Lowest(d)] = FreeFd
  <1>. DEFINE T == {f \in Fds : d[f] = FreeFd}
  <1>1. T \subseteq Nat /\ T # {}
    BY FdsAssumption DEF Full
  <1>2. PICK x \in T : \A y \in T : x <= y
    <2>. HIDE DEF T
    <2>. QED BY <1>1, LeastNumber
  <1>3. \E fd \in DOMAIN d : /\ d[fd] = FreeFd
                             /\ \A f \in DOMAIN d : d[f] = FreeFd => fd <= f
    BY <1>2
  <1>. QED BY <1>3 DEF Lowest

LEMMA SomeFree ==
    ASSUME NEW d \in [Fds -> Objects], OneNumber(d),
           NEW x \in Objects, x # FreeFd, \A f \in Fds : d[f] # x
    PROVE  ~Full(d)
  <1> SUFFICES ASSUME Full(d) PROVE FALSE
    OBVIOUS
  <1>. DEFINE O == Objects \ {FreeFd}
              R == O \ {x}
  <1>1. IsFiniteSet(O) /\ Cardinality(O) <= Cardinality(Fds) /\ x \in O
    BY ObjectCount
  <1>2. Cardinality(O) \in Nat /\ Cardinality(Fds) \in Nat
    BY <1>1, FdsAssumption, FS_CardinalityType
  <1>3. d \in [Fds -> R]
    BY DEF Full
  <1>. HIDE DEF O
  <1>4. IsFiniteSet(R) /\ Cardinality(R) = Cardinality(O) - 1
    BY <1>1, FS_RemoveElement
  <1>. HIDE DEF R
  <1>5. d \in Injection(Fds, R)
    <2>1. \A f, g \in Fds : d[f] = d[g] => f = g
      BY DEF OneNumber, Full
    <2>. QED BY <1>3, <2>1, Fun_IsInj
  <1>6. Cardinality(Fds) <= Cardinality(R)
    BY <1>4, <1>5, FS_Injection
  <1>. QED BY <1>1, <1>2, <1>4, <1>6

\* A number is opened on something that was not open.
LEMMA OpenedOK ==
    ASSUME NEW l, NEW d, TableOK(l, d),
           NEW x \in Objects, x # FreeFd, x # <<"log">>, \A f \in Fds : d[f] # x
    PROVE  /\ Lowest(d) \in Fds /\ d[Lowest(d)] = FreeFd
           /\ Opened(d, x)[Lowest(d)] = x
           /\ TableOK(l, Opened(d, x))
           /\ SameBut({x}, d, Opened(d, x))
  <1>1. d \in [Fds -> Objects] /\ OneNumber(d) /\ LogOK(l, d) /\ l \in LogType
    BY DEF TableOK
  <1>2. ~Full(d)
    BY <1>1, SomeFree
  <1>3. PICK n \in Fds : n = Lowest(d) /\ d[n] = FreeFd
    BY <1>1, <1>2, LowestFree
  <1>4. PICK e : e = Opened(d, x)
    OBVIOUS
  <1>5. e = [d EXCEPT ![n] = x]
    BY <1>3, <1>4 DEF Opened
  <1>6. /\ e \in [Fds -> Objects] /\ e[n] = x
        /\ \A f \in Fds : f # n => e[f] = d[f]
    BY <1>1, <1>5
  <1>7. OneNumber(e)
    BY <1>1, <1>6 DEF OneNumber
  <1>8. LogOK(l, e)
    BY <1>1, <1>3, <1>6, ObjectsDiffer DEF LogOK
  <1>9. SameBut({x}, d, e)
    BY <1>3, <1>6 DEF SameBut
  <1>. QED BY <1>1, <1>3, <1>4, <1>6, <1>7, <1>8, <1>9 DEF TableOK

\* A line is written to the log, which opens its file if it has none.
LEMMA LogWriteOK ==
    ASSUME NEW l, NEW d, TableOK(l, d), NEW r \in LogWrite(l, d)
    PROVE  TableOK(r.log, r.fds) /\ SameBut({<<"log">>}, d, r.fds)
  <1>1. d \in [Fds -> Objects] /\ OneNumber(d) /\ LogOK(l, d) /\ l \in LogType
    BY DEF TableOK
  <1>2. CASE r.log = l /\ r.fds = d
    BY <1>2 DEF SameBut
  <1>3. CASE ~(r.log = l /\ r.fds = d)
    <2>1. ~l.init
      BY <1>3 DEF LogWrite
    <2>2. /\ l = NewLog /\ l.stream = "closed"
          /\ \A f \in Fds : d[f] # <<"log">>
      BY <1>1, <2>1 DEF LogOK, NewLog
    <2>3. /\ ~Full(d)
          /\ r = [log |-> [init |-> TRUE, stream |-> "open", fd |-> Lowest(d)],
                  fds |-> Opened(d, <<"log">>)]
      BY <1>3, <2>1, <2>2 DEF LogWrite, LogInit
    <2>4. PICK n \in Fds : n = Lowest(d) /\ d[n] = FreeFd
      BY <1>1, <2>3, LowestFree
    <2>5. PICK e : e = r.fds
      OBVIOUS
    <2>6. e = [d EXCEPT ![n] = <<"log">>]
      BY <2>3, <2>4, <2>5 DEF Opened
    <2>7. /\ e \in [Fds -> Objects] /\ e[n] = <<"log">>
          /\ \A f \in Fds : f # n => e[f] = d[f]
      BY <1>1, <2>6, ObjectTypes
    <2>8. OneNumber(e)
      BY <1>1, <2>2, <2>7 DEF OneNumber
    <2>9. r.log \in LogType /\ LogOK(r.log, e)
      BY <2>3, <2>4, <2>7 DEF LogType, LogOK
    <2>10. SameBut({<<"log">>}, d, e)
      BY <2>4, <2>7 DEF SameBut
    <2>. QED BY <2>5, <2>7, <2>8, <2>9, <2>10 DEF TableOK
  <1>. QED BY <1>2, <1>3

\* Numbers are closed; the log's is not among them.
LEMMA ClosedOK ==
    ASSUME NEW l, NEW d, TableOK(l, d), NEW nums,
           \A f \in Fds : f \in nums => d[f] # <<"log">>
    PROVE  /\ TableOK(l, Closed(d, nums))
           /\ SameBut({d[f] : f \in Fds \cap nums}, d, Closed(d, nums))
           /\ \A f \in Fds : f \in nums => Closed(d, nums)[f] = FreeFd
  <1>1. d \in [Fds -> Objects] /\ OneNumber(d) /\ LogOK(l, d) /\ l \in LogType
    BY DEF TableOK
  <1>2. PICK e : e = Closed(d, nums)
    OBVIOUS
  <1>3. /\ e \in [Fds -> Objects]
        /\ \A f \in Fds : e[f] = IF f \in nums THEN FreeFd ELSE d[f]
    BY <1>1, <1>2, ObjectTypes DEF Closed
  <1>4. OneNumber(e)
    BY <1>1, <1>3 DEF OneNumber
  <1>5. LogOK(l, e)
    BY <1>1, <1>3, ObjectsDiffer DEF LogOK
  <1>6. SameBut({d[f] : f \in Fds \cap nums}, d, e)
    BY <1>3 DEF SameBut
  <1>. QED BY <1>1, <1>2, <1>3, <1>4, <1>5, <1>6 DEF TableOK
--------------------------------------------------------------------------------
(* The invariant. *)

\* The types of everything but the table and the log.
Members ==
    /\ mpc \in {"log", "create", "bind", "epoll", "add", "failed", "run", "manager",
                "up", "stopped", "terminate", "destroy", "join", "unload", "gone"}
    /\ listen_fd \in Fds \cup {-1} /\ stop \in BOOLEAN
    /\ backlog \in Seq(Conns)
    /\ lpc \in {"none", "start", "loop", "instance", "add", "insert", "ended"}
    /\ lfd \in Fds \cup {0}
    /\ manager \in {"none", "building", "ready"} /\ built \in 0..ThreadNum
    /\ tpc \in [Threads -> {"none", "start", "loop", "wait", "ended"}]
    /\ epoll_fd \in [Threads -> Fds \cup {0, -1}]
    /\ tstop \in [Threads -> BOOLEAN]
    /\ waits \in [Threads -> Threads \cup {Nobody}]
    /\ destroyed \subseteq Threads /\ dying \in Threads
    /\ watch \in [Threads -> SUBSET Conns]
    /\ connectors \in [Conns -> Threads \cup {Nobody}]
    /\ served \subseteq Conns /\ crashed \in BOOLEAN

LEMMA TypeParts == TypeOK <=> fds \in [Fds -> Objects] /\ log \in LogType /\ Members
  BY DEF TypeOK, Members, LogType

\* The table is in order, and the log has its file, until the process ends.
FilesInv ==
    /\ mpc = "log" => ~log.init
    /\ mpc # "gone" => TableOK(log, fds)

\* Nothing of this kind is open.
NotOpen(x) == \A f \in Fds : fds[f] # x

\* The listening socket: open from socket to close, and its number free while
\* init_socket's failure is on its way to the destructor.
SocketInv ==
    /\ mpc \in {"log", "create"} => listen_fd = -1 /\ NotOpen(<<"listen">>)
    /\ mpc \in {"log", "create", "bind", "epoll"} => NotOpen(<<"listen epoll">>)
    /\ mpc = "bind" => listen_fd = -1 \/ fds[listen_fd] = <<"listen">>
    /\ mpc \in {"epoll", "add", "run", "manager", "up", "stopped", "destroy", "join"}
            => listen_fd \in Fds /\ fds[listen_fd] = <<"listen">>
    /\ mpc = "failed" => listen_fd = -1 \/ fds[listen_fd] = FreeFd

\* How far the manager, the listen thread and the destructors have come.
PhaseInv ==
    /\ mpc \in {"log", "create", "bind", "epoll", "add", "failed", "run"} =>
            lpc = "none" /\ manager = "none"
    /\ manager = "none" => built = 0 /\ \A t \in Threads : tpc[t] = "none"
    /\ manager = "ready" => built = ThreadNum
    /\ mpc \in {"up", "stopped", "destroy", "join"} => manager = "ready"
    /\ lpc \in {"add", "insert"} => manager = "ready"
    /\ mpc \notin {"destroy", "join", "unload", "gone"} => destroyed = {} /\ dying = 0
    /\ mpc = "destroy" => destroyed = 0..(dying - 1)
    /\ mpc = "join" => destroyed = 0..dying

\* A thread's epoll_fd_, once it is assigned, is its own epoll or -1.
EpollInv ==
    \A t \in Threads :
        /\ t >= built => NotOpen(<<"epoll", t>>)
        /\ t < built /\ t \notin destroyed /\ epoll_fd[t] # NoEpoll =>
                epoll_fd[t] \in Fds /\ fds[epoll_fd[t]] = <<"epoll", t>>

\* A connection waits for accept.
Waits(c) == \E i \in DOMAIN backlog : backlog[i] = c

\* The thread of the listen thread's connection watches it if it can.
Watched(c) == Target \in destroyed \/ epoll_fd[Target] = NoEpoll \/ c \in watch[Target]

\* The listen thread has c in its hands.
Handed(c) ==
    /\ lfd \in Fds /\ fds[lfd] = <<"conn", c>>
    /\ connectors[c] = Nobody
    /\ lpc = "insert" => Watched(c)

\* What is known of a connection in a map.
Mapped(c) ==
    /\ manager = "ready"
    /\ destroyed = {} => ~NotOpen(<<"conn", c>>)
    /\ connectors[c] \notin destroyed /\ epoll_fd[connectors[c]] # NoEpoll =>
            c \in watch[connectors[c]]

\* Where a connection is: waiting for accept, in the listen thread's hands, or
\* in a map.
ConnInv ==
    /\ \A i, j \in DOMAIN backlog : backlog[i] = backlog[j] => i = j
    /\ \A c \in Conns : Waits(c) => connectors[c] = Nobody /\ NotOpen(<<"conn", c>>)
    /\ lpc \in {"instance", "add", "insert"} => \E c \in Conns : Handed(c)
    /\ \A c \in Conns : connectors[c] # Nobody => Mapped(c)

\* The inductive invariant.
StartInv == TypeOK /\ FilesInv /\ SocketInv /\ PhaseInv /\ EpollInv /\ ConnInv

\* A step that writes to the log at most.
LEMMA LogsKeeps ==
    ASSUME TableOK(log, fds), Logs \/ UNCHANGED files
    PROVE  TableOK(log', fds') /\ SameBut({<<"log">>}, fds, fds')
  <1>1. CASE Logs
    <2>1. PICK r \in LogWrite(log, fds) : log' = r.log /\ fds' = Closed(r.fds, {})
      BY <1>1 DEF Logs, LogsThenCloses
    <2>2. TableOK(r.log, r.fds) /\ SameBut({<<"log">>}, fds, r.fds)
      BY <2>1, LogWriteOK
    <2>3. r.fds \in [Fds -> Objects]
      BY <2>2 DEF TableOK
    <2>4. Closed(r.fds, {}) = r.fds
      BY <2>3 DEF Closed
    <2>. QED BY <2>1, <2>2, <2>4
  <1>2. CASE UNCHANGED files
    BY <1>2 DEF files, SameBut
  <1>. QED BY <1>1, <1>2

\* A step that opens and closes no epoll of a thread.
LEMMA KeepEpoll ==
    ASSUME EpollInv, NEW X, SameBut(X, fds, fds'),
           \A t \in Threads : <<"epoll", t>> \notin X,
           built' = built, destroyed \subseteq destroyed',
           \A t \in Threads : t < built => epoll_fd'[t] = epoll_fd[t]
    PROVE  EpollInv'
  <1>1. \A t \in Threads, f \in Fds :
            fds'[f] = <<"epoll", t>> <=> fds[f] = <<"epoll", t>>
    BY ObjectsDiffer, ObjectTypes DEF SameBut
  <1>. QED BY <1>1 DEF EpollInv, NotOpen

\* The listen thread has a connection in its hands.
Holding == lpc \in {"instance", "add", "insert"}

\* A step that opens and closes no connection and leaves alone what is known of
\* the connections.
LEMMA KeepConns ==
    ASSUME ConnInv, PhaseInv, NEW X, SameBut(X, fds, fds'),
           \A c \in Conns : <<"conn", c>> \notin X,
           UNCHANGED <<backlog, lfd, connectors, watch>>,
           manager = "ready" => manager' = "ready" /\ epoll_fd' = epoll_fd,
           destroyed \subseteq destroyed',
           Holding' => Holding, lpc' = "insert" => lpc = "insert"
    PROVE  ConnInv'
  <1>1. \A c \in Conns, f \in Fds :
            fds'[f] = <<"conn", c>> <=> fds[f] = <<"conn", c>>
    BY ObjectsDiffer, ObjectTypes DEF SameBut
  <1>2. \A c \in Conns : NotOpen(<<"conn", c>>)' <=> NotOpen(<<"conn", c>>)
    BY <1>1 DEF NotOpen
  <1>3. ASSUME NEW c \in Conns, Handed(c) PROVE Handed(c)'
    <2>1. lpc = "insert" => manager = "ready" /\ epoll_fd' = epoll_fd
      BY DEF PhaseInv
    <2>2. Target' = Target
      BY DEF Target
    <2>3. lpc' = "insert" => Watched(c)'
      BY <1>3, <2>1, <2>2 DEF Handed, Watched
    <2>. QED BY <1>1, <1>3, <2>3 DEF Handed
  <1>4. ASSUME NEW c \in Conns, connectors[c] # Nobody PROVE Mapped(c)'
    BY <1>2, <1>4 DEF ConnInv, Mapped
  <1>5. \A c \in Conns : Waits(c)' <=> Waits(c)
    BY DEF Waits
  <1>. QED BY <1>2, <1>3, <1>4, <1>5 DEF ConnInv, Holding

\* The parts of the invariant, put together.
LEMMA StepInv ==
    ASSUME TableOK(log', fds'), mpc' = "log" => ~log'.init,
           Members', SocketInv', PhaseInv', EpollInv', ConnInv'
    PROVE  StartInv'
  <1>1. fds' \in [Fds -> Objects] /\ log' \in LogType
    BY DEF TableOK
  <1>2. TypeOK' <=> (fds \in [Fds -> Objects] /\ log \in LogType /\ Members)'
    BY TypeParts, PTL
  <1>3. FilesInv'
    BY DEF FilesInv
  <1>. QED BY <1>1, <1>2, <1>3 DEF StartInv

\* The main thread moves among the steps in which the socket is what it was.
Moves ==
    \/ mpc' = mpc \/ mpc' \in {"unload", "terminate", "gone"}
    \/ mpc = "bind" /\ mpc' = "epoll" /\ listen_fd # -1
    \/ /\ mpc \in {"epoll", "add", "run", "manager", "up", "stopped", "destroy", "join"}
       /\ mpc' \in {"add", "run", "manager", "up", "stopped", "destroy", "join"}

\* A step that opens no file but the log's and closes none.
LEMMA QuietStep ==
    ASSUME StartInv, mpc \notin {"log", "failed", "gone"}, mpc' # "log",
           Logs \/ UNCHANGED files, Moves,
           UNCHANGED <<listen_fd, built>>, destroyed \subseteq destroyed',
           \A t \in Threads : t < built => epoll_fd'[t] = epoll_fd[t],
           Members', PhaseInv',
           SameBut({<<"log">>}, fds, fds') => ConnInv'
    PROVE  StartInv'
  <1>1. TableOK(log', fds') /\ SameBut({<<"log">>}, fds, fds')
    BY LogsKeeps DEF StartInv, FilesInv
  <1>2. EpollInv'
    <2>1. \A t \in Threads : <<"epoll", t>> \notin {<<"log">>}
      BY ObjectsDiffer
    <2>. QED BY <1>1, <2>1, KeepEpoll DEF StartInv
  <1>3. /\ \A f \in Fds : fds'[f] = <<"listen">> <=> fds[f] = <<"listen">>
        /\ NotOpen(<<"listen">>)' <=> NotOpen(<<"listen">>)
    BY <1>1, ObjectsDiffer, ObjectTypes DEF SameBut, NotOpen
  <1>4. NotOpen(<<"listen epoll">>)' <=> NotOpen(<<"listen epoll">>)
    BY <1>1, ObjectsDiffer, ObjectTypes DEF SameBut, NotOpen
  <1>5. listen_fd = -1 \/ listen_fd \in Fds
    BY DEF StartInv, TypeOK
  <1>6. SocketInv'
    BY <1>3, <1>4, <1>5 DEF StartInv, SocketInv, Moves
  <1>. QED BY <1>1, <1>2, <1>6, StepInv

\* A step of that kind that leaves the connections alone, too.
LEMMA QuietConns ==
    ASSUME StartInv, mpc \notin {"log", "failed", "gone"}, mpc' # "log",
           Logs \/ UNCHANGED files, Moves,
           UNCHANGED <<listen_fd, built>>, destroyed \subseteq destroyed',
           \A t \in Threads : t < built => epoll_fd'[t] = epoll_fd[t],
           Members', PhaseInv',
           UNCHANGED <<backlog, lfd, connectors, watch>>,
           manager = "ready" => manager' = "ready" /\ epoll_fd' = epoll_fd,
           Holding' => Holding, lpc' = "insert" => lpc = "insert"
    PROVE  StartInv'
  <1>1. \A c \in Conns : <<"conn", c>> \notin {<<"log">>}
    BY ObjectsDiffer
  <1>2. SameBut({<<"log">>}, fds, fds') => ConnInv'
    BY <1>1, KeepConns DEF StartInv
  <1>. QED BY <1>2, QuietStep

LEMMA InitStart == Init => StartInv
  <1> SUFFICES ASSUME Init PROVE StartInv
    OBVIOUS
  <1>1. TypeOK
    <2>1. fds \in [Fds -> Objects]
      BY ObjectTypes DEF Init
    <2>2. log \in LogType
      BY DEF Init, NewLog, LogType
    <2>3. 0 \in Threads
      BY ThreadNumAssumption DEF Threads
    <2>4. Members
      BY <2>3, ThreadNumAssumption DEF Init, Members
    <2>. QED BY <2>1, <2>2, <2>4, TypeParts
  <1>2. FilesInv
    <2>1. OneNumber(fds) /\ LogOK(log, fds)
      BY ObjectsDiffer DEF Init, OneNumber, LogOK, NewLog
    <2>. QED BY <1>1, <2>1 DEF FilesInv, TableOK, TypeOK, LogType, Init, NewLog
  <1>3. SocketInv
    BY ObjectsDiffer DEF Init, SocketInv, NotOpen
  <1>4. PhaseInv
    BY DEF Init, PhaseInv
  <1>5. EpollInv
    <2>1. \A t \in Threads : ~(t < 0)
      BY ThreadNumAssumption DEF Threads
    <2>2. \A f \in Fds : fds[f] = FreeFd
      BY DEF Init
    <2>3. \A t \in Threads : NotOpen(<<"epoll", t>>)
      BY <2>2, ObjectsDiffer DEF NotOpen
    <2>. QED BY <2>1, <2>3 DEF Init, EpollInv
  <1>6. ConnInv
    BY DEF Init, ConnInv, Waits
  <1>. QED BY <1>1, <1>2, <1>3, <1>4, <1>5, <1>6 DEF StartInv

\* Nothing but the main thread runs before run_logic, and nothing after the end.
LEMMA Begun ==
    ASSUME StartInv, Running, lpc # "none" \/ manager # "none"
    PROVE  mpc \in {"manager", "up", "stopped", "terminate", "destroy", "join", "unload"}
  BY DEF StartInv, PhaseInv, TypeOK, Running

\* The main thread's steps that open and close nothing but the log's file.
LEMMA MainQuiet ==
    ASSUME StartInv,
           \/ NoService \/ Bind \/ AddListenFd \/ RunLogic \/ Up \/ Stop \/ Exit
           \/ Terminate \/ JoinThread
    PROVE  StartInv'
  <1>1. Members
    BY TypeParts DEF StartInv
  <1>2. PhaseInv
    BY DEF StartInv
  <1>3. CASE NoService
    <2>1. Members' /\ PhaseInv' /\ Moves
      BY <1>1, <1>2, <1>3 DEF NoService, Main, Members, PhaseInv, Moves,
         service, listen, pool, loop, ends, conns
    <2>. QED BY <1>3, <2>1, QuietConns DEF NoService, Main, Running, Holding,
         service, listen, pool, loop, ends, conns
  <1>4. CASE Bind
    <2>1. Members' /\ PhaseInv' /\ Moves
      BY <1>1, <1>2, <1>4 DEF Bind, Main, Members, PhaseInv, Moves,
         service, listen, pool, loop, ends, conns
    <2>. QED BY <1>4, <2>1, QuietConns DEF Bind, Main, Running, Holding,
         service, listen, pool, loop, ends, conns
  <1>5. CASE AddListenFd
    <2>1. Members' /\ PhaseInv' /\ Moves
      BY <1>1, <1>2, <1>5 DEF AddListenFd, Main, Members, PhaseInv, Moves,
         service, listen, pool, loop, ends, conns
    <2>. QED BY <1>5, <2>1, QuietConns DEF AddListenFd, Main, Running, Holding,
         service, listen, pool, loop, ends, conns
  <1>6. CASE RunLogic
    <2>1. Members' /\ PhaseInv' /\ Moves
      BY <1>1, <1>2, <1>6 DEF RunLogic, Main, Members, PhaseInv, Moves,
         service, listen, pool, loop, ends, conns
    <2>. QED BY <1>6, <2>1, QuietConns DEF RunLogic, Main, Running, Holding,
         service, listen, pool, loop, ends, conns
  <1>7. CASE Up
    <2>1. Members' /\ PhaseInv' /\ Moves
      BY <1>1, <1>2, <1>7 DEF Up, Constructed, Main, Members, PhaseInv, Moves,
         service, listen, pool, loop, ends, conns
    <2>. QED BY <1>7, <2>1, QuietConns DEF Up, Main, Running, Holding,
         service, listen, pool, loop, ends, conns
  <1>8. CASE Stop
    <2>1. Members' /\ PhaseInv' /\ Moves
      BY <1>1, <1>2, <1>8 DEF Stop, Main, Members, PhaseInv, Moves,
         service, listen, pool, loop, ends, conns
    <2>. QED BY <1>8, <2>1, QuietConns DEF Stop, Main, Running, Holding,
         service, listen, pool, loop, ends, conns
  <1>9. CASE Exit
    <2>1. Members'
      BY <1>1, <1>9 DEF Exit, Main, Members, service, listen, pool, loop, conns
    <2>2. PhaseInv' /\ Moves
      BY <1>2, <1>9 DEF Exit, Main, PhaseInv, Moves, service, listen, pool, loop, conns
    <2>. QED BY <1>9, <2>1, <2>2, QuietConns DEF Exit, Main, Running, Holding,
         service, listen, pool, loop, ends, conns
  <1>10. CASE Terminate
    <2>1. Members' /\ PhaseInv' /\ Moves
      BY <1>1, <1>2, <1>10 DEF Terminate, Main, Members, PhaseInv, Moves,
         service, listen, pool, loop, ends, conns
    <2>. QED BY <1>10, <2>1, QuietConns DEF Terminate, Main, Running, Holding,
         service, listen, pool, loop, ends, conns
  <1>11. CASE JoinThread
    <2>1. Members'
      BY <1>1, <1>11, ThreadNumAssumption DEF JoinThread, Main, Members, Threads,
         service, listen, pool, loop, conns
    <2>2. PhaseInv' /\ Moves
      BY <1>1, <1>2, <1>11, ThreadNumAssumption DEF JoinThread, Main, PhaseInv, Moves,
         Members, Threads, service, listen, pool, loop, conns
    <2>. QED BY <1>11, <2>1, <2>2, QuietConns DEF JoinThread, Main, Running, Holding,
         service, listen, pool, loop, ends, conns
  <1>. QED BY <1>3, <1>4, <1>5, <1>6, <1>7, <1>8, <1>9, <1>10, <1>11

\* The steps of the constructor of the manager that open nothing but the log's
\* file.
LEMMA ManagerQuiet ==
    ASSUME StartInv, ConstructManager \/ BuildThread \/ FinishManager
    PROVE  StartInv'
  <1>1. Members
    BY TypeParts DEF StartInv
  <1>2. PhaseInv
    BY DEF StartInv
  <1>3. mpc \in {"manager", "up", "stopped", "terminate", "destroy", "join", "unload"}
    BY Begun DEF ConstructManager, Asking, BuildThread, FinishManager, Running,
       StartInv, PhaseInv
  <1>4. CASE ConstructManager
    <2>1. Members' /\ PhaseInv' /\ Moves
      BY <1>1, <1>2, <1>3, <1>4 DEF ConstructManager, Members, PhaseInv, Moves, Asking,
         service, listen, pool, loop, ends, conns
    <2>. QED BY <1>3, <1>4, <2>1, QuietConns DEF ConstructManager, Holding, Asking,
         service, listen, pool, loop, ends, conns
  <1>5. CASE BuildThread
    <2>1. Members' /\ PhaseInv' /\ Moves
      BY <1>1, <1>2, <1>3, <1>5, ThreadNumAssumption DEF BuildThread, Members, PhaseInv, Moves, Threads, Indeterminate,
         service, listen, pool, loop, ends, conns
    <2>. QED BY <1>3, <1>5, <2>1, QuietConns DEF BuildThread, Holding, Threads, Indeterminate,
         service, listen, pool, loop, ends, conns
  <1>6. CASE FinishManager
    <2>1. Members' /\ PhaseInv' /\ Moves
      BY <1>1, <1>2, <1>3, <1>6 DEF FinishManager, Members, PhaseInv, Moves, 
         service, listen, pool, loop, ends, conns
    <2>. QED BY <1>3, <1>6, <2>1, QuietConns DEF FinishManager, Holding, 
         service, listen, pool, loop, ends, conns
  <1>. QED BY <1>4, <1>5, <1>6

\* Those of the listen thread.
LEMMA ListenQuiet ==
    ASSUME StartInv, ListenStart \/ ListenEnd \/ GetManager \/ DispatchLate
    PROVE  StartInv'
  <1>1. Members
    BY TypeParts DEF StartInv
  <1>2. PhaseInv
    BY DEF StartInv
  <1>3. mpc \in {"manager", "up", "stopped", "terminate", "destroy", "join", "unload"}
    BY Begun DEF ListenStart, ListenEnd, GetManager, DispatchLate
  <1>4. CASE ListenStart
    <2>1. Members' /\ PhaseInv' /\ Moves
      BY <1>1, <1>2, <1>3, <1>4 DEF ListenStart, Members, PhaseInv, Moves, 
         service, listen, pool, loop, ends, conns
    <2>. QED BY <1>3, <1>4, <2>1, QuietConns DEF ListenStart, Holding, 
         service, listen, pool, loop, ends, conns
  <1>5. CASE ListenEnd
    <2>1. Members' /\ PhaseInv' /\ Moves
      BY <1>1, <1>2, <1>3, <1>5 DEF ListenEnd, Members, PhaseInv, Moves, 
         service, listen, pool, loop, ends, conns
    <2>. QED BY <1>3, <1>5, <2>1, QuietConns DEF ListenEnd, Holding, 
         service, listen, pool, loop, ends, conns
  <1>6. CASE GetManager
    <2>1. Members' /\ PhaseInv' /\ Moves
      BY <1>1, <1>2, <1>3, <1>6 DEF GetManager, Members, PhaseInv, Moves, Constructed,
         service, listen, pool, loop, ends, conns
    <2>. QED BY <1>3, <1>6, <2>1, QuietConns DEF GetManager, Holding, Constructed,
         service, listen, pool, loop, ends, conns
  <1>7. CASE DispatchLate
    <2>1. Members' /\ PhaseInv' /\ Moves
      BY <1>1, <1>2, <1>3, <1>7 DEF DispatchLate, Members, PhaseInv, Moves, 
         service, listen, pool, loop, ends, conns
    <2>. QED BY <1>3, <1>7, <2>1, QuietConns DEF DispatchLate, Holding, 
         service, listen, pool, loop, ends, conns
  <1>. QED BY <1>4, <1>5, <1>6, <1>7

\* Those of a connector thread.
LEMMA ThreadQuiet ==
    ASSUME StartInv, NEW t \in Threads, MainLoop(t)
    PROVE  StartInv'
  <1>1. Members
    BY TypeParts DEF StartInv
  <1>2. PhaseInv
    BY DEF StartInv
  <1>3. mpc \in {"manager", "up", "stopped", "terminate", "destroy", "join", "unload"}
    BY <1>2, Begun DEF MainLoop, ThreadStart, ThreadEnd, ThreadWait, ThreadEvents, At, PhaseInv
  <1>4. manager # "none"
    BY <1>2 DEF MainLoop, ThreadStart, ThreadEnd, ThreadWait, ThreadEvents, At, PhaseInv
  <1>5. CASE ThreadStart(t)
    <2>1. tpc' \in [Threads -> {"none", "start", "loop", "wait", "ended"}] /\ crashed' \in BOOLEAN
      BY <1>1, <1>5 DEF ThreadStart, At, Members, loop, conns, files
    <2>2. Members' /\ PhaseInv' /\ Moves
      BY <1>1, <1>2, <1>4, <1>5, <2>1 DEF ThreadStart, Members, PhaseInv, Moves,
         service, listen, pool, loop, ends, conns
    <2>. QED BY <1>3, <1>5, <2>2, QuietConns DEF ThreadStart, Holding,
         service, listen, pool, loop, ends, conns
  <1>6. CASE ThreadEnd(t)
    <2>1. tpc' \in [Threads -> {"none", "start", "loop", "wait", "ended"}]
      BY <1>1, <1>6 DEF ThreadEnd, At, Members, loop, conns, files
    <2>2. Members' /\ PhaseInv' /\ Moves
      BY <1>1, <1>2, <1>4, <1>6, <2>1 DEF ThreadEnd, Members, PhaseInv, Moves,
         service, listen, pool, loop, ends, conns
    <2>. QED BY <1>3, <1>6, <2>2, QuietConns DEF ThreadEnd, Holding,
         service, listen, pool, loop, ends, conns
  <1>7. CASE ThreadWait(t)
    <2>1. tpc' \in [Threads -> {"none", "start", "loop", "wait", "ended"}]
          /\ waits' \in [Threads -> Threads \cup {Nobody}]
      BY <1>1, <1>7 DEF ThreadWait, At, Members, EpollOf, loop, conns, files
    <2>2. Members' /\ PhaseInv' /\ Moves
      BY <1>1, <1>2, <1>4, <1>7, <2>1 DEF ThreadWait, Members, PhaseInv, Moves,
         service, listen, pool, loop, ends, conns
    <2>. QED BY <1>3, <1>7, <2>2, QuietConns DEF ThreadWait, Holding,
         service, listen, pool, loop, ends, conns
  <1>8. CASE ThreadEvents(t)
    <2>1. tpc' \in [Threads -> {"none", "start", "loop", "wait", "ended"}]
          /\ served' \subseteq Conns /\ crashed' \in BOOLEAN
      BY <1>1, <1>8 DEF ThreadEvents, At, Members, Ready, loop, conns, files
    <2>2. Members' /\ PhaseInv' /\ Moves
      BY <1>1, <1>2, <1>4, <1>8, <2>1 DEF ThreadEvents, Members, PhaseInv, Moves,
         service, listen, pool, loop, ends, conns
    <2>. QED BY <1>3, <1>8, <2>2, QuietConns DEF ThreadEvents, Holding,
         service, listen, pool, loop, ends, conns
  <1>. QED BY <1>5, <1>6, <1>7, <1>8 DEF MainLoop

\* A step that opens or closes what is the main thread's alone.
LEMMA TableStep ==
    ASSUME StartInv, NEW X, TableOK(log', fds'), SameBut(X, fds, fds'),
           X \subseteq {FreeFd, <<"log">>, <<"listen">>, <<"listen epoll">>},
           UNCHANGED <<backlog, listen, pool, epoll_fd, destroyed, conns>>,
           mpc' # "log", Members', PhaseInv', SocketInv'
    PROVE  StartInv'
  <1>1. /\ \A t \in Threads : <<"epoll", t>> \notin X
        /\ \A c \in Conns : <<"conn", c>> \notin X
    BY ObjectsDiffer
  <1>2. EpollInv'
    BY <1>1, KeepEpoll DEF StartInv, pool
  <1>3. ConnInv'
    BY <1>1, KeepConns DEF StartInv, pool, listen, conns, Holding
  <1>. QED BY <1>2, <1>3, StepInv

\* What a step that writes to the log at most leaves of the listening socket.
LEMMA SocketKept ==
    ASSUME NEW d, NEW e, SameBut({<<"log">>}, d, e)
    PROVE  \A f \in Fds : /\ e[f] = <<"listen">> <=> d[f] = <<"listen">>
                          /\ e[f] = <<"listen epoll">> <=> d[f] = <<"listen epoll">>
  BY ObjectsDiffer, ObjectTypes DEF SameBut

\* Two steps on the table, one after the other.
LEMMA SameTwice ==
    ASSUME NEW X, NEW Y, NEW d, NEW e, NEW f, SameBut(X, d, e), SameBut(Y, e, f)
    PROVE  SameBut(X \cup Y, d, f)
  BY DEF SameBut

LEMMA InitLogStep == ASSUME StartInv, InitLog PROVE StartInv'
  <1>1. TableOK(log, fds) /\ ~log.init
    BY DEF StartInv, FilesInv, InitLog, Main
  <1>2. PICK r \in LogWrite(log, fds) : log' = r.log /\ fds' = r.fds
    BY <1>1 DEF InitLog, LogWrite
  <1>3. TableOK(log', fds') /\ SameBut({<<"log">>}, fds, fds')
    BY <1>1, <1>2, LogWriteOK
  <1>4. SocketInv'
    BY <1>3, SocketKept DEF StartInv, InitLog, Main, SocketInv, NotOpen, service
  <1>5. Members /\ PhaseInv
    BY TypeParts DEF StartInv
  <1>6. Members' /\ PhaseInv'
    BY <1>5 DEF InitLog, Main, Members, PhaseInv, service, listen, pool, loop, ends, conns
  <1>. QED BY <1>3, <1>4, <1>6, TableStep DEF InitLog, Main, ends

LEMMA CreateSocketStep == ASSUME StartInv, CreateSocket PROVE StartInv'
  <1>1. TableOK(log, fds) /\ NotOpen(<<"listen">>) /\ NotOpen(<<"listen epoll">>)
    BY DEF StartInv, FilesInv, SocketInv, CreateSocket, Main
  <1>2. PICK r \in LogWrite(log, fds) :
            /\ log' = r.log
            /\ \/ fds' = r.fds /\ listen_fd' = -1
               \/ fds' = Opened(r.fds, <<"listen">>) /\ listen_fd' = Lowest(r.fds)
    BY DEF CreateSocket
  <1>3. PICK d : d = r.fds
    OBVIOUS
  <1>4. TableOK(log', d) /\ SameBut({<<"log">>}, fds, d)
    BY <1>1, <1>2, <1>3, LogWriteOK
  <1>5. \A f \in Fds : d[f] # <<"listen">> /\ d[f] # <<"listen epoll">>
    BY <1>1, <1>4, SocketKept DEF NotOpen
  <1>6. /\ TableOK(log', fds') /\ SameBut({<<"log">>, <<"listen">>}, fds, fds')
        /\ \/ listen_fd' = -1
           \/ listen_fd' \in Fds /\ fds'[listen_fd'] = <<"listen">>
    <2>1. CASE fds' = d /\ listen_fd' = -1
      <3>1. SameBut({<<"log">>, <<"listen">>}, fds, d)
        BY <1>4 DEF SameBut
      <3>. QED BY <1>4, <2>1, <3>1, Zenon
    <2>2. CASE fds' = Opened(d, <<"listen">>) /\ listen_fd' = Lowest(d)
      <3>1. /\ TableOK(log', fds') /\ SameBut({<<"listen">>}, d, fds')
            /\ listen_fd' \in Fds /\ fds'[listen_fd'] = <<"listen">>
        BY <1>4, <1>5, <2>2, OpenedOK, ObjectsDiffer, ObjectTypes
      <3>2. SameBut({<<"log">>} \cup {<<"listen">>}, fds, fds')
        BY <1>4, <3>1, SameTwice
      <3>3. {<<"log">>} \cup {<<"listen">>} = {<<"log">>, <<"listen">>}
        OBVIOUS
      <3>. QED BY <3>1, <3>2, <3>3
    <2>. QED BY <1>2, <1>3, <2>1, <2>2
  <1>7. NotOpen(<<"listen epoll">>)'
    BY <1>1, <1>6, ObjectsDiffer, ObjectTypes DEF SameBut, NotOpen
  <1>8. SocketInv'
    BY <1>6, <1>7 DEF SocketInv, CreateSocket, Main
  <1>9. Members /\ PhaseInv
    BY TypeParts DEF StartInv
  <1>10. Members' /\ PhaseInv'
    BY <1>6, <1>9 DEF CreateSocket, Main, Members, PhaseInv, service, listen, pool,
       loop, ends, conns
  <1>. QED BY <1>6, <1>8, <1>10, TableStep DEF CreateSocket, Main, ends

LEMMA CreateEpollStep == ASSUME StartInv, CreateEpoll PROVE StartInv'
  <1>1. /\ TableOK(log, fds) /\ NotOpen(<<"listen epoll">>)
        /\ listen_fd \in Fds /\ fds[listen_fd] = <<"listen">>
    BY DEF StartInv, FilesInv, SocketInv, CreateEpoll, Main
  <1>2. TableOK(log', fds') /\ SameBut({<<"listen epoll">>}, fds, fds')
    BY <1>1, OpenedOK, ObjectsDiffer, ObjectTypes DEF CreateEpoll, NotOpen
  <1>3. fds'[listen_fd] = <<"listen">>
    BY <1>1, <1>2, ObjectsDiffer, ObjectTypes DEF SameBut
  <1>4. SocketInv'
    BY <1>1, <1>3 DEF SocketInv, CreateEpoll, Main, service
  <1>5. Members /\ PhaseInv
    BY TypeParts DEF StartInv
  <1>6. Members' /\ PhaseInv'
    BY <1>5 DEF CreateEpoll, Main, Members, PhaseInv, service, listen, pool, loop,
       ends, conns
  <1>. QED BY <1>2, <1>4, <1>6, TableStep DEF CreateEpoll, Main, ends

\* A line is written and the listening socket is closed.
LEMMA InitFailsStep == ASSUME StartInv, InitFails PROVE StartInv'
  <1>1. /\ TableOK(log, fds) /\ mpc \in {"bind", "epoll", "add"}
        /\ \/ listen_fd = -1
           \/ listen_fd \in Fds /\ fds[listen_fd] = <<"listen">>
    <2>1. mpc \in {"bind", "epoll", "add"}
      BY DEF InitFails, Main
    <2>2. TableOK(log, fds) /\ listen_fd \in Fds \cup {-1} /\ SocketInv
      BY <2>1 DEF StartInv, TypeOK, FilesInv
    <2>. QED BY <2>1, <2>2 DEF SocketInv
  <1>2. PICK r \in LogWrite(log, fds) :
            log' = r.log /\ fds' = Closed(r.fds, {listen_fd})
    BY DEF InitFails, ReportError, LogsThenCloses
  <1>3. PICK d : d = r.fds
    OBVIOUS
  <1>4. TableOK(log', d) /\ SameBut({<<"log">>}, fds, d)
    BY <1>1, <1>2, <1>3, LogWriteOK
  <1>5. \A f \in Fds : f \in {listen_fd} => d[f] = <<"listen">>
    <2>1. -1 \notin Fds
      BY FdsAssumption
    <2>2. \A f \in Fds : d[f] = <<"listen">> <=> fds[f] = <<"listen">>
      BY <1>4, SocketKept
    <2>. QED BY <1>1, <2>1, <2>2
  <1>6. /\ TableOK(log', Closed(d, {listen_fd}))
        /\ SameBut({d[f] : f \in Fds \cap {listen_fd}}, d, Closed(d, {listen_fd}))
        /\ \A f \in Fds : f \in {listen_fd} => Closed(d, {listen_fd})[f] = FreeFd
    <2>1. \A f \in Fds : f \in {listen_fd} => d[f] # <<"log">>
      BY <1>5, ObjectsDiffer
    <2>2. PICK nums : nums = {listen_fd}
      OBVIOUS
    <2>3. \A f \in Fds : f \in nums => d[f] # <<"log">>
      BY <2>1, <2>2
    <2>4. /\ TableOK(log', Closed(d, nums))
          /\ SameBut({d[f] : f \in Fds \cap nums}, d, Closed(d, nums))
          /\ \A f \in Fds : f \in nums => Closed(d, nums)[f] = FreeFd
      BY <1>4, <2>3, ClosedOK
    <2>. QED BY <2>2, <2>4, Zenon
  <1>. DEFINE Y == {d[f] : f \in Fds \cap {listen_fd}}
  <1>7. Y \subseteq {<<"listen">>}
    BY <1>5
  <1>. HIDE DEF Y
  <1>8. SameBut({<<"log">>} \cup Y, fds, fds')
    BY <1>2, <1>3, <1>4, <1>6, SameTwice DEF Y
  <1>9. SocketInv'
    BY <1>1, <1>2, <1>3, <1>6 DEF SocketInv, InitFails, Main, service
  <1>10. Members /\ PhaseInv
    BY TypeParts DEF StartInv
  <1>11. Members' /\ PhaseInv'
    BY <1>1, <1>10 DEF InitFails, Main, Members, PhaseInv, service, listen, pool, loop,
       ends, conns
  <1>12. {<<"log">>} \cup Y \subseteq
            {FreeFd, <<"log">>, <<"listen">>, <<"listen epoll">>}
    BY <1>7
  <1>13. TableOK(log', fds')
    BY <1>2, <1>3, <1>6
  <1>. QED BY <1>8, <1>9, <1>11, <1>12, <1>13, TableStep DEF InitFails, Main, ends

\* The destructor closes the number of the socket, which is free after a failed
\* start and the socket's otherwise.
LEMMA CloseSocketStep ==
    ASSUME StartInv, DestroyFailed \/ DestroyService PROVE StartInv'
  <1>1. /\ TableOK(log, fds)
        /\ \A f \in Fds : f \in {listen_fd} => fds[f] \in {FreeFd, <<"listen">>}
    <2>1. mpc \in {"failed", "stopped"}
      BY DEF DestroyFailed, DestroyService, Main
    <2>2. TableOK(log, fds) /\ SocketInv /\ -1 \notin Fds
      BY <2>1, FdsAssumption DEF StartInv, FilesInv
    <2>. QED BY <2>1, <2>2 DEF SocketInv
  <1>2. log' = log /\ fds' = Closed(fds, {listen_fd})
    BY DEF DestroyFailed, DestroyService
  <1>. DEFINE Y == {fds[f] : f \in Fds \cap {listen_fd}}
  <1>3. TableOK(log', fds') /\ SameBut(Y, fds, fds')
    BY <1>1, <1>2, ClosedOK, ObjectsDiffer
  <1>4. Y \subseteq {FreeFd, <<"log">>, <<"listen">>, <<"listen epoll">>}
    BY <1>1
  <1>. HIDE DEF Y
  <1>5. Members /\ PhaseInv
    BY TypeParts DEF StartInv
  <1>6. Members' /\ PhaseInv'
    BY <1>5 DEF DestroyFailed, DestroyService, Main, Members, PhaseInv, service,
       listen, pool, loop, ends, conns
  <1>7. SocketInv'
    BY DEF SocketInv, DestroyFailed, DestroyService, Main
  <1>. QED BY <1>3, <1>4, <1>6, <1>7, TableStep DEF DestroyFailed, DestroyService,
       Main, ends

\* A step of another thread leaves the listening socket alone.
LEMMA KeepSocket ==
    ASSUME SocketInv, listen_fd \in Fds \cup {-1}, mpc # "failed",
           UNCHANGED <<mpc, listen_fd>>, NEW X, SameBut(X, fds, fds'),
           <<"listen">> \notin X, <<"listen epoll">> \notin X
    PROVE  SocketInv'
  <1>1. \A f \in Fds :
            /\ fds'[f] = <<"listen">> <=> fds[f] = <<"listen">>
            /\ fds'[f] = <<"listen epoll">> <=> fds[f] = <<"listen epoll">>
    BY ObjectsDiffer, ObjectTypes DEF SameBut
  <1>. QED BY <1>1 DEF SocketInv, NotOpen

\* The epoll of the next thread is created, or could not be.
LEMMA BuildEpollStep == ASSUME StartInv, BuildEpoll PROVE StartInv'
  <1>1. Members /\ PhaseInv /\ EpollInv /\ ConnInv /\ SocketInv
    BY TypeParts DEF StartInv
  <1>2. mpc \in {"manager", "up", "stopped", "terminate", "destroy", "join", "unload"}
    BY Begun DEF BuildEpoll
  <1>3. TableOK(log, fds)
    BY <1>2 DEF StartInv, FilesInv
  <1>4. PICK b \in Threads : b = built
    BY <1>1, ThreadNumAssumption DEF BuildEpoll, Members, Threads
  <1>5. \A f \in Fds : fds[f] # <<"epoll", b>>
    BY <1>1, <1>4, ThreadNumAssumption DEF EpollInv, NotOpen, Threads
  <1>6. /\ TableOK(log', fds')
        /\ SameBut({<<"log">>, <<"epoll", b>>}, fds, fds')
        /\ epoll_fd' \in [Threads -> Fds \cup {0, -1}]
        /\ \A t \in Threads : t # b => epoll_fd'[t] = epoll_fd[t]
        /\ \/ epoll_fd'[b] = NoEpoll
           \/ epoll_fd'[b] \in Fds /\ fds'[epoll_fd'[b]] = <<"epoll", b>>
    <2>1. CASE /\ epoll_fd' = [epoll_fd EXCEPT ![built] = Lowest(fds)]
               /\ fds' = Opened(fds, <<"epoll", built>>)
               /\ UNCHANGED log
      <3>1. /\ Lowest(fds) \in Fds /\ TableOK(log, fds')
            /\ fds'[Lowest(fds)] = <<"epoll", b>>
            /\ SameBut({<<"epoll", b>>}, fds, fds')
        BY <1>3, <1>4, <1>5, <2>1, OpenedOK, ObjectsDiffer, ObjectTypes, ZenonT(40)
      <3>2. SameBut({<<"log">>, <<"epoll", b>>}, fds, fds')
        BY <3>1 DEF SameBut
      <3>3. /\ epoll_fd' \in [Threads -> Fds \cup {0, -1}] /\ epoll_fd'[b] = Lowest(fds)
            /\ \A t \in Threads : t # b => epoll_fd'[t] = epoll_fd[t]
        BY <1>1, <1>4, <2>1, <3>1 DEF Members
      <3>. QED BY <2>1, <3>1, <3>2, <3>3
    <2>2. CASE epoll_fd' = [epoll_fd EXCEPT ![built] = NoEpoll] /\ Logs
      <3>1. TableOK(log', fds') /\ SameBut({<<"log">>}, fds, fds')
        BY <1>3, <2>2, LogsKeeps
      <3>2. SameBut({<<"log">>, <<"epoll", b>>}, fds, fds')
        BY <3>1 DEF SameBut
      <3>3. /\ epoll_fd' \in [Threads -> Fds \cup {0, -1}] /\ epoll_fd'[b] = NoEpoll
            /\ \A t \in Threads : t # b => epoll_fd'[t] = epoll_fd[t]
        BY <1>1, <1>4, <2>2 DEF Members, NoEpoll
      <3>. QED BY <3>1, <3>2, <3>3
    <2>. QED BY <2>1, <2>2 DEF BuildEpoll
  <1>7. Members' /\ PhaseInv'
    BY <1>1, <1>6, ThreadNumAssumption DEF BuildEpoll, Members, PhaseInv, service,
       listen, loop, ends, conns
  <1>8. SocketInv'
    <2>1. /\ <<"listen">> \notin {<<"log">>, <<"epoll", b>>}
          /\ <<"listen epoll">> \notin {<<"log">>, <<"epoll", b>>}
      BY ObjectsDiffer
    <2>. QED BY <1>1, <1>2, <1>6, <2>1, KeepSocket DEF BuildEpoll, Members, service
  <1>9. ConnInv'
    <2>1. \A c \in Conns : <<"conn", c>> \notin {<<"log">>, <<"epoll", b>>}
      BY ObjectsDiffer
    <2>. QED BY <1>1, <1>6, <2>1, KeepConns DEF BuildEpoll, Holding, listen, conns, ends
  <1>10. EpollInv'
    <2>1. \A t \in Threads, f \in Fds : t # b =>
                (fds'[f] = <<"epoll", t>> <=> fds[f] = <<"epoll", t>>)
      BY <1>6, ObjectsDiffer, ObjectTypes DEF SameBut
    <2>2. built' = b + 1 /\ destroyed' = destroyed /\ built = b
      BY <1>4 DEF BuildEpoll, ends
    <2>3. \A t \in Threads : t >= b + 1 => NotOpen(<<"epoll", t>>)'
      BY <1>1, <2>1, <2>2, ThreadNumAssumption DEF EpollInv, NotOpen, Threads
    <2>4. \A t \in Threads : t < b + 1 => t < b \/ t = b
      BY ThreadNumAssumption DEF Threads
    <2>5. ASSUME NEW t \in Threads, t < b, t \notin destroyed, epoll_fd'[t] # NoEpoll
          PROVE  epoll_fd'[t] \in Fds /\ fds'[epoll_fd'[t]] = <<"epoll", t>>
      <3>1. t # b
        BY <2>5, ThreadNumAssumption DEF Threads
      <3>2. epoll_fd'[t] = epoll_fd[t]
        BY <1>6, <3>1
      <3>3. epoll_fd[t] \in Fds /\ fds[epoll_fd[t]] = <<"epoll", t>>
        BY <1>1, <2>2, <2>5, <3>2 DEF EpollInv
      <3>. QED BY <2>1, <3>1, <3>2, <3>3
    <2>. QED BY <1>6, <2>2, <2>3, <2>4, <2>5 DEF EpollInv
  <1>. QED BY <1>2, <1>6, <1>7, <1>8, <1>9, <1>10, StepInv DEF BuildEpoll

\* What stays of a queue when its head is taken.
LEMMA TailFacts ==
    ASSUME NEW q \in Seq(Conns), q # <<>>,
           \A i, j \in DOMAIN q : q[i] = q[j] => i = j
    PROVE  /\ Head(q) \in Conns /\ Tail(q) \in Seq(Conns)
           /\ \E i \in DOMAIN q : q[i] = Head(q)
           /\ \A i, j \in DOMAIN Tail(q) : Tail(q)[i] = Tail(q)[j] => i = j
           /\ \A i \in DOMAIN Tail(q) : Tail(q)[i] # Head(q)
           /\ \A i \in DOMAIN Tail(q) : \E j \in DOMAIN q : q[j] = Tail(q)[i]
  <1>1. /\ Len(q) \in Nat /\ Len(q) >= 1 /\ DOMAIN q = 1..Len(q)
        /\ Head(q) = q[1] /\ Tail(q) \in Seq(Conns)
        /\ DOMAIN Tail(q) = 1..(Len(q) - 1)
        /\ \A i \in 1..(Len(q) - 1) : Tail(q)[i] = q[i + 1]
    BY HeadTailProperties, EmptySeq
  <1>2. \A i \in 1..(Len(q) - 1) : i + 1 \in 1..Len(q) /\ i + 1 # 1
    BY <1>1
  <1>3. 1 \in DOMAIN q /\ q[1] \in Conns
    BY <1>1, ElementOfSeq
  <1>4. ASSUME NEW i \in DOMAIN Tail(q), NEW j \in DOMAIN Tail(q), Tail(q)[i] = Tail(q)[j]
        PROVE  i = j
    <2>1. i + 1 = j + 1
      BY <1>1, <1>2, <1>4
    <2>. QED BY <1>1, <2>1
  <1>. QED BY <1>1, <1>2, <1>3, <1>4

\* The connection at the head of the backlog is opened and handed over.
LEMMA AcceptStep == ASSUME StartInv, AcceptConnection PROVE StartInv'
  <1>1. Members /\ PhaseInv /\ EpollInv /\ ConnInv /\ SocketInv
    BY TypeParts DEF StartInv
  <1>2. mpc \in {"manager", "up", "stopped", "terminate", "destroy", "join", "unload"}
    BY Begun DEF AcceptConnection
  <1>3. TableOK(log, fds)
    BY <1>2 DEF StartInv, FilesInv
  <1>4. /\ backlog \in Seq(Conns) /\ backlog # <<>>
        /\ \A i, j \in DOMAIN backlog : backlog[i] = backlog[j] => i = j
    BY <1>1 DEF Members, ConnInv, AcceptConnection
  <1>5. PICK a \in Conns : a = Head(backlog)
    BY <1>4, TailFacts
  <1>6. /\ backlog' = Tail(backlog) /\ backlog' \in Seq(Conns) /\ Waits(a)
        /\ \A i, j \in DOMAIN backlog' : backlog'[i] = backlog'[j] => i = j
        /\ ~Waits(a)' /\ \A c \in Conns : Waits(c)' => Waits(c)
    BY <1>4, <1>5, TailFacts DEF AcceptConnection, Waits
  <1>7. connectors[a] = Nobody /\ \A f \in Fds : fds[f] # <<"conn", a>>
    BY <1>1, <1>6 DEF ConnInv, NotOpen
  <1>8. PICK d : d = Opened(fds, <<"conn", a>>)
    OBVIOUS
  <1>9. PICK r \in LogWrite(log, d) : log' = r.log /\ fds' = r.fds
    BY <1>5, <1>8 DEF AcceptConnection
  <1>10. /\ lfd' \in Fds /\ d[lfd'] = <<"conn", a>>
         /\ TableOK(log, d) /\ SameBut({<<"conn", a>>}, fds, d)
    BY <1>3, <1>7, <1>8, OpenedOK, ObjectsDiffer, ObjectTypes, ZenonT(40) DEF AcceptConnection
  <1>11. TableOK(log', fds') /\ SameBut({<<"log">>}, d, fds')
    BY <1>9, <1>10, LogWriteOK
  <1>12. PICK X : X = {<<"conn", a>>} \cup {<<"log">>}
    OBVIOUS
  <1>13. SameBut(X, fds, fds')
    BY <1>10, <1>11, <1>12, SameTwice
  <1>14. fds'[lfd'] = <<"conn", a>>
    BY <1>10, <1>11, ObjectsDiffer, ObjectTypes DEF SameBut
  <1>15. Members' /\ PhaseInv'
    BY <1>1, <1>6, <1>10 DEF AcceptConnection, Members, PhaseInv, service,
       pool, loop, ends, conns
  <1>16. SocketInv'
    <2>1. <<"listen">> \notin X /\ <<"listen epoll">> \notin X
      BY <1>12, ObjectsDiffer
    <2>. QED BY <1>1, <1>2, <1>13, <2>1, KeepSocket DEF AcceptConnection, Members, service
  <1>17. EpollInv'
    <2>1. \A t \in Threads : <<"epoll", t>> \notin X
      BY <1>12, ObjectsDiffer
    <2>. QED BY <1>1, <1>13, <2>1, KeepEpoll DEF AcceptConnection, pool, ends
  <1>18. ConnInv'
    <2>1. \A c \in Conns : c # a => (NotOpen(<<"conn", c>>)' <=> NotOpen(<<"conn", c>>))
      BY <1>12, <1>13, ObjectsDiffer, ObjectTypes DEF SameBut, NotOpen
    <2>2. UNCHANGED <<manager, destroyed, epoll_fd, connectors, watch>> /\ lpc' = "instance"
      BY DEF AcceptConnection, pool, ends, conns
    <2>3. Handed(a)'
      BY <1>7, <1>10, <1>14, <2>2 DEF Handed
    <2>4. ASSUME NEW c \in Conns, Waits(c)'
          PROVE  connectors'[c] = Nobody /\ NotOpen(<<"conn", c>>)'
      BY <1>1, <1>6, <2>1, <2>2, <2>4 DEF ConnInv
    <2>5. ASSUME NEW c \in Conns, connectors'[c] # Nobody PROVE Mapped(c)'
      BY <1>1, <1>7, <2>1, <2>2, <2>5 DEF ConnInv, Mapped
    <2>. QED BY <1>6, <2>3, <2>4, <2>5 DEF ConnInv
  <1>. QED BY <1>2, <1>11, <1>15, <1>16, <1>17, <1>18, StepInv DEF AcceptConnection

\* A client's connection joins the backlog.
LEMMA ConnectStep == ASSUME StartInv, NEW a \in Conns, Connect(a) PROVE StartInv'
  <1>1. Members /\ PhaseInv /\ ConnInv
    BY TypeParts DEF StartInv
  <1>2. /\ backlog \in Seq(Conns) /\ backlog' = Append(backlog, a) /\ ~Waits(a)
        /\ NotOpen(<<"conn", a>>) /\ mpc \in {"epoll", "add", "run", "manager", "up"}
    BY <1>1 DEF Connect, Members, Waits, NotOpen
  <1>3. /\ backlog' \in Seq(Conns) /\ Len(backlog) \in Nat
        /\ DOMAIN backlog = 1..Len(backlog) /\ DOMAIN backlog' = 1..(Len(backlog) + 1)
        /\ \A i \in 1..Len(backlog) : backlog'[i] = backlog[i]
        /\ backlog'[Len(backlog) + 1] = a
    BY <1>2, AppendProperties, LenProperties
  <1>4. connectors[a] = Nobody
    BY <1>1, <1>2 DEF ConnInv, Mapped, PhaseInv
  <1>5. UNCHANGED files
    BY DEF Connect
  <1>6. Members' /\ PhaseInv' /\ Moves
    BY <1>1, <1>3 DEF Connect, Members, PhaseInv, Moves, service, listen, pool, loop,
       ends, conns
  <1>7. \A i \in 1..(Len(backlog) + 1) : i \in 1..Len(backlog) \/ i = Len(backlog) + 1
    BY <1>3
  <1>8. \A i, j \in DOMAIN backlog' : backlog'[i] = backlog'[j] => i = j
    BY <1>1, <1>2, <1>3, <1>7 DEF ConnInv, Waits
  <1>9. ConnInv'
    <2>1. UNCHANGED <<fds, manager, destroyed, epoll_fd, connectors, watch, lpc, lfd>>
      BY DEF Connect, files, pool, ends, conns, listen
    <2>2. \A c \in Conns : Waits(c)' => Waits(c) \/ c = a
      BY <1>3, <1>7 DEF Waits
    <2>3. \A c \in Conns : (Handed(c)' <=> Handed(c)) /\ (Mapped(c)' <=> Mapped(c))
      BY <2>1 DEF Handed, Watched, Target, Mapped, NotOpen
    <2>4. \A c \in Conns : NotOpen(<<"conn", c>>)' <=> NotOpen(<<"conn", c>>)
      BY <2>1 DEF NotOpen
    <2>. QED BY <1>1, <1>2, <1>4, <1>8, <2>1, <2>2, <2>3, <2>4 DEF ConnInv
  <1>. QED BY <1>2, <1>5, <1>6, <1>9, QuietStep DEF Connect, service, pool, ends

\* The listen thread's connection goes to a thread of the manager.
LEMMA TargetThread == ASSUME Members PROVE Target \in Threads
  <1>1. lfd \in Nat
    BY FdsAssumption DEF Members
  <1>. QED BY <1>1, ThreadNumAssumption DEF Target, hash_index, Threads

\* The number of a thread's epoll is open on it.
LEMMA EpollFound ==
    ASSUME StartInv, manager = "ready", NEW t \in Threads, t \notin destroyed,
           epoll_fd[t] # NoEpoll
    PROVE  EpollOf(epoll_fd[t]) = t
  <1>1. epoll_fd[t] \in Fds /\ fds[epoll_fd[t]] = <<"epoll", t>>
    <2>1. t < built
      BY ThreadNumAssumption DEF StartInv, PhaseInv, Threads
    <2>. QED BY <2>1 DEF StartInv, EpollInv
  <1>2. \A u \in Threads : fds[epoll_fd[t]] = <<"epoll", u>> => u = t
    BY <1>1, ObjectsDiffer
  <1>3. (CHOOSE u \in Threads : fds[epoll_fd[t]] = <<"epoll", u>>) = t
    BY <1>1, <1>2
  <1>. QED BY <1>1, <1>3 DEF EpollOf

\* The connection that the listen thread has is watched, if it can be.
LEMMA AddToEpollStep == ASSUME StartInv, AddToEpoll PROVE StartInv'
  <1>1. Members /\ PhaseInv /\ ConnInv
    BY TypeParts DEF StartInv
  <1>2. mpc \in {"manager", "up", "stopped", "terminate", "destroy", "join", "unload"}
    BY Begun DEF AddToEpoll
  <1>3. PICK a \in Conns : Handed(a)
    BY <1>1 DEF AddToEpoll, ConnInv
  <1>4. fds[lfd][2] = a /\ manager = "ready"
    BY <1>1, <1>3 DEF Handed, AddToEpoll, PhaseInv
  <1>5. PICK g \in Threads : g = Target
    BY <1>1, TargetThread
  <1>6. PICK t \in Threads \cup {Nobody} : t = EpollOf(epoll_fd[g])
    BY DEF EpollOf
  <1>7. /\ watch' = IF t = Nobody THEN watch ELSE [watch EXCEPT ![t] = @ \cup {a}]
        /\ g \notin destroyed
    BY <1>4, <1>5, <1>6 DEF AddToEpoll
  <1>8. /\ watch' \in [Threads -> SUBSET Conns]
        /\ \A u \in Threads : watch[u] \subseteq watch'[u]
        /\ t # Nobody => a \in watch'[t]
    BY <1>1, <1>7 DEF Members
  <1>9. epoll_fd[g] # NoEpoll => t = g /\ t # Nobody
    <2>1. g # Nobody
      BY ThreadNumAssumption DEF Threads, Nobody
    <2>. QED BY <1>4, <1>6, <1>7, <2>1, EpollFound
  <1>10. Members' /\ PhaseInv' /\ Moves
    BY <1>1, <1>4, <1>8 DEF AddToEpoll, Members, PhaseInv, Moves, service, pool, loop, ends
  <1>11. ASSUME SameBut({<<"log">>}, fds, fds') PROVE ConnInv'
    <2>1. \A c \in Conns, f \in Fds :
              fds'[f] = <<"conn", c>> <=> fds[f] = <<"conn", c>>
      BY <1>11, ObjectsDiffer, ObjectTypes DEF SameBut
    <2>2. \A c \in Conns : NotOpen(<<"conn", c>>)' <=> NotOpen(<<"conn", c>>)
      BY <2>1 DEF NotOpen
    <2>3. UNCHANGED <<manager, destroyed, epoll_fd, connectors, backlog, lfd>>
      BY DEF AddToEpoll, pool, ends
    <2>4. Target' = g
      BY <1>5, <2>3 DEF Target
    <2>5. Watched(a)'
      BY <1>8, <1>9, <2>3, <2>4 DEF Watched
    <2>6. Handed(a)'
      BY <1>3, <2>1, <2>3, <2>5 DEF Handed
    <2>7. \A c \in Conns : Waits(c)' <=> Waits(c)
      BY <2>3 DEF Waits
    <2>8. ASSUME NEW c \in Conns, connectors'[c] # Nobody PROVE Mapped(c)'
      <3>1. Mapped(c) /\ connectors[c] \in Threads
        BY <1>1, <2>3, <2>8 DEF ConnInv, Members
      <3>. QED BY <1>8, <2>2, <2>3, <3>1 DEF Mapped
    <2>. QED BY <1>1, <2>2, <2>3, <2>6, <2>7, <2>8 DEF ConnInv
  <1>. QED BY <1>2, <1>10, <1>11, QuietStep DEF AddToEpoll, service, pool, ends

\* It is put into the map of the thread that watches it.
LEMMA InsertStep == ASSUME StartInv, InsertConnector PROVE StartInv'
  <1>1. Members /\ PhaseInv /\ ConnInv
    BY TypeParts DEF StartInv
  <1>2. mpc \in {"manager", "up", "stopped", "terminate", "destroy", "join", "unload"}
    BY Begun DEF InsertConnector
  <1>3. PICK a \in Conns : Handed(a)
    BY <1>1 DEF InsertConnector, ConnInv
  <1>4. /\ fds[lfd][2] = a /\ manager = "ready" /\ Watched(a)
        /\ lfd \in Fds /\ fds[lfd] = <<"conn", a>>
    BY <1>1, <1>3 DEF Handed, InsertConnector, PhaseInv
  <1>5. PICK g \in Threads : g = Target
    BY <1>1, TargetThread
  <1>6. /\ connectors' \in [Conns -> Threads \cup {Nobody}] /\ connectors'[a] = g
        /\ \A c \in Conns : c # a => connectors'[c] = connectors[c]
    BY <1>1, <1>4, <1>5 DEF InsertConnector, Members
  <1>7. Members' /\ PhaseInv' /\ Moves
    BY <1>1, <1>4, <1>6 DEF InsertConnector, Members, PhaseInv, Moves, service, pool,
       loop, ends
  <1>8. ASSUME SameBut({<<"log">>}, fds, fds') PROVE ConnInv'
    <2>1. \A c \in Conns, f \in Fds :
              fds'[f] = <<"conn", c>> <=> fds[f] = <<"conn", c>>
      BY <1>8, ObjectsDiffer, ObjectTypes DEF SameBut
    <2>2. \A c \in Conns : NotOpen(<<"conn", c>>)' <=> NotOpen(<<"conn", c>>)
      BY <2>1 DEF NotOpen
    <2>3. /\ UNCHANGED <<manager, destroyed, epoll_fd, watch, backlog, lfd>>
          /\ lpc' = "loop"
      BY DEF InsertConnector, pool, ends
    <2>4. \A c \in Conns : Waits(c)' <=> Waits(c)
      BY <2>3 DEF Waits
    <2>5. ~NotOpen(<<"conn", a>>) /\ ~Waits(a)
      BY <1>1, <1>4 DEF NotOpen, ConnInv
    <2>6. Mapped(a)'
      BY <1>4, <1>5, <1>6, <2>2, <2>3, <2>5 DEF Mapped, Watched
    <2>7. ASSUME NEW c \in Conns, c # a, connectors'[c] # Nobody PROVE Mapped(c)'
      BY <1>1, <1>6, <2>2, <2>3, <2>7 DEF ConnInv, Mapped
    <2>8. ASSUME NEW c \in Conns, Waits(c)'
          PROVE  connectors'[c] = Nobody /\ NotOpen(<<"conn", c>>)'
      BY <1>1, <1>6, <2>2, <2>4, <2>5, <2>8 DEF ConnInv
    <2>. QED BY <1>1, <2>3, <2>6, <2>7, <2>8 DEF ConnInv
  <1>. QED BY <1>2, <1>7, <1>8, QuietStep DEF InsertConnector, service, pool, ends

\* Numbers of objects in Y are closed, a line is written, and more are closed.
LEMMA CloseLogClose ==
    ASSUME TableOK(log, fds), NEW a, NEW b, NEW Y,
           \A f \in Fds : f \in a \cup b => fds[f] \in Y,
           \A f \in Fds : ~(f \in a /\ f \in b),
           FreeFd \notin Y, <<"log">> \notin Y,
           NEW r \in LogWrite(log, Closed(fds, a))
    PROVE  /\ TableOK(r.log, Closed(r.fds, b))
           /\ SameBut(Y \cup {<<"log">>}, fds, Closed(r.fds, b))
  <1>1. fds \in [Fds -> Objects]
    BY DEF TableOK
  <1>2. PICK d : d = Closed(fds, a)
    OBVIOUS
  <1>3. TableOK(log, d) /\ \A f \in Fds : f \notin a => d[f] = fds[f]
    <2>1. TableOK(log, d)
      BY <1>2, ClosedOK
    <2>. QED BY <1>1, <1>2, <2>1 DEF Closed
  <1>4. SameBut(Y, fds, d)
    <2>1. SameBut({fds[f] : f \in Fds \cap a}, fds, d)
      BY <1>2, ClosedOK
    <2>. QED BY <2>1 DEF SameBut
  <1>5. PICK e : e = r.fds
    OBVIOUS
  <1>6. TableOK(r.log, e) /\ SameBut({<<"log">>}, d, e)
    BY <1>2, <1>3, <1>5, LogWriteOK
  <1>7. \A f \in Fds : f \in b => e[f] \in Y
    BY <1>1, <1>3, <1>6 DEF SameBut
  <1>8. TableOK(r.log, Closed(e, b))
    BY <1>6, <1>7, ClosedOK
  <1>9. SameBut(Y, e, Closed(e, b))
    <2>1. SameBut({e[f] : f \in Fds \cap b}, e, Closed(e, b))
      BY <1>6, <1>7, ClosedOK
    <2>. QED BY <1>7, <2>1 DEF SameBut
  <1>. QED BY <1>4, <1>5, <1>6, <1>8, <1>9 DEF SameBut

\* ~ConnectorThread closes the epoll and the connections of its own thread.
LEMMA DestroyThreadStep == ASSUME StartInv, DestroyThread PROVE StartInv'
  <1>1. Members /\ PhaseInv /\ EpollInv /\ ConnInv /\ SocketInv
    BY TypeParts DEF StartInv
  <1>2. mpc = "destroy" /\ mpc' = "join" /\ TableOK(log, fds)
    BY DEF DestroyThread, Main, StartInv, FilesInv
  <1>3. /\ manager = "ready" /\ built = ThreadNum /\ dying \in Threads
        /\ destroyed = 0..(dying - 1) /\ destroyed' = destroyed \cup {dying}
    BY <1>1, <1>2 DEF PhaseInv, Members, DestroyThread
  <1>4. dying \notin destroyed /\ dying < built /\ destroyed' = 0..dying
    BY <1>3, ThreadNumAssumption DEF Threads
  <1>5. \/ epoll_fd[dying] \notin Fds
        \/ epoll_fd[dying] \in Fds /\ fds[epoll_fd[dying]] = <<"epoll", dying>>
    <2>1. NoEpoll \notin Fds
      BY FdsAssumption DEF NoEpoll
    <2>. QED BY <1>1, <1>3, <1>4, <2>1 DEF EpollInv
  <1>6. PICK owned, n : owned = OwnedBy(dying) /\ n = epoll_fd[dying]
    OBVIOUS
  <1>7. PICK Z : Z = {<<"epoll", dying>>} \cup
                     {<<"conn", c>> : c \in {x \in Conns : connectors[x] = dying}}
    OBVIOUS
  <1>8. /\ \A f \in Fds : f \in {n} \cup owned => fds[f] \in Z
        /\ \A f \in Fds : ~(f \in {n} /\ f \in owned)
        /\ FreeFd \notin Z /\ <<"log">> \notin Z
    <2>1. \A f \in owned : \E c \in Conns : fds[f] = <<"conn", c>> /\ connectors[c] = dying
      BY <1>6 DEF OwnedBy
    <2>2. n \in Fds => fds[n] = <<"epoll", dying>>
      BY <1>5, <1>6
    <2>3. \A f \in owned : fds[f] \in Z
      BY <1>7, <2>1
    <2>4. \A f \in Fds : f \in {n} => fds[f] \in Z
      BY <1>7, <2>2
    <2>5. \A f \in Fds : ~(f \in {n} /\ f \in owned)
      <3>. SUFFICES ASSUME n \in Fds, n \in owned PROVE FALSE
        OBVIOUS
      <3>1. PICK c \in Conns : fds[n] = <<"conn", c>>
        BY <2>1
      <3>2. <<"epoll", dying>> = <<"conn", c>>
        BY <2>2, <3>1
      <3>. QED BY <3>2, ObjectsDiffer
    <2>6. FreeFd \notin Z
      BY <1>7, ObjectsDiffer
    <2>7. <<"log">> \notin Z
      BY <1>7, ObjectsDiffer
    <2>. QED BY <2>3, <2>4, <2>5, <2>6, <2>7
  <1>9. PICK Y : Y = Z \cup {<<"log">>}
    OBVIOUS
  <1>10. TableOK(log', fds') /\ SameBut(Y, fds, fds')
    <2>1. CASE owned = {} /\ fds' = Closed(fds, {n}) /\ UNCHANGED log
      <3>1. \A f \in Fds : f \in {n} => fds[f] # <<"log">>
        BY <1>8
      <3>2. PICK nums : nums = {n}
        OBVIOUS
      <3>3. TableOK(log, Closed(fds, nums)) /\
            SameBut({fds[f] : f \in Fds \cap nums}, fds, Closed(fds, nums))
        BY <1>2, <3>1, <3>2, ClosedOK
      <3>4. {fds[f] : f \in Fds \cap nums} \subseteq Y
        BY <1>8, <1>9, <3>2
      <3>. QED BY <2>1, <3>2, <3>3, <3>4 DEF SameBut
    <2>2. CASE \E gone \in (SUBSET owned) \ {owned} :
               \E r \in LogWrite(log, Closed(fds, {n} \cup gone)) :
                   log' = r.log /\ fds' = Closed(r.fds, owned \ gone)
      <3>1. PICK gone \in SUBSET owned :
               \E r \in LogWrite(log, Closed(fds, {n} \cup gone)) :
                   log' = r.log /\ fds' = Closed(r.fds, owned \ gone)
        BY <2>2
      <3>2. PICK before, after : before = {n} \cup gone /\ after = owned \ gone
        OBVIOUS
      <3>3. PICK r \in LogWrite(log, Closed(fds, before)) :
               log' = r.log /\ fds' = Closed(r.fds, after)
        BY <3>1, <3>2
      <3>4. /\ \A f \in Fds : f \in before \cup after => fds[f] \in Z
            /\ \A f \in Fds : ~(f \in before /\ f \in after)
        BY <1>8, <3>2
      <3>. QED BY <1>2, <1>8, <1>9, <3>3, <3>4, CloseLogClose
    <2>. QED BY <1>6, <2>1, <2>2 DEF DestroyThread
  <1>11. /\ <<"listen">> \notin Y
         /\ \A t \in Threads : t # dying => <<"epoll", t>> \notin Y
         /\ \A c \in Conns : connectors[c] # dying => <<"conn", c>> \notin Y
    <2>1. \A y \in Y : \/ y \in {<<"log">>, <<"epoll", dying>>}
                       \/ \E c \in Conns : y = <<"conn", c>> /\ connectors[c] = dying
      BY <1>7, <1>9
    <2>2. <<"listen">> \notin Y
      BY <2>1, ObjectsDiffer
    <2>3. ASSUME NEW t \in Threads, <<"epoll", t>> \in Y PROVE t = dying
      BY <2>1, <2>3, ObjectsDiffer
    <2>4. ASSUME NEW c \in Conns, <<"conn", c>> \in Y PROVE connectors[c] = dying
      BY <2>1, <2>4, ObjectsDiffer
    <2>. QED BY <2>2, <2>3, <2>4
  <1>12. Members' /\ PhaseInv'
    BY <1>1, <1>2, <1>3, <1>4 DEF DestroyThread, Members, PhaseInv, service, listen,
       pool, loop, conns
  <1>13. SocketInv'
    <2>1. listen_fd' = listen_fd /\ listen_fd \in Fds /\ fds[listen_fd] = <<"listen">>
      BY <1>1, <1>2 DEF SocketInv, DestroyThread, service
    <2>2. fds'[listen_fd] = <<"listen">>
      BY <1>10, <1>11, <2>1, ObjectsDiffer, ObjectTypes DEF SameBut
    <2>. QED BY <1>2, <2>1, <2>2 DEF SocketInv
  <1>14. EpollInv'
    <2>1. \A t \in Threads, f \in Fds : t # dying =>
                (fds'[f] = <<"epoll", t>> <=> fds[f] = <<"epoll", t>>)
      BY <1>10, <1>11, ObjectsDiffer, ObjectTypes DEF SameBut
    <2>2. UNCHANGED <<built, epoll_fd>> /\ \A t \in Threads : ~(t >= built)
      BY <1>3, ThreadNumAssumption DEF DestroyThread, pool, Threads
    <2>. QED BY <1>1, <1>3, <2>1, <2>2 DEF EpollInv
  <1>15. ConnInv'
    <2>1. UNCHANGED <<manager, epoll_fd, watch, connectors, backlog, lpc, lfd>>
      BY DEF DestroyThread, pool, listen, conns
    <2>2. \A c \in Conns, f \in Fds : connectors[c] # dying =>
                (fds'[f] = <<"conn", c>> <=> fds[f] = <<"conn", c>>)
      BY <1>10, <1>11, ObjectsDiffer, ObjectTypes DEF SameBut
    <2>3. dying # Nobody
      BY <1>3, ThreadNumAssumption DEF Threads, Nobody
    <2>4. \A c \in Conns : Waits(c)' <=> Waits(c)
      BY <2>1 DEF Waits
    <2>5. ASSUME NEW c \in Conns, Waits(c)'
          PROVE  connectors'[c] = Nobody /\ NotOpen(<<"conn", c>>)'
      BY <1>1, <2>1, <2>2, <2>3, <2>4, <2>5 DEF ConnInv, NotOpen
    <2>6. Target' = Target
      BY <2>1 DEF Target
    <2>7. ASSUME NEW c \in Conns, Handed(c) PROVE Handed(c)'
      BY <1>3, <2>1, <2>2, <2>3, <2>6, <2>7 DEF Handed, Watched
    <2>8. ASSUME NEW c \in Conns, connectors'[c] # Nobody PROVE Mapped(c)'
      <3>1. Mapped(c) /\ destroyed' # {}
        BY <1>1, <1>3, <2>1, <2>8 DEF ConnInv
      <3>. QED BY <1>3, <2>1, <3>1 DEF Mapped
    <2>. QED BY <1>1, <2>1, <2>5, <2>7, <2>8 DEF ConnInv
  <1>. QED BY <1>2, <1>10, <1>12, <1>13, <1>14, <1>15, StepInv

\* The log is closed with the end of the process.
LEMMA UnloadStep == ASSUME StartInv, Unload PROVE StartInv'
  <1>1. Members /\ PhaseInv /\ EpollInv /\ ConnInv
    BY TypeParts DEF StartInv
  <1>2. mpc' = "gone" /\ TableOK(log, fds)
    BY DEF Unload, Main, Running, StartInv, FilesInv
  <1>3. fds \in [Fds -> Objects] /\ log \in LogType /\ LogOK(log, fds)
    BY <1>2 DEF TableOK
  <1>4. log' \in LogType
    BY <1>3 DEF Unload, LogClosed, LogType
  <1>5. fds' \in [Fds -> Objects]
    BY <1>3, ObjectTypes DEF Unload, Closed
  <1>6. SameBut({<<"log">>}, fds, fds')
    <2>1. \A f \in Fds : f = log.fd => fds[f] = <<"log">>
      BY <1>3, FdsAssumption DEF LogOK, NewLog
    <2>2. \A f \in Fds : fds'[f] = IF f \in {log.fd} THEN FreeFd ELSE fds[f]
      BY <1>3 DEF Unload, Closed
    <2>. QED BY <2>1, <2>2 DEF SameBut
  <1>7. Members'
    BY <1>1 DEF Unload, Main, Members, service, listen, pool, loop, ends, conns
  <1>8. TypeOK'
    <2>1. TypeOK' <=> (fds \in [Fds -> Objects] /\ log \in LogType /\ Members)'
      BY TypeParts, PTL
    <2>. QED BY <1>4, <1>5, <1>7, <2>1
  <1>9. PhaseInv' /\ SocketInv' /\ FilesInv'
    BY <1>1, <1>2 DEF Unload, Main, PhaseInv, SocketInv, FilesInv, listen, pool, loop
  <1>10. EpollInv'
    <2>1. \A t \in Threads : <<"epoll", t>> \notin {<<"log">>}
      BY ObjectsDiffer
    <2>. QED BY <1>1, <1>6, <2>1, KeepEpoll DEF Unload, pool, ends
  <1>11. ConnInv'
    <2>1. \A c \in Conns : <<"conn", c>> \notin {<<"log">>}
      BY ObjectsDiffer
    <2>. QED BY <1>1, <1>6, <2>1, KeepConns DEF Unload, Holding, pool, listen, ends, conns
  <1>. QED BY <1>8, <1>9, <1>10, <1>11 DEF StartInv
--------------------------------------------------------------------------------
LEMMA StartStep == StartInv /\ [Next]_vars => StartInv'
  <1> SUFFICES ASSUME StartInv, [Next]_vars PROVE StartInv'
    OBVIOUS
  <1>1. CASE \E c \in Conns : Connect(c)
    BY <1>1, ConnectStep
  <1>2. CASE Start
    BY <1>2, InitLogStep, MainQuiet, CreateSocketStep, CreateEpollStep, InitFailsStep,
       CloseSocketStep DEF Start
  <1>3. CASE Manager
    BY <1>3, ManagerQuiet, BuildEpollStep DEF Manager
  <1>4. CASE ListenThread
    BY <1>4, ListenQuiet, AcceptStep, AddToEpollStep, InsertStep DEF ListenThread
  <1>5. CASE End
    BY <1>5, DestroyThreadStep, MainQuiet, UnloadStep DEF End
  <1>6. CASE \E t \in Threads : MainLoop(t)
    BY <1>6, ThreadQuiet
  <1>7. CASE Stop \/ Exit \/ DestroyService
    BY <1>7, MainQuiet, CloseSocketStep
  <1>8. CASE UNCHANGED vars
    <2>1. TypeOK'
      BY <1>8 DEF vars, files, service, listen, pool, loop, ends, conns, StartInv, TypeOK
    <2>2. FilesInv'
      BY <1>8 DEF vars, files, StartInv, FilesInv
    <2>3. SocketInv'
      BY <1>8 DEF vars, files, service, StartInv, SocketInv, NotOpen
    <2>4. PhaseInv'
      BY <1>8 DEF vars, listen, pool, loop, ends, StartInv, PhaseInv
    <2>5. EpollInv'
      BY <1>8 DEF vars, files, pool, ends, StartInv, EpollInv, NotOpen
    <2>6. ConnInv'
      <3>1. SameBut({}, fds, fds')
        BY <1>8 DEF vars, files, SameBut
      <3>. QED BY <1>8, <3>1, KeepConns DEF vars, listen, pool, ends, conns, StartInv, Holding
    <2>. QED BY <2>1, <2>2, <2>3, <2>4, <2>5, <2>6 DEF StartInv
  <1>. QED BY <1>1, <1>2, <1>3, <1>4, <1>5, <1>6, <1>7, <1>8 DEF Next

LEMMA AlwaysStart == Spec => []StartInv
  BY InitStart, StartStep, PTL DEF Spec

\* The members of the service, its threads and its log keep their types, however
\* the start, the listen thread, the connector threads and exit interleave.
THEOREM ServerTypes == Spec => []TypeOK
  <1>1. StartInv => TypeOK
    BY DEF StartInv
  <1>. QED BY <1>1, AlwaysStart, PTL

\* No close of the service closes the file of the log, and no thread opens it a
\* second time, with any number of threads that write to it while they start.
THEOREM LogSafety == Spec => []LogIntact
  <1>1. StartInv => LogIntact
    BY DEF StartInv, FilesInv, TableOK, LogOK, LogIntact
  <1>. QED BY <1>1, AlwaysStart, PTL

\* A connector is in the map of the thread whose epoll watches it, for any number
\* of threads, although each runs before its epoll_fd_ is assigned.
THEOREM EpollSafety == Spec => []OwnEpoll
  <1>1. StartInv => OwnEpoll
    <2> SUFFICES ASSUME StartInv, NEW c \in Conns, connectors[c] # Nobody,
                        connectors[c] \notin destroyed,
                        epoll_fd[connectors[c]] # NoEpoll
                 PROVE  /\ c \in watch[connectors[c]]
                        /\ fds[epoll_fd[connectors[c]]] = <<"epoll", connectors[c]>>
      BY DEF OwnEpoll
    <2>1. Mapped(c) /\ connectors[c] \in Threads
      BY DEF StartInv, ConnInv, TypeOK
    <2>2. connectors[c] < built
      BY <2>1, ThreadNumAssumption DEF Mapped, StartInv, PhaseInv, Threads
    <2>. QED BY <2>1, <2>2 DEF Mapped, StartInv, EpollInv
  <1>. QED BY <1>1, AlwaysStart, PTL
================================================================================
