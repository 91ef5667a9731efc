---------------------------- MODULE UDPServiceProofs ---------------------------
(***************************************************************************)
(* Every datagram that the UDP service receives is handled once, for every *)
(* number of workers and of datagrams, until the pool is destroyed.        *)
(***************************************************************************)
EXTENDS UDPService, SequenceTheorems, FiniteSetTheorems, TLAPS

\* A datagram waits in the socket's queue once, and only before it is received.
InboxInv ==
    /\ received \subseteq sent
    /\ \A i \in DOMAIN inbox : inbox[i] \in sent \ received
    /\ \A i, j \in DOMAIN inbox : inbox[i] = inbox[j] => i = j

\* The listen thread holds a datagram between recvfrom and push only, a worker
\* between pop and the end of exec_packet only.
HandsInv ==
    /\ lpc = "push" <=> packet # None
    /\ \A w \in Workers : wpc[w] = "exec" <=> task[w] # None

\* The listen thread starts before the workers, and the pool is destroyed once.
PoolInv ==
    /\ mpc \in {"init", "run"} => lpc = "none"
    /\ mpc \in {"init", "run", "pool"} => \A w \in Workers : wpc[w] = "none"
    /\ pool = "destroyed" => mpc \in {"destroyed", "gone"}

\* The inductive invariant.
ServiceInv == TypeOK /\ InboxInv /\ HandsInv /\ PoolInv /\ HandledOnce
--------------------------------------------------------------------------------
(* Counting. *)

\* How often d is in the sequence s, and how many of the workers hold it.
Queued(s, d) == Cardinality({i \in DOMAIN s : s[i] = d})
Held(f, d) == Cardinality({w \in Workers : f[w] = d})

LEMMA QueuedType ==
    ASSUME NEW S, NEW s \in Seq(S), NEW d
    PROVE  /\ IsFiniteSet({i \in DOMAIN s : s[i] = d})
           /\ Queued(s, d) \in Nat
  <1>1. DOMAIN s = 1..Len(s) /\ Len(s) \in Nat
    OBVIOUS
  <1>2. IsFiniteSet(1..Len(s))
    BY <1>1, FS_Interval
  <1>3. {i \in DOMAIN s : s[i] = d} \in SUBSET (1..Len(s))
    BY <1>1
  <1>4. IsFiniteSet({i \in DOMAIN s : s[i] = d})
    BY <1>2, <1>3, FS_Subset
  <1>. QED BY <1>4, FS_CardinalityType DEF Queued

LEMMA QueuedEmpty == ASSUME NEW d PROVE Queued(<<>>, d) = 0
  <1>1. {i \in DOMAIN <<>> : <<>>[i] = d} = {}
    OBVIOUS
  <1>. QED BY <1>1, FS_EmptySet DEF Queued

\* push adds one occurrence of the task.
LEMMA QueuedAppend ==
    ASSUME NEW S, NEW s \in Seq(S), NEW e \in S, NEW d
    PROVE  Queued(Append(s, e), d) = Queued(s, d) + (IF e = d THEN 1 ELSE 0)
  <1>. DEFINE A == {i \in DOMAIN s : s[i] = d}
              n == Len(s) + 1
              B == {i \in DOMAIN Append(s, e) : Append(s, e)[i] = d}
  <1>1. /\ DOMAIN s = 1..Len(s) /\ Len(s) \in Nat
        /\ DOMAIN Append(s, e) = 1..n
        /\ \A i \in 1..Len(s) : Append(s, e)[i] = s[i]
        /\ Append(s, e)[n] = e
    BY AppendProperties
  <1>2. IsFiniteSet(A) /\ Cardinality(A) \in Nat
    BY QueuedType DEF Queued
  <1>3. n \notin A
    BY <1>1
  <1>4. CASE e = d
    <2>1. B = A \cup {n}
      BY <1>1, <1>4
    <2>. HIDE DEF A, B, n
    <2>2. Cardinality(A \cup {n}) = Cardinality(A) + 1
      BY <1>2, <1>3, FS_AddElement
    <2>3. Cardinality(B) = Cardinality(A) + 1
      BY <2>1, <2>2
    <2>. QED BY <1>4, <2>3 DEF Queued, A, B
  <1>5. CASE e # d
    <2>1. B = A
      BY <1>1, <1>5
    <2>2. Cardinality(B) = Cardinality(A) + 0
      <3>. HIDE DEF A, B
      <3>. QED BY <1>2, <2>1
    <2>. QED BY <1>5, <2>2 DEF Queued
  <1>. QED BY <1>4, <1>5

\* pop removes one occurrence of the oldest task.
LEMMA QueuedTail ==
    ASSUME NEW S, NEW s \in Seq(S), s # <<>>, NEW d
    PROVE  Queued(s, d) = Queued(Tail(s), d) + (IF Head(s) = d THEN 1 ELSE 0)
  <1>. DEFINE A == {i \in DOMAIN s : s[i] = d}
              B == {i \in DOMAIN Tail(s) : Tail(s)[i] = d}
              f == [i \in B |-> i + 1]
  <1>1. /\ DOMAIN s = 1..Len(s) /\ Len(s) \in Nat /\ Len(s) > 0
        /\ Tail(s) \in Seq(S)
        /\ DOMAIN Tail(s) = 1..(Len(s) - 1)
        /\ \A i \in 1..(Len(s) - 1) : Tail(s)[i] = s[i + 1]
        /\ Head(s) = s[1]
    BY HeadTailProperties
  <1>2. IsFiniteSet(A) /\ IsFiniteSet(B) /\ Cardinality(A) \in Nat
    BY <1>1, QueuedType DEF Queued
  <1>3. f \in Bijection(B, A \ {1})
    <2>1. f \in [B -> A \ {1}]
      BY <1>1
    <2>2. \A i, j \in B : f[i] = f[j] => i = j
      BY <1>1
    <2>3. ASSUME NEW k \in A \ {1} PROVE \E i \in B : f[i] = k
      <3>1. k - 1 \in B /\ f[k - 1] = k
        BY <1>1
      <3>. QED BY <3>1
    <2>. HIDE DEF A, B, f
    <2>. QED BY <2>1, <2>2, <2>3 DEF Bijection, Injection, Surjection, IsInjective
  <1>4. ExistsBijection(B, A \ {1})
    BY <1>3 DEF ExistsBijection
  <1>5. Cardinality(A \ {1}) = Cardinality(B)
    <2>. HIDE DEF A, B
    <2>. QED BY <1>2, <1>4, FS_Bijection
  <1>6. 1 \in A <=> Head(s) = d
    BY <1>1
  <1>7. Cardinality(A \ {1}) = IF 1 \in A THEN Cardinality(A) - 1 ELSE Cardinality(A)
    <2>. HIDE DEF A
    <2>. QED BY <1>2, FS_RemoveElement
  <1>8. Cardinality(A) = Cardinality(B) + (IF Head(s) = d THEN 1 ELSE 0)
    <2>. HIDE DEF A, B
    <2>. QED BY <1>2, <1>5, <1>6, <1>7
  <1>. QED BY <1>8 DEF Queued

LEMMA HeldType ==
    ASSUME NEW f, NEW d
    PROVE  /\ IsFiniteSet({w \in Workers : f[w] = d})
           /\ Held(f, d) \in Nat
  <1>1. {w \in Workers : f[w] = d} \in SUBSET Workers
    OBVIOUS
  <1>2. IsFiniteSet({w \in Workers : f[w] = d})
    BY <1>1, WorkersAssumption, FS_Subset
  <1>. QED BY <1>2, FS_CardinalityType DEF Held

\* A worker that changes what it holds is one less with the old task and one more
\* with the new one.
LEMMA HeldExcept ==
    ASSUME NEW f, NEW g, NEW u \in Workers, NEW d,
           \A w \in Workers \ {u} : g[w] = f[w]
    PROVE  Held(g, d) =
               Held(f, d) - (IF f[u] = d THEN 1 ELSE 0) + (IF g[u] = d THEN 1 ELSE 0)
  <1>. DEFINE A == {w \in Workers : f[w] = d}
              B == {w \in Workers : g[w] = d}
  <1>2. IsFiniteSet(A) /\ IsFiniteSet(B)
    BY HeldType
  <1>3. Cardinality(A) \in Nat /\ Cardinality(B) \in Nat
    BY HeldType DEF Held
  <1>4. A \ {u} = B \ {u}
    OBVIOUS
  <1>5. (u \in A <=> f[u] = d) /\ (u \in B <=> g[u] = d)
    OBVIOUS
  <1>. HIDE DEF A, B
  <1>6. /\ Cardinality(A \ {u}) = IF u \in A THEN Cardinality(A) - 1 ELSE Cardinality(A)
        /\ Cardinality(B \ {u}) = IF u \in B THEN Cardinality(B) - 1 ELSE Cardinality(B)
    BY <1>2, FS_RemoveElement
  <1>7. Cardinality(A \ {u}) = Cardinality(B \ {u})
    BY <1>4, Zenon
  <1>8. Cardinality(B) =
            Cardinality(A) - (IF f[u] = d THEN 1 ELSE 0) + (IF g[u] = d THEN 1 ELSE 0)
    BY <1>3, <1>5, <1>6, <1>7
  <1>. QED BY <1>8 DEF Held, A, B
--------------------------------------------------------------------------------
(* The invariant. *)

LEMMA InitService == Init => ServiceInv
  <1> SUFFICES ASSUME Init PROVE ServiceInv
    OBVIOUS
  <1>1. TypeOK
    <2>1. /\ sent \subseteq Datagrams /\ received \subseteq Datagrams
          /\ answered \subseteq Pings
          /\ inbox \in Seq(Datagrams) /\ q \in Seq(Datagrams \ Empties)
      BY DEF Init
    <2>2. /\ wpc \in [Workers -> {"none", "loop", "pop", "exec", "ended"}]
          /\ task \in [Workers -> (Datagrams \ Empties) \cup {None}]
          /\ executed \in [Datagrams -> Nat]
      BY DEF Init
    <2>. QED BY <2>1, <2>2 DEF Init, TypeOK
  <1>2. InboxInv /\ HandsInv /\ PoolInv
    BY DEF Init, InboxInv, HandsInv, PoolInv
  <1>3. ASSUME NEW d \in Datagrams PROVE Places(d) = 0
    <2>1. Queued(q, d) = 0
      BY QueuedEmpty DEF Init
    <2>2. {w \in Workers : task[w] = d} = {}
      BY DatagramsAssumption DEF Init
    <2>3. Held(task, d) = 0
      BY <2>2, FS_EmptySet DEF Held
    <2>4. packet # d /\ executed[d] = 0
      BY DatagramsAssumption DEF Init
    <2>. QED BY <2>1, <2>3, <2>4 DEF Places, Queued, Held
  <1>4. HandledOnce
    BY <1>3 DEF HandledOnce, Init
  <1>. QED BY <1>1, <1>2, <1>4 DEF ServiceInv

\* Where a datagram is depends on these variables only.
LEMMA SamePlaces ==
    ASSUME HandledOnce, UNCHANGED <<packet, q, task, executed, received, pool, crashed>>
    PROVE  HandledOnce'
  BY DEF HandledOnce, Places

\* A datagram that is sent and not lost joins the socket's queue.
LEMMA SendStep ==
    ASSUME ServiceInv, NEW d \in Datagrams, SendDatagram(d)
    PROVE  ServiceInv'
  <1>1. TypeOK /\ InboxInv /\ HandsInv /\ PoolInv /\ HandledOnce
    BY DEF ServiceInv
  <1>2. /\ d \notin sent /\ sent' = sent \cup {d}
        /\ inbox' = Append(inbox, d) \/ inbox' = inbox
        /\ UNCHANGED <<received, answered, mpc, stop, pool, pool_stop, lpc, packet,
                       q, wpc, task, executed, crashed>>
    BY DEF SendDatagram, service, listen, workers
  <1>3. TypeOK'
    <2>1. Append(inbox, d) \in Seq(Datagrams)
      BY <1>1, AppendProperties DEF TypeOK
    <2>2. inbox' \in Seq(Datagrams)
      BY <1>1, <1>2, <2>1, Zenon DEF TypeOK
    <2>. QED BY <1>1, <1>2, <2>2 DEF TypeOK
  <1>4. InboxInv'
    <2>1. CASE inbox' = inbox
      BY <1>1, <1>2, <2>1 DEF InboxInv
    <2>2. CASE inbox' = Append(inbox, d)
      <3>1. /\ DOMAIN inbox = 1..Len(inbox) /\ DOMAIN inbox' = 1..(Len(inbox) + 1)
            /\ Len(inbox) \in Nat
            /\ \A i \in 1..Len(inbox) : inbox'[i] = inbox[i]
            /\ inbox'[Len(inbox) + 1] = d
        BY <1>1, <2>2, AppendProperties DEF TypeOK
      <3>2. d \notin received /\ \A i \in 1..Len(inbox) : inbox[i] # d
        BY <1>1, <1>2, <3>1 DEF InboxInv
      <3>3. ASSUME NEW i \in DOMAIN inbox'
            PROVE  inbox'[i] \in sent' \ received'
        BY <1>1, <1>2, <3>1, <3>2 DEF InboxInv
      <3>4. ASSUME NEW i \in DOMAIN inbox', NEW j \in DOMAIN inbox',
                   inbox'[i] = inbox'[j]
            PROVE  i = j
        BY <1>1, <3>1, <3>2, <3>4 DEF InboxInv
      <3>. QED BY <1>1, <1>2, <3>3, <3>4 DEF InboxInv
    <2>. QED BY <1>2, <2>1, <2>2
  <1>5. HandsInv' /\ PoolInv'
    BY <1>1, <1>2 DEF HandsInv, PoolInv
  <1>6. HandledOnce'
    BY <1>1, <1>2, SamePlaces
  <1>. QED BY <1>3, <1>4, <1>5, <1>6 DEF ServiceInv

\* The main thread starts, stops and destroys; only the pool's destructor drops
\* tasks.
LEMMA MainStep ==
    ASSUME ServiceInv, StartAndDestroy \/ Stop
    PROVE  ServiceInv'
  <1> USE DEF Main, client, service, listen, workers
  <1>1. TypeOK /\ InboxInv /\ HandsInv /\ PoolInv /\ HandledOnce
    BY DEF ServiceInv
  <1>2. CASE InitSocket
    <2>1. TypeOK'
      BY <1>1, <1>2 DEF InitSocket, TypeOK
    <2>2. InboxInv' /\ HandsInv' /\ PoolInv'
      BY <1>1, <1>2 DEF InitSocket, InboxInv, HandsInv, PoolInv
    <2>. QED BY <1>1, <1>2, <2>1, <2>2, SamePlaces DEF InitSocket, ServiceInv
  <1>3. CASE InitFails
    <2>1. TypeOK'
      BY <1>1, <1>3 DEF InitFails, TypeOK
    <2>2. InboxInv' /\ HandsInv' /\ PoolInv'
      BY <1>1, <1>3 DEF InitFails, InboxInv, HandsInv, PoolInv
    <2>. QED BY <1>1, <1>3, <2>1, <2>2, SamePlaces DEF InitFails, ServiceInv
  <1>4. CASE StartListen
    <2>1. TypeOK'
      BY <1>1, <1>4 DEF StartListen, TypeOK
    <2>2. InboxInv' /\ HandsInv' /\ PoolInv'
      BY <1>1, <1>4 DEF StartListen, InboxInv, HandsInv, PoolInv
    <2>. QED BY <1>1, <1>4, <2>1, <2>2, SamePlaces DEF StartListen, ServiceInv
  <1>5. CASE CreatePool
    <2>1. wpc' \in [Workers -> {"none", "loop", "pop", "exec", "ended"}]
      BY <1>5 DEF CreatePool
    <2>2. TypeOK'
      BY <1>1, <1>5, <2>1 DEF CreatePool, TypeOK
    <2>3. InboxInv' /\ HandsInv' /\ PoolInv'
      <3>1. \A w \in Workers : task[w] = None /\ wpc'[w] = "loop"
        BY <1>1, <1>5 DEF CreatePool, HandsInv, PoolInv
      <3>2. InboxInv'
        BY <1>1, <1>5 DEF CreatePool, InboxInv
      <3>3. HandsInv' /\ PoolInv'
        BY <1>1, <1>5, <3>1 DEF CreatePool, HandsInv, PoolInv
      <3>. QED BY <3>2, <3>3
    <2>4. pool # "destroyed"
      BY <1>1, <1>5 DEF CreatePool, PoolInv
    <2>5. HandledOnce'
      BY <1>1, <1>5, <2>4 DEF CreatePool, HandledOnce, Places
    <2>. QED BY <2>2, <2>3, <2>5 DEF ServiceInv
  <1>6. CASE Stop
    <2>1. TypeOK'
      BY <1>1, <1>6 DEF Stop, TypeOK
    <2>2. InboxInv' /\ HandsInv' /\ PoolInv'
      BY <1>1, <1>6 DEF Stop, InboxInv, HandsInv, PoolInv
    <2>. QED BY <1>1, <1>6, <2>1, <2>2, SamePlaces DEF Stop, ServiceInv
  <1>7. CASE Destroy
    <2>1. TypeOK'
      BY <1>1, <1>7 DEF Destroy, TypeOK
    <2>2. InboxInv' /\ HandsInv' /\ PoolInv'
      BY <1>1, <1>7 DEF Destroy, InboxInv, HandsInv, PoolInv
    <2>. QED BY <1>1, <1>7, <2>1, <2>2, SamePlaces DEF Destroy, ServiceInv
  <1>8. CASE PoolStop
    <2>1. TypeOK'
      BY <1>1, <1>8 DEF PoolStop, TypeOK
    <2>2. InboxInv' /\ HandsInv' /\ PoolInv'
      BY <1>1, <1>8 DEF PoolStop, InboxInv, HandsInv, PoolInv
    <2>. QED BY <1>1, <1>8, <2>1, <2>2, SamePlaces DEF PoolStop, ServiceInv
  <1>9. CASE PoolJoin
    <2>1. TypeOK'
      BY <1>1, <1>9 DEF PoolJoin, TypeOK
    <2>2. InboxInv' /\ HandsInv' /\ PoolInv'
      BY <1>1, <1>9 DEF PoolJoin, InboxInv, HandsInv, PoolInv
    <2>3. HandledOnce'
      BY <1>9 DEF PoolJoin, HandledOnce
    <2>. QED BY <2>1, <2>2, <2>3 DEF ServiceInv
  <1>10. CASE Terminate
    <2>1. TypeOK'
      BY <1>1, <1>10 DEF Terminate, TypeOK
    <2>2. InboxInv' /\ HandsInv' /\ PoolInv'
      BY <1>1, <1>10 DEF Terminate, InboxInv, HandsInv, PoolInv
    <2>3. HandledOnce'
      BY <1>10 DEF Terminate, HandledOnce
    <2>. QED BY <2>1, <2>2, <2>3 DEF ServiceInv
  <1>. QED BY <1>2, <1>3, <1>4, <1>5, <1>6, <1>7, <1>8, <1>9, <1>10
           DEF StartAndDestroy

\* The listen thread takes a datagram from the socket to the pool's queue.
LEMMA ListenStep ==
    ASSUME ServiceInv, ListenThread
    PROVE  ServiceInv'
  <1> USE DEF client, service, workers
  <1>1. TypeOK /\ InboxInv /\ HandsInv /\ PoolInv /\ HandledOnce
    BY DEF ServiceInv
  <1>2. CASE EpollWait
    <2>1. TypeOK'
      BY <1>1, <1>2 DEF EpollWait, TypeOK
    <2>2. InboxInv' /\ HandsInv' /\ PoolInv'
      BY <1>1, <1>2 DEF EpollWait, InboxInv, HandsInv, PoolInv
    <2>. QED BY <1>1, <1>2, <2>1, <2>2, SamePlaces DEF EpollWait, ServiceInv
  <1>3. CASE ExecRead /\ inbox = <<>>
    <2>1. TypeOK'
      BY <1>1, <1>3 DEF ExecRead, TypeOK
    <2>2. InboxInv' /\ HandsInv' /\ PoolInv'
      BY <1>1, <1>3 DEF ExecRead, InboxInv, HandsInv, PoolInv
    <2>. QED BY <1>1, <1>3, <2>1, <2>2, SamePlaces DEF ExecRead, ServiceInv
  <1>4. CASE ExecRead /\ inbox # <<>>
    <2>. DEFINE d == Head(inbox)
    <2>1. /\ d \in Datagrams /\ Tail(inbox) \in Seq(Datagrams)
          /\ DOMAIN inbox = 1..Len(inbox) /\ Len(inbox) \in Nat /\ Len(inbox) > 0
          /\ DOMAIN Tail(inbox) = 1..(Len(inbox) - 1)
          /\ \A i \in 1..(Len(inbox) - 1) : Tail(inbox)[i] = inbox[i + 1]
          /\ d = inbox[1]
      BY <1>1, <1>4, HeadTailProperties DEF TypeOK
    <2>2. /\ lpc = "read" /\ packet = None
          /\ inbox' = Tail(inbox) /\ received' = received \cup {d}
          /\ IF d \in Empties THEN lpc' = "loop" /\ packet' = packet
                              ELSE lpc' = "push" /\ packet' = d
          /\ UNCHANGED <<sent, answered, mpc, stop, pool, pool_stop, q, wpc, task,
                         executed, crashed>>
      BY <1>1, <1>4 DEF ExecRead, HandsInv
    <2>. HIDE DEF d
    <2>3. TypeOK'
      BY <1>1, <2>1, <2>2 DEF TypeOK
    <2>4. d \in sent \ received
      BY <1>1, <2>1 DEF InboxInv
    <2>5. InboxInv'
      <3>1. ASSUME NEW i \in DOMAIN inbox'
            PROVE  inbox'[i] \in sent' \ received'
        <4>1. i \in 1..(Len(inbox) - 1) /\ inbox'[i] = inbox[i + 1]
          BY <2>1, <2>2
        <4>2. inbox[i + 1] \in sent \ received /\ inbox[i + 1] # inbox[1]
          BY <1>1, <2>1, <4>1 DEF InboxInv
        <4>. QED BY <2>1, <2>2, <4>1, <4>2
      <3>2. ASSUME NEW i \in DOMAIN inbox', NEW j \in DOMAIN inbox',
                   inbox'[i] = inbox'[j]
            PROVE  i = j
        <4>1. /\ i \in 1..(Len(inbox) - 1) /\ inbox'[i] = inbox[i + 1]
              /\ j \in 1..(Len(inbox) - 1) /\ inbox'[j] = inbox[j + 1]
          BY <2>1, <2>2
        <4>2. i + 1 \in DOMAIN inbox /\ j + 1 \in DOMAIN inbox
          BY <2>1, <4>1
        <4>3. i + 1 = j + 1
          BY <1>1, <3>2, <4>1, <4>2 DEF InboxInv
        <4>. QED BY <4>1, <4>3
      <3>3. received' \subseteq sent'
        BY <1>1, <2>2, <2>4 DEF InboxInv
      <3>. QED BY <3>1, <3>2, <3>3 DEF InboxInv
    <2>6. HandsInv' /\ PoolInv'
      BY <1>1, <2>1, <2>2, DatagramsAssumption DEF HandsInv, PoolInv
    <2>7. ASSUME ~crashed, pool # "destroyed", NEW e \in Datagrams
          PROVE  Places(e)' = IF e \in received' \ Empties THEN 1 ELSE 0
      <3>1. Places(e) = IF e \in received \ Empties THEN 1 ELSE 0
        BY <1>1, <2>7 DEF HandledOnce
      <3>2. /\ Queued(q, e) \in Nat /\ Held(task, e) \in Nat /\ executed[e] \in Nat
            /\ packet # e
        BY <1>1, <2>2, QueuedType, HeldType, DatagramsAssumption DEF TypeOK
      <3>3. /\ Places(e) = Queued(q, e) + Held(task, e) + executed[e]
            /\ Places(e)' = (IF packet' = e THEN 1 ELSE 0) + Queued(q, e)
                              + Held(task, e) + executed[e]
        BY <2>2, <3>2 DEF Places, Queued, Held
      <3>4. CASE e = d /\ e \notin Empties
        BY <2>2, <2>4, <3>1, <3>2, <3>3, <3>4
      <3>5. CASE e # d \/ e \in Empties
        BY <2>2, <3>1, <3>2, <3>3, <3>5
      <3>. QED BY <3>4, <3>5
    <2>8. HandledOnce'
      BY <2>2, <2>7 DEF HandledOnce
    <2>. QED BY <2>3, <2>5, <2>6, <2>8 DEF ServiceInv
  <1>5. CASE Push
    <2>1. /\ packet # None /\ packet \in Datagrams \ Empties
          /\ lpc' = "loop" /\ packet' = None
          /\ UNCHANGED <<sent, inbox, received, answered, mpc, stop, pool, pool_stop,
                         wpc, task, executed>>
      BY <1>1, <1>5 DEF Push, HandsInv, TypeOK
    <2>2. q' = Append(q, packet) \/ q' = q
      BY <1>5 DEF Push
    <2>3. TypeOK'
      <3>1. Append(q, packet) \in Seq(Datagrams \ Empties)
        BY <1>1, <2>1, AppendProperties DEF TypeOK
      <3>2. crashed' \in BOOLEAN
        BY <1>1, <1>5 DEF Push, TypeOK
      <3>. QED BY <1>1, <2>1, <2>2, <3>1, <3>2 DEF TypeOK
    <2>4. InboxInv' /\ HandsInv' /\ PoolInv'
      BY <1>1, <2>1 DEF InboxInv, HandsInv, PoolInv
    <2>5. CASE crashed' \/ pool = "destroyed"
      BY <2>1, <2>3, <2>4, <2>5 DEF ServiceInv, HandledOnce
    <2>6. CASE ~crashed' /\ pool # "destroyed"
      <3>1. q' = Append(q, packet) /\ ~crashed
        BY <1>5, <2>6 DEF Push
      <3>2. ASSUME NEW e \in Datagrams
            PROVE  Places(e)' = Places(e)
        <4>0. Queued(Append(q, packet), e) =
                  Queued(q, e) + (IF packet = e THEN 1 ELSE 0)
          <5>1. q \in Seq(Datagrams \ Empties)
            BY <1>1 DEF TypeOK
          <5>. QED BY <2>1, <5>1, QueuedAppend
        <4>1. Queued(q', e) = Queued(q, e) + (IF packet = e THEN 1 ELSE 0)
          BY <3>1, <4>0, Zenon
        <4>2. /\ Queued(q, e) \in Nat /\ Held(task, e) \in Nat /\ executed[e] \in Nat
              /\ packet' # e
          BY <1>1, <2>1, QueuedType, HeldType, DatagramsAssumption DEF TypeOK
        <4>3. /\ Places(e) = (IF packet = e THEN 1 ELSE 0) + Queued(q, e)
                              + Held(task, e) + executed[e]
              /\ Places(e)' = Queued(q', e) + Held(task, e) + executed[e]
          BY <2>1, <4>1, <4>2 DEF Places, Queued, Held
        <4>. QED BY <4>1, <4>2, <4>3
      <3>3. HandledOnce'
        BY <1>1, <2>1, <2>6, <3>1, <3>2 DEF HandledOnce
      <3>. QED BY <2>3, <2>4, <3>3 DEF ServiceInv
    <2>. QED BY <2>5, <2>6
  <1>. QED BY <1>2, <1>3, <1>4, <1>5 DEF ListenThread

\* A worker takes a task from the queue and executes it.
LEMMA WorkerStep ==
    ASSUME ServiceInv, NEW w \in Workers, Worker(w)
    PROVE  ServiceInv'
  <1> USE DEF At, client, service, listen
  <1>1. TypeOK /\ InboxInv /\ HandsInv /\ PoolInv /\ HandledOnce
    BY DEF ServiceInv
  <1>2. CASE WorkerCheck(w)
    <2>1. wpc' \in [Workers -> {"none", "loop", "pop", "exec", "ended"}]
      BY <1>1, <1>2 DEF WorkerCheck, TypeOK
    <2>2. TypeOK'
      BY <1>1, <1>2, <2>1 DEF WorkerCheck, TypeOK
    <2>3. InboxInv' /\ HandsInv' /\ PoolInv'
      BY <1>1, <1>2 DEF WorkerCheck, TypeOK, InboxInv, HandsInv, PoolInv
    <2>. QED BY <1>1, <1>2, <2>2, <2>3, SamePlaces DEF WorkerCheck, ServiceInv
  <1>3. CASE WorkerPop(w) /\ q = <<>>
    <2>1. wpc' \in [Workers -> {"none", "loop", "pop", "exec", "ended"}]
      BY <1>1, <1>3 DEF WorkerPop, TypeOK
    <2>2. TypeOK'
      BY <1>1, <1>3, <2>1 DEF WorkerPop, TypeOK
    <2>3. InboxInv' /\ HandsInv' /\ PoolInv'
      BY <1>1, <1>3 DEF WorkerPop, TypeOK, InboxInv, HandsInv, PoolInv
    <2>. QED BY <1>1, <1>3, <2>2, <2>3, SamePlaces DEF WorkerPop, ServiceInv
  <1>4. CASE WorkerPop(w) /\ q # <<>>
    <2>. DEFINE T == Datagrams \ Empties
                d == Head(q)
    <2>1. d \in T /\ Tail(q) \in Seq(T) /\ q \in Seq(T) /\ d # None
      BY <1>1, <1>4, HeadTailProperties, DatagramsAssumption DEF TypeOK
    <2>2. /\ wpc[w] = "pop" /\ task[w] = None
          /\ task' = [task EXCEPT ![w] = d] /\ q' = Tail(q)
          /\ wpc' = [wpc EXCEPT ![w] = "exec"]
          /\ UNCHANGED <<sent, inbox, received, answered, mpc, stop, pool, pool_stop,
                         lpc, packet, executed, crashed>>
      BY <1>1, <1>4 DEF WorkerPop, HandsInv
    <2>3. task \in [Workers -> T \cup {None}]
      BY <1>1 DEF TypeOK
    <2>. HIDE DEF d
    <2>4. TypeOK'
      <3>1. wpc' \in [Workers -> {"none", "loop", "pop", "exec", "ended"}]
        BY <1>1, <2>2 DEF TypeOK
      <3>2. task' \in [Workers -> T \cup {None}]
        BY <2>1, <2>2, <2>3
      <3>. QED BY <1>1, <2>1, <2>2, <3>1, <3>2 DEF TypeOK
    <2>5. InboxInv' /\ PoolInv'
      BY <1>1, <2>2 DEF TypeOK, InboxInv, PoolInv
    <2>6. HandsInv'
      BY <1>1, <2>1, <2>2, <2>3 DEF TypeOK, HandsInv
    <2>7. ASSUME NEW e \in Datagrams PROVE Places(e)' = Places(e)
      <3>1. Queued(q, e) = Queued(Tail(q), e) + (IF d = e THEN 1 ELSE 0)
        <4>. HIDE DEF T
        <4>. QED BY <1>4, <2>1, QueuedTail DEF d
      <3>2. Held(task', e) =
                Held(task, e) - (IF task[w] = e THEN 1 ELSE 0)
                + (IF d = e THEN 1 ELSE 0)
        <4>1. task'[w] = d /\ \A v \in Workers \ {w} : task'[v] = task[v]
          BY <2>2, <2>3
        <4>2. Held(task', e) = Held(task, e) - (IF task[w] = e THEN 1 ELSE 0)
                               + (IF task'[w] = e THEN 1 ELSE 0)
          BY <4>1, HeldExcept
        <4>. QED BY <4>1, <4>2
      <3>3. /\ Queued(Tail(q), e) \in Nat /\ Held(task, e) \in Nat
            /\ executed[e] \in Nat /\ task[w] # e
        BY <1>1, <2>1, <2>2, QueuedType, HeldType, DatagramsAssumption DEF TypeOK
      <3>4. /\ Places(e) = (IF packet = e THEN 1 ELSE 0) + Queued(q, e)
                            + Held(task, e) + executed[e]
            /\ Places(e)' = (IF packet = e THEN 1 ELSE 0) + Queued(Tail(q), e)
                            + Held(task', e) + executed[e]
        BY <2>2, Zenon DEF Places, Queued, Held
      <3>. QED BY <3>1, <3>2, <3>3, <3>4
    <2>8. HandledOnce'
      BY <1>1, <2>2, <2>7 DEF HandledOnce
    <2>. QED BY <2>4, <2>5, <2>6, <2>8 DEF ServiceInv
  <1>5. CASE WorkerExec(w)
    <2>. DEFINE T == Datagrams \ Empties
                d == task[w]
    <2>1. d \in T /\ task \in [Workers -> T \cup {None}]
      BY <1>1, <1>5 DEF WorkerExec, HandsInv, TypeOK
    <2>2. /\ executed' = [executed EXCEPT ![d] = @ + 1]
          /\ answered' = answered \/ (d \in Pings /\ answered' = answered \cup {d})
          /\ task' = [task EXCEPT ![w] = None]
          /\ wpc' = [wpc EXCEPT ![w] = "loop"] /\ wpc[w] = "exec"
          /\ UNCHANGED <<sent, inbox, received, mpc, stop, pool, pool_stop, lpc,
                         packet, q, crashed>>
      BY <1>5 DEF WorkerExec
    <2>3. TypeOK'
      <3>1. /\ wpc' \in [Workers -> {"none", "loop", "pop", "exec", "ended"}]
            /\ executed' \in [Datagrams -> Nat]
            /\ task' \in [Workers -> T \cup {None}]
        BY <1>1, <2>1, <2>2 DEF TypeOK
      <3>2. answered' \subseteq Pings
        BY <1>1, <2>2 DEF TypeOK
      <3>. QED BY <1>1, <2>2, <3>1, <3>2 DEF TypeOK
    <2>4. InboxInv' /\ PoolInv'
      BY <1>1, <2>2 DEF TypeOK, InboxInv, PoolInv
    <2>5. HandsInv'
      BY <1>1, <2>1, <2>2 DEF TypeOK, HandsInv
    <2>6. ASSUME NEW e \in Datagrams PROVE Places(e)' = Places(e)
      <3>1. Held(task', e) =
                Held(task, e) - (IF task[w] = e THEN 1 ELSE 0)
                + (IF None = e THEN 1 ELSE 0)
        <4>1. \A v \in Workers \ {w} : task'[v] = task[v]
          BY <2>1, <2>2
        <4>2. Held(task', e) = Held(task, e) - (IF task[w] = e THEN 1 ELSE 0)
                               + (IF task'[w] = e THEN 1 ELSE 0)
          BY <4>1, HeldExcept
        <4>3. task'[w] = None
          BY <2>1, <2>2
        <4>. QED BY <4>2, <4>3
      <3>2. /\ Queued(q, e) \in Nat /\ Held(task, e) \in Nat
            /\ executed[e] \in Nat /\ None # e
        BY <1>1, QueuedType, HeldType, DatagramsAssumption DEF TypeOK
      <3>3. executed'[e] = executed[e] + (IF task[w] = e THEN 1 ELSE 0)
        BY <1>1, <2>1, <2>2 DEF TypeOK
      <3>4. /\ Places(e) = (IF packet = e THEN 1 ELSE 0) + Queued(q, e)
                            + Held(task, e) + executed[e]
            /\ Places(e)' = (IF packet = e THEN 1 ELSE 0) + Queued(q, e)
                            + Held(task', e) + executed'[e]
        BY <2>2, Zenon DEF Places, Queued, Held
      <3>. QED BY <3>1, <3>2, <3>3, <3>4
    <2>7. HandledOnce'
      BY <1>1, <2>2, <2>6 DEF HandledOnce
    <2>. QED BY <2>3, <2>4, <2>5, <2>7 DEF ServiceInv
  <1>. QED BY <1>2, <1>3, <1>4, <1>5 DEF Worker

\* Every step keeps the invariant.
LEMMA ServiceStep == ServiceInv /\ [Next]_vars => ServiceInv'
  <1> SUFFICES ASSUME ServiceInv, [Next]_vars PROVE ServiceInv'
    OBVIOUS
  <1>1. CASE UNCHANGED vars
    <2> USE DEF vars, client, service, listen, workers
    <2>1. TypeOK'
      BY <1>1 DEF TypeOK, ServiceInv
    <2>2. InboxInv' /\ HandsInv' /\ PoolInv'
      BY <1>1 DEF InboxInv, HandsInv, PoolInv, ServiceInv
    <2>. QED BY <1>1, <2>1, <2>2, SamePlaces DEF ServiceInv
  <1>. QED BY <1>1, SendStep, MainStep, ListenStep, WorkerStep DEF Next

\* Every datagram received is handled by the listen thread, the queue and one
\* worker exactly once, whatever the number of workers and however pushes, pops,
\* the service's stop and its destructors interleave, while the pool lives.
THEOREM DatagramSafety == Spec => []HandledOnce
  <1>1. ServiceInv => HandledOnce
    BY DEF ServiceInv
  <1>. QED BY <1>1, InitService, ServiceStep, PTL DEF Spec

\* The service's state keeps its types; a task is never an empty datagram.
THEOREM ServiceTypes == Spec => []TypeOK
  <1>1. ServiceInv => TypeOK
    BY DEF ServiceInv
  <1>. QED BY <1>1, InitService, ServiceStep, PTL DEF Spec
================================================================================
