----------------------------- MODULE StreamBytes -----------------------------
(***************************************************************************)
(* Lemmas about blocks of consecutive stream bytes, which the proofs that  *)
(* SocketInput and SocketOutput implement ByteQueue both need.  A byte is  *)
(* named by its position in its stream, as in ByteQueue.                   *)
(***************************************************************************)
EXTENDS Integers, Sequences, SequenceTheorems, TLAPS

\* The n bytes of the stream from position a on.
Bytes(a, n) == [i \in 1..n |-> a + i - 1]

\* A block of bytes is a sequence of its length.
LEMMA BytesSeq ==
    ASSUME NEW a \in Nat, NEW n \in Nat
    PROVE  /\ Bytes(a, n) \in Seq(Nat)
           /\ Len(Bytes(a, n)) = n
           /\ \A i \in 1..n : Bytes(a, n)[i] = a + i - 1
  BY DEF Bytes

\* Two blocks that follow each other in the stream make one block.
LEMMA BytesConcat ==
    ASSUME NEW a \in Nat, NEW n \in Nat, NEW m \in Nat
    PROVE  Bytes(a, n) \o Bytes(a + n, m) = Bytes(a, n + m)
  <1>. DEFINE s == Bytes(a, n)
              t == Bytes(a + n, m)
              u == Bytes(a, n + m)
  <1>1. a + n \in Nat /\ n + m \in Nat
    OBVIOUS
  <1>2. s \in Seq(Nat) /\ Len(s) = n /\ \A i \in 1..n : s[i] = a + i - 1
    BY BytesSeq
  <1>3. t \in Seq(Nat) /\ Len(t) = m /\ \A i \in 1..m : t[i] = a + n + i - 1
    BY <1>1, BytesSeq
  <1>4. u \in Seq(Nat) /\ Len(u) = n + m
        /\ \A i \in 1..(n + m) : u[i] = a + i - 1
    BY <1>1, BytesSeq
  <1>. HIDE DEF s, t, u
  <1>5. s \o t \in Seq(Nat) /\ Len(s \o t) = n + m
    BY <1>2, <1>3, ConcatProperties
  <1>6. ASSUME NEW i \in 1..(n + m) PROVE (s \o t)[i] = u[i]
    <2>1. (s \o t)[i] = IF i <= n THEN s[i] ELSE t[i - n]
      BY <1>2, <1>3, ConcatProperties
    <2>. QED BY <1>2, <1>3, <1>4, <2>1
  <1>. QED BY <1>4, <1>5, <1>6, SeqEqual DEF s, t, u

\* The first n bytes of a block, and what is left without them.
LEMMA BytesSplit ==
    ASSUME NEW a \in Nat, NEW m \in Nat, NEW n \in Nat, n <= m
    PROVE  /\ SubSeq(Bytes(a, m), 1, n) = Bytes(a, n)
           /\ SubSeq(Bytes(a, m), n + 1, Len(Bytes(a, m))) = Bytes(a + n, m - n)
  <1>. DEFINE s == Bytes(a, m)
              front == Bytes(a, n)
              rest  == Bytes(a + n, m - n)
  <1>1. a + n \in Nat /\ m - n \in Nat
    OBVIOUS
  <1>2. s \in Seq(Nat) /\ Len(s) = m /\ \A i \in 1..m : s[i] = a + i - 1
    BY BytesSeq
  <1>3. front \in Seq(Nat) /\ Len(front) = n
        /\ \A i \in 1..n : front[i] = a + i - 1
    BY BytesSeq
  <1>4. rest \in Seq(Nat) /\ Len(rest) = m - n
        /\ \A i \in 1..(m - n) : rest[i] = a + n + i - 1
    BY <1>1, BytesSeq
  <1>. HIDE DEF s, front, rest
  <1>5. SubSeq(s, 1, n) = front
    <2>1. SubSeq(s, 1, n) \in Seq(Nat) /\ Len(SubSeq(s, 1, n)) = n
          /\ \A i \in 1..n : SubSeq(s, 1, n)[i] = s[i]
      BY <1>2
    <2>. QED BY <1>2, <1>3, <2>1, SeqEqual
  <1>6. SubSeq(s, n + 1, m) = rest
    <2>1. SubSeq(s, n + 1, m) \in Seq(Nat) /\ Len(SubSeq(s, n + 1, m)) = m - n
          /\ \A i \in 1..(m - n) : SubSeq(s, n + 1, m)[i] = s[n + i]
      BY <1>2
    <2>2. \A i \in 1..(m - n) : SubSeq(s, n + 1, m)[i] = rest[i]
      BY <1>2, <1>4, <2>1
    <2>. QED BY <1>4, <2>1, <2>2, SeqEqual
  <1>. QED BY <1>2, <1>5, <1>6 DEF s, front, rest
================================================================================
