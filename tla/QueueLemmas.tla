---------------------------- MODULE QueueLemmas ----------------------------
(***************************************************************************)
(* Facts about the queues between the tasks and threads: what taking from  *)
(* one, adding to one and joining two of them leave.  They say nothing of  *)
(* the program and are cited by the proofs of several modules.             *)
(***************************************************************************)
EXTENDS Integers, Sequences, FiniteSets, SequenceTheorems, FiniteSetTheorems, TLAPS

(* What taking an element from a queue and adding one to it leave.         *)
LEMMA Removed ==
  ASSUME NEW S, NEW q \in Seq(S), q # <<>>
  PROVE  /\ Head(q) \in S /\ Tail(q) \in Seq(S)
         /\ Len(Tail(q)) = Len(q) - 1 /\ Len(q) \in Nat
BY HeadTailProperties, EmptySeq

LEMMA Extended ==
  ASSUME NEW S, NEW q \in Seq(S), NEW x \in S
  PROVE  /\ Append(q, x) \in Seq(S) /\ Len(Append(q, x)) = Len(q) + 1
         /\ Len(q) \in Nat /\ <<x>> \in Seq(S) /\ Len(<<x>>) = 1
BY AppendProperties, LenProperties

(* A queue of one kind of elements is one of a larger kind.                *)
LEMMA LargerKind ==
  ASSUME NEW S, NEW T, S \subseteq T, NEW q \in Seq(S)
  PROVE  q \in Seq(T)
<1>1. q \in [1..Len(q) -> S] /\ Len(q) \in Nat
  BY LenProperties
<1>2. q \in [1..Len(q) -> T]
  BY <1>1
<1>. QED
  BY <1>1, <1>2, SeqDef

(* A function on the first numbers is a sequence.                          *)
LEMMA SequenceOf ==
  ASSUME NEW S, NEW k \in Nat, NEW s \in [1..k -> S]
  PROVE  s \in Seq(S) /\ Len(s) = k
<1>1. s \in Seq(S)
  BY SeqDef
<1>. QED
  BY <1>1, LenProperties

(* Adding to the second of two queues adds to their concatenation; taking  *)
(* from the first takes from it.                                           *)
LEMMA AppendToSecond ==
  ASSUME NEW S, NEW p \in Seq(S), NEW q \in Seq(S), NEW e \in S
  PROVE  p \o Append(q, e) = Append(p \o q, e)
BY AppendIsConcat, ConcatAssociative, ConcatProperties

LEMMA TailOfFirst ==
  ASSUME NEW S, NEW p \in Seq(S), p # <<>>, NEW q \in Seq(S)
  PROVE  /\ p \o q # <<>> /\ p \o q \in Seq(S)
         /\ Tail(p) \o q = Tail(p \o q)
         /\ Head(p) = Head(p \o q)
<1>. DEFINE pq == p \o q
            tq == Tail(p) \o q
<1>1. /\ Len(p) \in Nat /\ Len(p) >= 1 /\ Len(q) \in Nat
      /\ Head(p) = p[1] /\ Tail(p) \in Seq(S) /\ Len(Tail(p)) = Len(p) - 1
      /\ \A i \in 1..Len(Tail(p)) : Tail(p)[i] = p[i + 1]
  BY HeadTailProperties, LenProperties, EmptySeq
<1>2. /\ pq \in Seq(S) /\ Len(pq) = Len(p) + Len(q)
      /\ \A i \in 1..Len(p) + Len(q) : pq[i] = IF i <= Len(p) THEN p[i] ELSE q[i - Len(p)]
  BY ConcatProperties
<1>3. /\ tq \in Seq(S) /\ Len(tq) = Len(Tail(p)) + Len(q)
      /\ \A i \in 1..Len(Tail(p)) + Len(q) :
            tq[i] = IF i <= Len(Tail(p)) THEN Tail(p)[i] ELSE q[i - Len(Tail(p))]
  BY <1>1, ConcatProperties
<1>. HIDE DEF pq, tq
<1>4. pq # <<>>
  <2>1. Len(pq) >= 1
    BY <1>1, <1>2
  <2>2. Len(<<>>) = 0
    BY EmptySeq
  <2>. QED
    BY <2>1, <2>2
<1>5. /\ Tail(pq) \in Seq(S) /\ Len(Tail(pq)) = Len(pq) - 1 /\ Head(pq) = pq[1]
      /\ \A i \in 1..Len(Tail(pq)) : Tail(pq)[i] = pq[i + 1]
  BY <1>2, <1>4, HeadTailProperties
<1>6. Head(p) = Head(pq)
  BY <1>1, <1>2, <1>5
<1>7. Len(tq) = Len(Tail(pq))
  BY <1>1, <1>2, <1>3, <1>5
<1>8. ASSUME NEW i \in 1..Len(tq) PROVE tq[i] = Tail(pq)[i]
  <2>1. /\ i + 1 \in 1..Len(p) + Len(q) /\ i \in 1..Len(Tail(p)) + Len(q)
        /\ i \in 1..Len(Tail(pq)) /\ (i + 1) - Len(p) = i - Len(Tail(p))
        /\ (i + 1 <= Len(p) <=> i <= Len(Tail(p)))
    BY <1>1, <1>2, <1>3, <1>5, <1>7
  <2>2. Tail(pq)[i] = pq[i + 1]
    BY <1>5, <2>1
  <2>3. CASE i <= Len(Tail(p))
    <3>1. i \in 1..Len(Tail(p))
      BY <1>1, <2>3
    <3>2. tq[i] = Tail(p)[i] /\ pq[i + 1] = p[i + 1]
      BY <1>2, <1>3, <2>1, <2>3
    <3>. QED
      BY <1>1, <2>2, <3>1, <3>2
  <2>4. CASE ~(i <= Len(Tail(p)))
    BY <1>2, <1>3, <2>1, <2>2, <2>4
  <2>. QED
    BY <2>3, <2>4
<1>9. tq = Tail(pq)
  BY <1>3, <1>5, <1>7, <1>8, SeqEqual
<1>. QED
  BY <1>2, <1>4, <1>6, <1>9 DEF pq, tq

LEMMA FirstAndRest ==
  ASSUME NEW S, NEW q \in Seq(S), q # <<>>
  PROVE  q = <<Head(q)>> \o Tail(q)
<1>. DEFINE f == <<Head(q)>>
            r == f \o Tail(q)
<1>1. /\ Len(q) \in Nat /\ Len(q) >= 1
      /\ Head(q) = q[1] /\ Head(q) \in S /\ Tail(q) \in Seq(S)
      /\ Len(Tail(q)) = Len(q) - 1
      /\ \A i \in 1..Len(Tail(q)) : Tail(q)[i] = q[i + 1]
  BY HeadTailProperties, LenProperties, EmptySeq
<1>2. f \in Seq(S) /\ Len(f) = 1 /\ f[1] = Head(q)
  BY <1>1
<1>. HIDE DEF f
<1>3. /\ r \in Seq(S) /\ Len(r) = 1 + Len(Tail(q))
      /\ \A i \in 1..1 + Len(Tail(q)) : r[i] = IF i <= 1 THEN f[i] ELSE Tail(q)[i - 1]
  BY <1>1, <1>2, ConcatProperties
<1>. HIDE DEF r
<1>4. Len(r) = Len(q)
  BY <1>1, <1>3
<1>5. ASSUME NEW i \in 1..Len(q) PROVE q[i] = r[i]
  <2>1. CASE i = 1
    BY <1>1, <1>2, <1>3, <2>1
  <2>2. CASE i # 1
    <3>1. i - 1 \in 1..Len(Tail(q)) /\ (i - 1) + 1 = i /\ ~(i <= 1) /\ i \in 1..1 + Len(Tail(q))
      BY <1>1, <2>2
    <3>. QED
      BY <1>1, <1>3, <3>1
  <2>. QED
    BY <2>1, <2>2
<1>6. q = r
  BY <1>3, <1>4, <1>5, SeqEqual
<1>. QED
  BY <1>6 DEF r, f

(* The elements of a queue that are in a set, counted.                     *)
Positions(q, S) == {i \in 1..Len(q) : q[i] \in S}
NumberOf(q, S) == Cardinality(Positions(q, S))

LEMMA PositionsFinite ==
  ASSUME NEW T, NEW q \in Seq(T), NEW S
  PROVE  IsFiniteSet(Positions(q, S)) /\ NumberOf(q, S) \in Nat
<1>1. IsFiniteSet(1..Len(q))
  BY LenProperties, FS_Interval
<1>2. Positions(q, S) \in SUBSET (1..Len(q))
  BY DEF Positions
<1>3. IsFiniteSet(Positions(q, S))
  BY <1>1, <1>2, FS_Subset
<1>. QED
  BY <1>3, FS_CardinalityType DEF NumberOf

LEMMA NumberOfNone ==
  ASSUME NEW S
  PROVE  NumberOf(<<>>, S) = 0
<1>1. Positions(<<>>, S) = {}
  BY EmptySeq DEF Positions
<1>. QED
  BY <1>1, FS_EmptySet DEF NumberOf

LEMMA NumberOfAppend ==
  ASSUME NEW T, NEW q \in Seq(T), NEW x \in T, NEW S
  PROVE  NumberOf(Append(q, x), S) = IF x \in S THEN NumberOf(q, S) + 1 ELSE NumberOf(q, S)
<1>. DEFINE a == Append(q, x)
            n == Len(q) + 1
<1>1. /\ Len(q) \in Nat /\ Len(a) = n /\ a[n] = x /\ n \notin 1..Len(q)
      /\ \A i \in 1..Len(q) : a[i] = q[i]
      /\ 1..n = 1..Len(q) \cup {n}
  BY AppendProperties, LenProperties
<1>2. n \notin Positions(q, S)
  BY <1>1 DEF Positions
<1>. HIDE DEF a, n
<1>3. CASE x \in S
  <2>1. Positions(a, S) = Positions(q, S) \cup {n}
    BY <1>1, <1>3 DEF Positions
  <2>. QED
    BY <1>2, <1>3, <2>1, PositionsFinite, FS_AddElement DEF NumberOf, a
<1>4. CASE x \notin S
  <2>1. Positions(a, S) = Positions(q, S)
    BY <1>1, <1>4 DEF Positions
  <2>. QED
    BY <1>4, <2>1 DEF NumberOf, a
<1>. QED
  BY <1>3, <1>4

LEMMA NumberOfTail ==
  ASSUME NEW T, NEW q \in Seq(T), q # <<>>, NEW S
  PROVE  NumberOf(Tail(q), S)
           = IF Head(q) \in S THEN NumberOf(q, S) - 1 ELSE NumberOf(q, S)
<1>. DEFINE t == Tail(q)
            from == Positions(q, S) \ {1}
            to == Positions(t, S)
            f == [i \in from |-> i - 1]
<1>1. /\ Len(q) \in Nat /\ Len(q) >= 1 /\ Head(q) = q[1] /\ t \in Seq(T)
      /\ Len(t) = Len(q) - 1 /\ \A i \in 1..Len(t) : t[i] = q[i + 1]
  BY HeadTailProperties, LenProperties, EmptySeq
<1>2. \A i \in from : i - 1 \in to /\ i \in Int
  <2>. SUFFICES ASSUME NEW i \in from PROVE i - 1 \in to /\ i \in Int
    OBVIOUS
  <2>1. i \in 1..Len(q) /\ q[i] \in S /\ i # 1
    BY DEF Positions
  <2>2. i - 1 \in 1..Len(t) /\ (i - 1) + 1 = i
    BY <1>1, <2>1
  <2>3. t[i - 1] = q[i]
    BY <1>1, <2>2
  <2>. QED
    BY <2>1, <2>2, <2>3 DEF Positions
<1>3. \A j \in to : j + 1 \in from /\ j \in Int
  <2>. SUFFICES ASSUME NEW j \in to PROVE j + 1 \in from /\ j \in Int
    OBVIOUS
  <2>1. j \in 1..Len(t) /\ t[j] \in S
    BY DEF Positions
  <2>2. j + 1 \in 1..Len(q) /\ j + 1 # 1
    BY <1>1, <2>1
  <2>. QED
    BY <1>1, <2>1, <2>2 DEF Positions
<1>4. IsFiniteSet(from) /\ Cardinality(from) = IF 1 \in Positions(q, S) THEN NumberOf(q, S) - 1
                                                                          ELSE NumberOf(q, S)
  BY PositionsFinite, FS_RemoveElement DEF NumberOf
<1>5. Cardinality(to) = Cardinality(from)
  <2>. HIDE DEF from, to
  <2>1. f \in [from -> to]
    BY <1>2
  <2>2. \A a, b \in from : f[a] = f[b] => a = b
    BY <1>2
  <2>3. \A j \in to : \E i \in from : f[i] = j
    <3>. SUFFICES ASSUME NEW j \in to PROVE \E i \in from : f[i] = j
      OBVIOUS
    <3>1. j + 1 \in from /\ (j + 1) - 1 = j
      BY <1>3
    <3>. QED
      BY <3>1
  <2>. HIDE DEF f
  <2>4. f \in Surjection(from, to) /\ f \in Injection(from, to)
    BY <2>1, <2>2, <2>3 DEF Surjection, Injection, IsInjective
  <2>. QED
    BY <1>4, <2>4, FS_Surjection
<1>6. 1 \in Positions(q, S) <=> Head(q) \in S
  BY <1>1 DEF Positions
<1>. QED
  BY <1>4, <1>5, <1>6 DEF NumberOf

LEMMA NumberOfFew ==
  ASSUME NEW T, NEW q \in Seq(T), NEW S
  PROVE  /\ NumberOf(q, S) = 0 <=> \A i \in 1..Len(q) : q[i] \notin S
         /\ NumberOf(q, S) <= 1 =>
               \A i, j \in 1..Len(q) : q[i] \in S /\ q[j] \in S => i = j
         /\ \A i \in 1..Len(q) : q[i] \in S => NumberOf(q, S) >= 1
<1>1. IsFiniteSet(Positions(q, S)) /\ NumberOf(q, S) \in Nat
  BY PositionsFinite
<1>2. NumberOf(q, S) = 0 <=> Positions(q, S) = {}
  BY <1>1, FS_EmptySet DEF NumberOf
<1>3. NumberOf(q, S) = 1 <=> \E x : Positions(q, S) = {x}
  BY <1>1, FS_Singleton DEF NumberOf
<1>4. /\ \A i \in 1..Len(q) : q[i] \in S <=> i \in Positions(q, S)
      /\ Positions(q, S) \subseteq 1..Len(q)
  BY DEF Positions
<1>5. ASSUME NumberOf(q, S) <= 1, NEW i \in 1..Len(q), NEW j \in 1..Len(q),
             q[i] \in S, q[j] \in S
      PROVE  i = j
  <2>1. NumberOf(q, S) = 0 \/ NumberOf(q, S) = 1
    BY <1>1, <1>5
  <2>. QED
    BY <1>2, <1>3, <1>4, <1>5, <2>1
<1>6. \A i \in 1..Len(q) : q[i] \in S => NumberOf(q, S) # 0
  BY <1>2, <1>4
<1>7. NumberOf(q, S) # 0 => NumberOf(q, S) >= 1
  BY <1>1
<1>. QED
  BY <1>2, <1>4, <1>5, <1>6, <1>7

LEMMA NumberOfOne ==
  ASSUME NEW T, NEW x \in T, NEW S
  PROVE  <<x>> \in Seq(T) /\ NumberOf(<<x>>, S) = IF x \in S THEN 1 ELSE 0
<1>1. <<>> \in Seq(T) /\ Append(<<>>, x) = <<x>>
  OBVIOUS
<1>. QED
  <2>1. NumberOf(Append(<<>>, x), S)
          = IF x \in S THEN NumberOf(<<>>, S) + 1 ELSE NumberOf(<<>>, S)
    BY <1>1, NumberOfAppend
  <2>2. NumberOf(<<>>, S) = 0
    BY NumberOfNone
  <2>3. NumberOf(<<x>>, S) = IF x \in S THEN 0 + 1 ELSE 0
    BY <1>1, <2>1, <2>2, Zenon
  <2>. QED
    BY <2>3

LEMMA NumberOfLast ==
  ASSUME NEW T, NEW q \in Seq(T), q # <<>>, Len(q) <= 1, NEW S
  PROVE  NumberOf(q, S) = IF Head(q) \in S THEN 1 ELSE 0
<1>1. Tail(q) \in Seq(T) /\ Len(Tail(q)) = Len(q) - 1 /\ Len(Tail(q)) \in Nat
  BY Removed, LenProperties
<1>2. Tail(q) = <<>>
  BY <1>1, EmptySeq
<1>3. NumberOf(Tail(q), S) = 0
  BY <1>2, NumberOfNone, Zenon
<1>. QED
  BY <1>3, NumberOfTail, PositionsFinite

(* A queue without elements of S, and one where none of S is behind one of *)
(* E: what is left of them when the first element is taken and others join.*)
Free(q, S) == \A i \in 1..Len(q) : q[i] \notin S
NoneAfter(q, E, S) == \A i, j \in 1..Len(q) : i < j /\ q[i] \in E => q[j] \notin S

LEMMA FreeSimple ==
  ASSUME NEW S
  PROVE  Free(<<>>, S) /\ \A x : Free(<<x>>, S) <=> x \notin S
<1>1. Free(<<>>, S)
  BY EmptySeq DEF Free
<1>2. ASSUME NEW x PROVE Free(<<x>>, S) <=> x \notin S
  <2>1. Len(<<x>>) = 1 /\ <<x>>[1] = x
    OBVIOUS
  <2>. QED
    BY <2>1 DEF Free
<1>. QED
  BY <1>1, <1>2

LEMMA FreeTail ==
  ASSUME NEW T, NEW q \in Seq(T), q # <<>>
  PROVE  /\ \A S : Free(q, S) => Free(Tail(q), S) /\ Head(q) \notin S
         /\ \A E, S : NoneAfter(q, E, S) =>
               NoneAfter(Tail(q), E, S) /\ (Head(q) \in E => Free(Tail(q), S))
<1>. DEFINE t == Tail(q)
<1>1. /\ Len(q) \in Nat /\ Len(q) >= 1 /\ Head(q) = q[1] /\ Len(t) = Len(q) - 1
      /\ \A i \in 1..Len(t) : t[i] = q[i + 1]
  BY HeadTailProperties, LenProperties, EmptySeq
<1>. HIDE DEF t
<1>2. 1 \in 1..Len(q) /\ \A i \in 1..Len(t) : /\ i + 1 \in 1..Len(q) /\ 1 < i + 1
                                              /\ t[i] = q[i + 1]
  BY <1>1
<1>3. \A i, j \in 1..Len(t) : i < j => i + 1 < j + 1
  OBVIOUS
<1>4. ASSUME NEW S, Free(q, S) PROVE Free(t, S) /\ Head(q) \notin S
  BY <1>1, <1>2, <1>4 DEF Free
<1>5. ASSUME NEW E, NEW S, NoneAfter(q, E, S)
      PROVE  NoneAfter(t, E, S) /\ (Head(q) \in E => Free(t, S))
  <2>1. NoneAfter(t, E, S)
    BY <1>2, <1>3, <1>5 DEF NoneAfter
  <2>2. Head(q) \in E => Free(t, S)
    BY <1>1, <1>2, <1>5 DEF NoneAfter, Free
  <2>. QED
    BY <2>1, <2>2
<1>. QED
  BY <1>4, <1>5 DEF t

LEMMA FreeConcat ==
  ASSUME NEW T, NEW q \in Seq(T), NEW r \in Seq(T)
  PROVE  /\ q \o r \in Seq(T)
         /\ \A S : Free(q, S) /\ Free(r, S) => Free(q \o r, S)
         /\ \A E, S : NoneAfter(q, E, S) /\ Free(r, S) => NoneAfter(q \o r, E, S)
         /\ \A S : Free(r, S) => NumberOf(q \o r, S) = NumberOf(q, S)
<1>. DEFINE c == q \o r
<1>1. /\ c \in Seq(T) /\ Len(q) \in Nat /\ Len(r) \in Nat /\ Len(c) = Len(q) + Len(r)
      /\ \A i \in 1..Len(q) + Len(r) : c[i] = IF i <= Len(q) THEN q[i] ELSE r[i - Len(q)]
  BY ConcatProperties, LenProperties
<1>. HIDE DEF c
<1>2. ASSUME NEW i \in 1..Len(c)
      PROVE  \/ i \in 1..Len(q) /\ c[i] = q[i]
             \/ i \notin 1..Len(q) /\ i - Len(q) \in 1..Len(r) /\ c[i] = r[i - Len(q)]
  BY <1>1
<1>3. \A i \in 1..Len(q) : i \in 1..Len(c)
  BY <1>1
<1>4. ASSUME NEW S, Free(q, S), Free(r, S) PROVE Free(c, S)
  BY <1>2, <1>4 DEF Free
<1>5. ASSUME NEW E, NEW S, NoneAfter(q, E, S), Free(r, S) PROVE NoneAfter(c, E, S)
  <2>. SUFFICES ASSUME NEW i \in 1..Len(c), NEW j \in 1..Len(c), i < j, c[i] \in E
                PROVE  c[j] \notin S
    BY DEF NoneAfter
  <2>1. CASE j \in 1..Len(q)
    <3>1. i \in 1..Len(q)
      BY <1>1, <2>1
    <3>. QED
      BY <1>2, <1>5, <2>1, <3>1 DEF NoneAfter
  <2>2. CASE j \notin 1..Len(q)
    BY <1>2, <1>5, <2>2 DEF Free
  <2>. QED
    BY <2>1, <2>2
<1>6. ASSUME NEW S, Free(r, S) PROVE NumberOf(c, S) = NumberOf(q, S)
  <2>1. Positions(c, S) = Positions(q, S)
    BY <1>2, <1>3, <1>6 DEF Positions, Free
  <2>. QED
    BY <2>1 DEF NumberOf
<1>. QED
  BY <1>1, <1>4, <1>5, <1>6 DEF c

LEMMA LastOfItsKind ==
  ASSUME NEW T, NEW q \in Seq(T), NEW x \in T, NEW E, Free(q, E)
  PROVE  \A S : NoneAfter(q \o <<x>>, E, S)
<1>. DEFINE c == Append(q, x)
<1>1. /\ Len(q) \in Nat /\ Len(c) = Len(q) + 1
      /\ \A i \in 1..Len(q) : c[i] = q[i]
      /\ c = q \o <<x>>
  BY AppendProperties, LenProperties, AppendIsConcat
<1>. HIDE DEF c
<1>2. ASSUME NEW i \in 1..Len(c), NEW j \in 1..Len(c), i < j PROVE c[i] \notin E
  <2>1. i \in 1..Len(q)
    BY <1>1, <1>2
  <2>. QED
    BY <1>1, <2>1 DEF Free
<1>. QED
  BY <1>1, <1>2 DEF NoneAfter
=============================================================================
