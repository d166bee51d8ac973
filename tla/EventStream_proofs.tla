-------------------------- MODULE EventStream_proofs --------------------------
(***************************************************************************)
(* Theorems of EventStream, for every limit, every number of events and    *)
(* any number of lost connections.                                         *)
(***************************************************************************)
EXTENDS EventStream, FiniteSetTheorems, SequenceTheorems, TLAPS

(***************************************************************************)
(* The rows of a set by increasing id.                                     *)
(***************************************************************************)
Rank(S, e) == Cardinality(S) - Cardinality(Newer(S, e))

LEMMA NewerShrinks ==
    ASSUME NEW S \in SUBSET Nat, IsFiniteSet(S), NEW e \in S, NEW f \in S, e < f
    PROVE  Cardinality(Newer(S, f)) < Cardinality(Newer(S, e))
<1>1. Newer(S, f) \in SUBSET Newer(S, e) /\ f \in Newer(S, e) /\ f \notin Newer(S, f)
  <2>1. \A g \in S : g > f => g > e
    OBVIOUS
  <2>2. Newer(S, f) \subseteq Newer(S, e)
    BY <2>1 DEF Newer
  <2>3. f \in Newer(S, e) /\ f \notin Newer(S, f)
    BY DEF Newer
  <2> QED
    BY <2>2, <2>3
<1>2. IsFiniteSet(Newer(S, e))
  <2>1. Newer(S, e) \in SUBSET S
    BY DEF Newer
  <2> QED
    BY <2>1, FS_Subset
<1>3. /\ IsFiniteSet(Newer(S, f))
      /\ Cardinality(Newer(S, f)) <= Cardinality(Newer(S, e))
      /\ Cardinality(Newer(S, f)) # Cardinality(Newer(S, e))
  BY <1>1, <1>2, FS_Subset
<1> QED
  BY <1>2, <1>3, FS_CardinalityType

LEMMA RankType ==
    ASSUME NEW S \in SUBSET Nat, IsFiniteSet(S), NEW e \in S
    PROVE  Rank(S, e) \in 1..Cardinality(S)
<1>1. Newer(S, e) \in SUBSET S /\ e \notin Newer(S, e)
  BY DEF Newer
<1>2. /\ IsFiniteSet(Newer(S, e))
      /\ Cardinality(Newer(S, e)) <= Cardinality(S)
      /\ Cardinality(Newer(S, e)) # Cardinality(S)
  BY <1>1, FS_Subset
<1>3. Cardinality(S) \in Nat /\ Cardinality(Newer(S, e)) \in Nat
  BY <1>2, FS_CardinalityType
<1> QED
  BY <1>2, <1>3 DEF Rank

(* A later id has a higher rank, so each rank is that of one id.               *)
LEMMA RankAscends ==
    ASSUME NEW S \in SUBSET Nat, IsFiniteSet(S), NEW e \in S, NEW f \in S
    PROVE  /\ e < f <=> Rank(S, e) < Rank(S, f)
           /\ e = f <=> Rank(S, e) = Rank(S, f)
<1>1. /\ e < f => Cardinality(Newer(S, f)) < Cardinality(Newer(S, e))
      /\ f < e => Cardinality(Newer(S, e)) < Cardinality(Newer(S, f))
  BY NewerShrinks
<1>2. Cardinality(S) \in Nat /\ Rank(S, e) \in Nat /\ Rank(S, f) \in Nat
  BY RankType, FS_CardinalityType
<1>3. Cardinality(Newer(S, e)) \in Nat /\ Cardinality(Newer(S, f)) \in Nat
  <2>1. Newer(S, e) \in SUBSET S /\ Newer(S, f) \in SUBSET S
    BY DEF Newer
  <2> QED
    BY <2>1, FS_Subset, FS_CardinalityType
<1> QED
  BY <1>1, <1>2, <1>3 DEF Rank

(* Each rank is that of some id: an injection into a set of the same size is   *)
(* onto it.                                                                    *)
LEMMA RankOnto ==
    ASSUME NEW S \in SUBSET Nat, IsFiniteSet(S), NEW i \in 1..Cardinality(S)
    PROVE  \E e \in S : Rank(S, e) = i
<1> DEFINE rank == [e \in S |-> Rank(S, e)]
           T == 1..Cardinality(S)
<1>1. rank \in Injection(S, T)
  <2>1. \A e \in S : Rank(S, e) \in T
    BY RankType
  <2>2. \A e, f \in S : Rank(S, e) = Rank(S, f) => e = f
    BY RankAscends
  <2> QED
    BY <2>1, <2>2 DEF Injection, IsInjective
<1>2. Cardinality(S) \in Nat
  BY FS_CardinalityType
<1>3. IsFiniteSet(T) /\ Cardinality(T) = Cardinality(S)
  BY <1>2, FS_Interval
<1>4. rank \in Surjection(S, T)
  BY <1>1, <1>3, FS_Injection
<1> QED
  BY <1>4 DEF Surjection

LEMMA OrderedIsAscending ==
    ASSUME NEW S \in SUBSET Nat, IsFiniteSet(S)
    PROVE  /\ Ordered(S) \in Seq(S)
           /\ Len(Ordered(S)) = Cardinality(S)
           /\ \A i, j \in 1..Cardinality(S) : i < j => Ordered(S)[i] < Ordered(S)[j]
           /\ \A e \in S : \E i \in 1..Cardinality(S) : Ordered(S)[i] = e
<1>1. Cardinality(S) \in Nat
  BY FS_CardinalityType
<1>2. \A i \in 1..Cardinality(S) :
        Ordered(S)[i] = CHOOSE e \in S : Rank(S, e) = i
  BY DEF Ordered, Rank
<1>3. \A i \in 1..Cardinality(S) : Ordered(S)[i] \in S /\ Rank(S, Ordered(S)[i]) = i
  BY <1>2, RankOnto, Zenon
<1>4. Ordered(S) \in Seq(S) /\ Len(Ordered(S)) = Cardinality(S)
  <2>1. Ordered(S) \in [1..Cardinality(S) -> S]
    BY <1>3, Zenon DEF Ordered
  <2> QED
    BY <1>1, <2>1
<1>5. \A i, j \in 1..Cardinality(S) : i < j => Ordered(S)[i] < Ordered(S)[j]
  <2> SUFFICES ASSUME NEW i \in 1..Cardinality(S), NEW j \in 1..Cardinality(S), i < j
               PROVE  Ordered(S)[i] < Ordered(S)[j]
    OBVIOUS
  <2>1. /\ Ordered(S)[i] \in S /\ Rank(S, Ordered(S)[i]) = i
        /\ Ordered(S)[j] \in S /\ Rank(S, Ordered(S)[j]) = j
    BY <1>3
  <2>2. Rank(S, Ordered(S)[i]) < Rank(S, Ordered(S)[j])
    BY <2>1
  <2> QED
    BY <2>1, <2>2, RankAscends
<1>6. \A e \in S : \E i \in 1..Cardinality(S) : Ordered(S)[i] = e
  <2> SUFFICES ASSUME NEW e \in S
               PROVE  \E i \in 1..Cardinality(S) : Ordered(S)[i] = e
    OBVIOUS
  <2>1. Rank(S, e) \in 1..Cardinality(S)
    BY RankType
  <2>2. /\ Ordered(S)[Rank(S, e)] \in S
        /\ Rank(S, Ordered(S)[Rank(S, e)]) = Rank(S, e)
    BY <1>3, <2>1
  <2>3. Ordered(S)[Rank(S, e)] = e
    BY <2>2, RankAscends
  <2> QED
    BY <2>1, <2>3
<1> QED
  BY <1>4, <1>5, <1>6

(* At most ReplayLimit rows are kept: the oldest of them has the others above  *)
(* it.                                                                         *)
LEMMA KeptIsBounded ==
    ASSUME NEW S \in SUBSET Nat, IsFiniteSet(S)
    PROVE  /\ Kept(S) \in SUBSET S /\ IsFiniteSet(Kept(S))
           /\ Cardinality(Kept(S)) <= ReplayLimit
<1> DEFINE K == Kept(S)
<1>1. K \in SUBSET S /\ IsFiniteSet(K) /\ Cardinality(K) \in Nat /\ K \in SUBSET Nat
  <2>1. K \in SUBSET S
    BY DEF Kept
  <2> QED
    BY <2>1, FS_Subset, FS_CardinalityType
<1>2. CASE Cardinality(K) = 0
  BY <1>1, <1>2, LimitAssumption
<1>3. CASE Cardinality(K) # 0
  <2>1. PICK e \in K : Rank(K, e) = 1
    <3>1. 1 \in 1..Cardinality(K)
      BY <1>1, <1>3
    <3> HIDE DEF K
    <3> QED
      BY <1>1, <3>1, RankOnto
  <2>2. Newer(K, e) \in SUBSET Newer(S, e) /\ Newer(S, e) \in SUBSET S
    BY <1>1 DEF Newer
  <2>3. IsFiniteSet(Newer(S, e)) /\ Cardinality(Newer(S, e)) \in Nat
    BY <2>2, FS_Subset, FS_CardinalityType
  <2>4. Cardinality(Newer(K, e)) <= Cardinality(Newer(S, e))
        /\ Cardinality(Newer(K, e)) \in Nat
    BY <2>2, <2>3, FS_Subset, FS_CardinalityType
  <2>5. Cardinality(Newer(S, e)) < ReplayLimit
    BY DEF Kept
  <2>6. ReplayLimit \in Nat
    BY LimitAssumption
  <2> QED
    BY <1>1, <2>1, <2>3, <2>4, <2>5, <2>6 DEF Rank
<1> QED
  BY <1>1, <1>2, <1>3

(***************************************************************************)
(* Types.                                                                  *)
(***************************************************************************)
Streams == [at : Places, cursor : 0..MaxEvents, events : Seq(Ids), some : BOOLEAN,
            ticks : 0..KeepAlive]

LEMMA Bounds == /\ ReplayLimit \in Nat \ {0} /\ ReadLimit \in Nat \ {0}
                /\ KeepAlive \in Nat \ {0}
                /\ MaxEvents \in Nat /\ MaxRemovals \in Nat /\ MaxDrops \in Nat
BY LimitAssumption, BoundAssumption

LEMMA StoredIsFinite ==
    ASSUME NEW S \in SUBSET Ids
    PROVE  S \in SUBSET Nat /\ IsFiniteSet(S)
<1>1. IsFiniteSet(Ids)
  BY Bounds, FS_Interval DEF Ids
<1>2. IsFiniteSet(S)
  BY <1>1, FS_Subset
<1>3. S \in SUBSET Nat
  BY Bounds DEF Ids
<1> QED
  BY <1>2, <1>3

(* What events_after reads: the first ids after the cursor, without a gap.     *)
LEMMA EventsAfterType ==
    ASSUME NEW c \in Nat, stored \in SUBSET Ids
    PROVE  LET events == EventsAfter(c)
               n == Len(events) IN
           /\ events \in Seq(Ids)
           /\ \A i \in 1..n : events[i] \in stored /\ events[i] > c
           /\ \A i, j \in 1..n : i < j => events[i] < events[j]
           /\ \A i \in 1..n : \A e \in stored :
                c < e /\ e <= events[i] => \E j \in 1..n : events[j] = e
           /\ events = <<>> <=> After(c) = {}
<1> DEFINE S == After(c)
           all == Ordered(S)
           n == IF Len(all) < ReadLimit THEN Len(all) ELSE ReadLimit
           events == EventsAfter(c)
<1>1. S \in SUBSET Nat /\ S \in SUBSET Ids /\ IsFiniteSet(S)
  <2>1. S \in SUBSET Ids
    BY DEF After
  <2> QED
    BY <2>1, StoredIsFinite
<1>2. Cardinality(S) \in Nat /\ (Cardinality(S) = 0 <=> S = {})
  BY <1>1, FS_CardinalityType, FS_EmptySet
<1>3. \A e \in S : e \in stored /\ e > c
  BY DEF After
<1>4. \A e \in stored : e > c => e \in S
  BY DEF After
<1>5. events = SubSeq(all, 1, n)
  BY DEF EventsAfter
<1> HIDE DEF S, events
<1>6. /\ all \in Seq(S) /\ Len(all) = Cardinality(S)
      /\ \A i, j \in 1..Len(all) : i < j => all[i] < all[j]
      /\ \A e \in S : \E i \in 1..Len(all) : all[i] = e
  BY <1>1, OrderedIsAscending
<1> HIDE DEF all
<1>7. n \in 0..Len(all) /\ (n = 0 <=> Len(all) = 0)
  BY <1>2, <1>6, Bounds
<1> HIDE DEF n
<1>8. /\ events \in Seq(S) /\ Len(events) = n
      /\ \A i \in 1..n : events[i] = all[i]
  BY <1>2, <1>5, <1>6, <1>7
<1>9. events \in Seq(Ids)
  BY <1>1, <1>8, SeqMonotonic
<1>10. \A i \in 1..n : events[i] \in stored /\ events[i] > c
  <2> SUFFICES ASSUME NEW i \in 1..n
               PROVE  events[i] \in S
    BY <1>3
  <2> QED
    BY <1>8, ElementOfSeq
<1>11. \A i, j \in 1..n : i < j => events[i] < events[j]
  <2> SUFFICES ASSUME NEW i \in 1..n, NEW j \in 1..n, i < j
               PROVE  events[i] < events[j]
    OBVIOUS
  <2>1. i \in 1..Len(all) /\ j \in 1..Len(all)
    BY <1>2, <1>6, <1>7
  <2>2. all[i] < all[j]
    BY <1>6, <2>1
  <2> QED
    BY <1>8, <2>2
<1>12. \A i \in 1..n : \A e \in stored :
         c < e /\ e <= events[i] => \E j \in 1..n : events[j] = e
  <2> SUFFICES ASSUME NEW i \in 1..n, NEW e \in stored, c < e, e <= events[i]
               PROVE  \E j \in 1..n : events[j] = e
    OBVIOUS
  <2>1. e \in Nat
    BY StoredIsFinite
  <2>2. e \in S
    BY <1>4, <2>1
  <2>3. PICK j \in 1..Len(all) : all[j] = e
    BY <1>6, <2>2
  <2>4. all[i] \in Nat /\ all[i] = events[i] /\ i \in 1..Len(all)
    <3>1. i \in 1..Len(all)
      BY <1>2, <1>6, <1>7
    <3>2. all[i] \in S
      BY <1>6, <3>1, ElementOfSeq
    <3> QED
      BY <1>1, <1>8, <3>1, <3>2
  <2>5. ~(i < j)
    <3>1. i < j => all[i] < all[j]
      BY <1>6, <2>3, <2>4
    <3> QED
      BY <2>1, <2>3, <2>4, <3>1
  <2>6. j \in 1..n
    BY <1>6, <1>7, <2>5
  <2> QED
    BY <1>8, <2>3, <2>6
<1>13. events = <<>> <=> S = {}
  BY <1>2, <1>6, <1>7, <1>8
<1> QED
  BY <1>8, <1>9, <1>10, <1>11, <1>12, <1>13 DEF S, events

(***************************************************************************)
(* Ascending sequences.                                                    *)
(***************************************************************************)
Asc(s) == \A i, j \in 1..Len(s) : i < j => s[i] < s[j]

Among(e, s) == \E i \in 1..Len(s) : s[i] = e

LEMMA AscTail ==
    ASSUME NEW s \in Seq(Ids), s # <<>>, Asc(s)
    PROVE  /\ s[1] \in Ids /\ Tail(s) \in Seq(Ids) /\ Asc(Tail(s))
           /\ \A i \in 1..Len(Tail(s)) : s[1] < Tail(s)[i] /\ Among(Tail(s)[i], s)
           /\ \A e : Among(e, s) => e = s[1] \/ Among(e, Tail(s))
<1>1. /\ Len(s) \in Nat \ {0} /\ s[1] \in Ids
      /\ Tail(s) \in Seq(Ids) /\ Len(Tail(s)) = Len(s) - 1
      /\ \A i \in 1..Len(Tail(s)) : Tail(s)[i] = s[i + 1]
  <2>1. Len(s) \in Nat \ {0}
    BY EmptySeq
  <2>2. s[1] \in Ids
    BY <2>1, ElementOfSeq
  <2> QED
    BY <2>1, <2>2, HeadTailProperties
<1>2. \A i \in 1..Len(Tail(s)) : s[1] < Tail(s)[i] /\ Among(Tail(s)[i], s)
  <2> SUFFICES ASSUME NEW i \in 1..Len(Tail(s))
               PROVE  s[1] < Tail(s)[i] /\ Among(Tail(s)[i], s)
    OBVIOUS
  <2>1. i + 1 \in 1..Len(s) /\ 1 \in 1..Len(s) /\ 1 < i + 1
    BY <1>1
  <2>2. s[1] < s[i + 1]
    BY <2>1 DEF Asc
  <2> QED
    BY <1>1, <2>1, <2>2 DEF Among
<1>3. Asc(Tail(s))
  <2> SUFFICES ASSUME NEW i \in 1..Len(Tail(s)), NEW j \in 1..Len(Tail(s)), i < j
               PROVE  Tail(s)[i] < Tail(s)[j]
    BY DEF Asc
  <2>1. i + 1 \in 1..Len(s) /\ j + 1 \in 1..Len(s) /\ i + 1 < j + 1
    BY <1>1
  <2>2. s[i + 1] < s[j + 1]
    BY <2>1 DEF Asc
  <2> QED
    BY <1>1, <2>2
<1>4. \A e : Among(e, s) => e = s[1] \/ Among(e, Tail(s))
  <2> SUFFICES ASSUME NEW e, NEW i \in 1..Len(s), s[i] = e, i # 1
               PROVE  Among(e, Tail(s))
    BY DEF Among
  <2>1. i - 1 \in 1..Len(Tail(s)) /\ (i - 1) + 1 = i
    BY <1>1
  <2>2. Tail(s)[i - 1] = e
    BY <1>1, <2>1
  <2> QED
    BY <2>1, <2>2 DEF Among
<1> QED
  BY <1>1, <1>2, <1>3, <1>4

LEMMA AscAppend ==
    ASSUME NEW s \in Seq(Ids), NEW e \in Ids, Asc(s),
           \A i \in 1..Len(s) : s[i] < e
    PROVE  /\ Append(s, e) \in Seq(Ids) /\ Asc(Append(s, e))
           /\ Len(Append(s, e)) = Len(s) + 1 /\ Append(s, e)[Len(s) + 1] = e
           /\ \A i \in 1..Len(s) + 1 : Append(s, e)[i] = e \/ Among(Append(s, e)[i], s)
           /\ \A f : Among(f, s) \/ f = e => Among(f, Append(s, e))
<1> DEFINE t == Append(s, e)
<1>1. /\ Len(s) \in Nat
      /\ t \in Seq(Ids) /\ Len(t) = Len(s) + 1 /\ t[Len(s) + 1] = e
      /\ \A i \in 1..Len(s) : t[i] = s[i]
  OBVIOUS
<1> HIDE DEF t
<1>2. Asc(t)
  <2> SUFFICES ASSUME NEW i \in 1..Len(t), NEW j \in 1..Len(t), i < j
               PROVE  t[i] < t[j]
    BY DEF Asc
  <2>1. i \in 1..Len(s) /\ t[i] = s[i]
    BY <1>1
  <2>2. CASE j = Len(s) + 1
    BY <1>1, <2>1, <2>2
  <2>3. CASE j \in 1..Len(s)
    <3>1. s[i] < s[j]
      BY <2>1, <2>3 DEF Asc
    <3> QED
      BY <1>1, <2>1, <2>3, <3>1
  <2> QED
    BY <1>1, <2>2, <2>3
<1>3. \A i \in 1..Len(s) + 1 : t[i] = e \/ Among(t[i], s)
  <2> SUFFICES ASSUME NEW i \in 1..Len(s) + 1, i # Len(s) + 1
               PROVE  Among(t[i], s)
    BY <1>1
  <2>1. i \in 1..Len(s)
    BY <1>1
  <2> QED
    BY <1>1, <2>1 DEF Among
<1>4. \A f : Among(f, s) \/ f = e => Among(f, t)
  <2>1. Len(s) + 1 \in 1..Len(t) /\ 1..Len(s) \subseteq 1..Len(t)
    BY <1>1
  <2> QED
    BY <1>1, <2>1 DEF Among
<1> QED
  BY <1>1, <1>2, <1>3, <1>4 DEF t

(***************************************************************************)
(* Type correctness.                                                       *)
(***************************************************************************)
Writes ==
    \/ AppendEvent \/ FinishHere \/ FinishStatus \/ FinishEvent \/ Cancel
    \/ \E e \in stored : RemoveEvent(e)
    \/ DeleteBatch

\* What a stream that is not sending has read is sent.
AllSent == stream.at # "sending" => stream.events = <<>>

StreamOK ==
    /\ stream \in Streams
    /\ stream.at = "sending" => stream.events # <<>>
    /\ AllSent

LogOK == stored \in SUBSET Ids /\ Cardinality(stored) <= ReplayLimit

Types == TypeOK /\ AllSent

LEMMA FieldsOfStream ==
    ASSUME NEW s \in Streams
    PROVE  /\ s.at \in Places /\ s.cursor \in 0..MaxEvents /\ s.events \in Seq(Ids)
           /\ s.some \in BOOLEAN /\ s.ticks \in 0..KeepAlive
           /\ s = [at |-> s.at, cursor |-> s.cursor, events |-> s.events,
                   some |-> s.some, ticks |-> s.ticks]
BY Zenon DEF Streams

LEMMA ExceptRound ==
    ASSUME NEW s \in Streams, NEW t \in 0..KeepAlive
    PROVE  [s EXCEPT !.some = FALSE, !.ticks = t] =
             [at |-> s.at, cursor |-> s.cursor, events |-> s.events, some |-> FALSE,
              ticks |-> t]
<1> DEFINE r == [s EXCEPT !.some = FALSE, !.ticks = t]
<1>1. r \in Streams
  BY Zenon DEF Streams
<1>2. r.at = s.at /\ r.cursor = s.cursor /\ r.events = s.events /\ r.ticks = t
  BY DEF Streams
<1>3. r.some = FALSE
  BY DEF Streams
<1> HIDE DEF r
<1>4. r = [at |-> r.at, cursor |-> r.cursor, events |-> r.events, some |-> r.some,
           ticks |-> r.ticks]
  BY <1>1, FieldsOfStream
<1> QED
  BY <1>2, <1>3, <1>4 DEF r

LEMMA StreamOfFields ==
    ASSUME NEW at \in Places, NEW cursor \in 0..MaxEvents, NEW events \in Seq(Ids),
           NEW some \in BOOLEAN, NEW ticks \in 0..KeepAlive
    PROVE  [at |-> at, cursor |-> cursor, events |-> events, some |-> some,
            ticks |-> ticks] \in Streams
BY Zenon DEF Streams

LEMMA LastIsId ==
    ASSUME received \in Seq(Ids)
    PROVE  LastReceived \in 0..MaxEvents
<1>1. CASE received = <<>>
  BY <1>1, Bounds DEF LastReceived
<1>2. CASE received # <<>>
  <2>1. Len(received) \in 1..Len(received)
    BY <1>2, EmptySeq, LenProperties
  <2>2. received[Len(received)] \in Ids
    BY <2>1, ElementOfSeq
  <2> QED
    BY <1>2, <2>2, Bounds DEF LastReceived, Ids
<1> QED
  BY <1>1, <1>2

(* An append prunes the log to ReplayLimit rows.                               *)
LEMMA AppendKeepsLog ==
    ASSUME LogOK, appended \in 0..MaxEvents, Appends
    PROVE  /\ LogOK' /\ appended' \in 0..MaxEvents /\ appended + 1 \in 0..MaxEvents
           /\ stored' \in SUBSET (stored \cup {appended + 1})
<1> DEFINE S == stored \cup {appended + 1}
<1>1. appended + 1 \in Ids
  BY Bounds DEF Appends, Ids
<1>2. S \in SUBSET Ids
  BY <1>1 DEF LogOK
<1>3. S \in SUBSET Nat /\ IsFiniteSet(S)
  BY <1>2, StoredIsFinite
<1>4. stored' = Kept(S)
  BY DEF Appends
<1> HIDE DEF S
<1>5. Kept(S) \in SUBSET S /\ Cardinality(Kept(S)) <= ReplayLimit
  BY <1>3, KeptIsBounded
<1>6. LogOK'
  BY <1>2, <1>4, <1>5 DEF LogOK, Ids
<1>7. appended' \in 0..MaxEvents /\ appended + 1 \in 0..MaxEvents
  BY <1>1, Bounds DEF Appends, Ids
<1> QED
  BY <1>4, <1>5, <1>6, <1>7 DEF S

(* A smaller log is one.                                                       *)
LEMMA SubsetKeepsLog ==
    ASSUME LogOK, stored' \in SUBSET stored
    PROVE  LogOK'
<1>1. IsFiniteSet(stored)
  BY StoredIsFinite DEF LogOK
<1>2. /\ Cardinality(stored') <= Cardinality(stored)
      /\ Cardinality(stored') \in Nat /\ Cardinality(stored) \in Nat
  BY <1>1, FS_Subset, FS_CardinalityType
<1> QED
  BY <1>2, Bounds DEF LogOK, Ids

(* What event_stream does keeps its state well-formed.                         *)
LEMMA ReadKeepsStream ==
    ASSUME StreamOK, LogOK, Read
    PROVE  /\ StreamOK' /\ stream'.cursor = stream.cursor
           /\ stream'.events = EventsAfter(stream.cursor)
           /\ stream'.at \in {"sending", "yielded", "ended", "top"}
           /\ stream'.at = "ended" => stream'.events = <<>>
           /\ stream.at = "top"
<1> DEFINE events == EventsAfter(stream.cursor)
           tick == (stream.ticks + 1) % KeepAlive
<1>1. /\ stream.cursor \in 0..MaxEvents /\ stream.events = <<>>
      /\ stream = [at |-> stream.at, cursor |-> stream.cursor, events |-> stream.events,
                   some |-> stream.some, ticks |-> stream.ticks]
      /\ stream.ticks \in 0..KeepAlive
  BY FieldsOfStream DEF StreamOK, AllSent, Read
<1>2. tick \in 0..KeepAlive
  BY <1>1, Bounds
<1>3. events \in Seq(Ids)
  <2>1. stream.cursor \in Nat
    BY <1>1, Bounds
  <2> QED
    BY <2>1, EventsAfterType DEF LogOK
<1>4. \/ /\ events # <<>>
         /\ stream' = [at |-> "sending", cursor |-> stream.cursor, events |-> events,
                       some |-> TRUE, ticks |-> 0]
      \/ \E at \in {"yielded", "ended", "top"} : events = <<>> /\
           stream' = [at |-> at, cursor |-> stream.cursor, events |-> <<>>,
                      some |-> FALSE, ticks |-> tick]
  <2>1. CASE events # <<>>
    BY <2>1 DEF Read
  <2>2. CASE events = <<>>
    <3> DEFINE idle == [stream EXCEPT !.some = FALSE, !.ticks = tick]
    <3>1. \E at \in {"yielded", "ended", "top"} : stream' = [idle EXCEPT !.at = at]
      BY <2>2 DEF Read, AfterRecord
    <3> HIDE DEF tick
    <3>2. idle = [at |-> stream.at, cursor |-> stream.cursor, events |-> <<>>,
                  some |-> FALSE, ticks |-> tick]
      BY <1>1, <1>2, ExceptRound, Zenon DEF StreamOK, tick
    <3> HIDE DEF idle, events
    <3> QED
      BY <2>2, <3>1, <3>2
  <2> QED
    BY <2>1, <2>2
<1> HIDE DEF events, tick
<1>5. stream' \in Streams
  <2>1. <<>> \in Seq(Ids) /\ 0 \in 0..KeepAlive
    BY Bounds
  <2> QED
    BY <1>1, <1>2, <1>3, <1>4, <2>1, StreamOfFields, Zenon DEF Places
<1>6. /\ stream'.cursor = stream.cursor
      /\ stream'.at \in {"sending", "yielded", "ended", "top"}
      /\ stream'.at = "sending" => stream'.events = events /\ events # <<>>
      /\ stream'.events = events
      /\ stream'.at # "sending" => events = <<>>
  BY <1>4
<1> QED
  BY <1>5, <1>6 DEF StreamOK, AllSent, Read, events

LEMMA SendKeepsStream ==
    ASSUME StreamOK, Send
    PROVE  /\ StreamOK' /\ stream.events[1] \in Ids
           /\ stream.events \in Seq(Ids) /\ stream.events # <<>>
           /\ stream'.cursor = stream.events[1] /\ stream'.events = Tail(stream.events)
           /\ stream'.at \in {"sending", "yielded"}
<1>1. /\ stream \in Streams /\ stream.events \in Seq(Ids) /\ stream.events # <<>>
      /\ stream.at = "sending"
  BY FieldsOfStream DEF StreamOK, Send
<1>2. Tail(stream.events) \in Seq(Ids) /\ stream.events[1] \in Ids
  <2>1. Len(stream.events) \in Nat \ {0}
    BY <1>1, EmptySeq
  <2>2. 1 \in 1..Len(stream.events)
    BY <2>1
  <2> QED
    BY <1>1, <2>2, ElementOfSeq, HeadTailProperties
<1>3. stream.events[1] \in 0..MaxEvents
  BY <1>2, Bounds DEF Ids
<1>4. \E at \in {"sending", "yielded"} :
        /\ stream' = [stream EXCEPT !.cursor = stream.events[1],
                                    !.events = Tail(stream.events), !.at = at]
        /\ at = "sending" <=> Tail(stream.events) # <<>>
  BY DEF Send
<1>5. PICK at \in {"sending", "yielded"} :
        /\ stream' = [stream EXCEPT !.cursor = stream.events[1],
                                    !.events = Tail(stream.events), !.at = at]
        /\ at = "sending" <=> Tail(stream.events) # <<>>
  BY <1>4, Zenon
<1>6. /\ stream'.at = at /\ stream'.cursor = stream.events[1]
      /\ stream'.events = Tail(stream.events)
  BY <1>1, <1>5 DEF Streams
<1>7. stream' \in Streams
  <2>1. at \in Places
    BY DEF Places
  <2> QED
    BY <1>1, <1>2, <1>3, <1>5, <2>1, Zenon DEF Streams
<1> QED
  BY <1>1, <1>2, <1>5, <1>6, <1>7 DEF StreamOK, AllSent

LEMMA RecordKeepsStream ==
    ASSUME StreamOK, ReadRecord
    PROVE  /\ StreamOK' /\ stream'.cursor = stream.cursor
           /\ stream'.events = <<>> /\ stream.events = <<>>
           /\ stream'.at \in {"top", "ended"}
           /\ stream'.at = "ended" => ~stream.some
<1>1. stream \in Streams /\ stream.events = <<>> /\ stream.at = "yielded"
  BY DEF StreamOK, AllSent, ReadRecord
<1>2. PICK at \in {"top", "ended"} : /\ stream' = [stream EXCEPT !.at = at]
                                     /\ at = "ended" => ~stream.some
  BY DEF ReadRecord, AfterRecord, Ends
<1>3. /\ stream'.at = at /\ stream'.cursor = stream.cursor
      /\ stream'.events = stream.events
  BY <1>1, <1>2 DEF Streams
<1>4. stream' \in Streams
  <2>1. at \in Places
    BY DEF Places
  <2> QED
    BY <1>1, <1>2, <2>1, Zenon DEF Streams
<1> QED
  BY <1>1, <1>2, <1>3, <1>4 DEF StreamOK, AllSent

LEMMA IdleIsStream ==
    /\ Idle \in Streams /\ Idle.at = "off" /\ Idle.events = <<>> /\ Idle.cursor = 0
    /\ \A c \in 0..MaxEvents :
         /\ [Idle EXCEPT !.at = "top", !.cursor = c] \in Streams
         /\ [Idle EXCEPT !.at = "top", !.cursor = c].at = "top"
         /\ [Idle EXCEPT !.at = "top", !.cursor = c].cursor = c
         /\ [Idle EXCEPT !.at = "top", !.cursor = c].events = <<>>
<1>1. Idle \in Streams
  <2>1. /\ <<>> \in Seq(Ids) /\ 0 \in 0..KeepAlive /\ 0 \in 0..MaxEvents
        /\ "off" \in Places /\ FALSE \in BOOLEAN
    BY Bounds DEF Places
  <2> QED
    BY <2>1, StreamOfFields, Zenon DEF Idle
<1>2. Idle.at = "off" /\ Idle.events = <<>> /\ Idle.cursor = 0
  BY DEF Idle
<1> SUFFICES ASSUME NEW c \in 0..MaxEvents
             PROVE  /\ [Idle EXCEPT !.at = "top", !.cursor = c] \in Streams
                    /\ [Idle EXCEPT !.at = "top", !.cursor = c].at = "top"
                    /\ [Idle EXCEPT !.at = "top", !.cursor = c].cursor = c
                    /\ [Idle EXCEPT !.at = "top", !.cursor = c].events = <<>>
  BY <1>1, <1>2, Zenon
<1>3. [Idle EXCEPT !.at = "top", !.cursor = c] \in Streams
  <2>1. "top" \in Places
    BY DEF Places
  <2> QED
    BY <1>1, <2>1, Zenon DEF Streams
<1> QED
  BY <1>1, <1>2, <1>3 DEF Streams

LEMMA TypesInitially == Init => Types
<1> SUFFICES ASSUME Init
             PROVE  Types
  OBVIOUS
<1>1. /\ 0 \in 0..MaxEvents /\ 0 \in 0..MaxDrops /\ <<>> \in Seq(Ids)
      /\ {} \in SUBSET Ids /\ Cardinality({}) <= ReplayLimit
  BY Bounds, FS_EmptySet
<1>2. stream \in Streams /\ stream.at = "off" /\ stream.events = <<>>
  BY IdleIsStream DEF Init
<1> QED
  BY <1>1, <1>2 DEF Init, Types, TypeOK, AllSent, Phases, Statuses, Streams

LEMMA TypesKept == Types /\ [Next]_vars => Types'
<1> SUFFICES ASSUME Types, [Next]_vars
             PROVE  Types'
  OBVIOUS
<1>1. /\ StreamOK /\ LogOK /\ appended \in 0..MaxEvents /\ finished \in 0..MaxEvents
      /\ removed \in SUBSET Ids /\ channel \in Seq(Ids) /\ received \in Seq(Ids)
      /\ drops \in 0..MaxDrops
      /\ foreign \in BOOLEAN /\ phase \in Phases /\ status \in Statuses
  BY Zenon DEF Types, TypeOK, StreamOK, LogOK, Streams
<1> SUFFICES /\ StreamOK' /\ LogOK' /\ appended' \in 0..MaxEvents
             /\ finished' \in 0..MaxEvents
             /\ removed' \in SUBSET Ids /\ channel' \in Seq(Ids)
             /\ received' \in Seq(Ids) /\ drops' \in 0..MaxDrops
             /\ foreign' \in BOOLEAN /\ phase' \in Phases /\ status' \in Statuses
  BY Zenon DEF Types, TypeOK, StreamOK, LogOK, Streams
<1>2. CASE client' = client /\ Writes
  <2>1. /\ StreamOK' /\ channel' \in Seq(Ids) /\ received' \in Seq(Ids)
        /\ drops' \in 0..MaxDrops
    BY <1>1, <1>2 DEF client, StreamOK, AllSent
  <2>2. CASE AppendEvent \/ FinishHere \/ FinishEvent \/ Cancel
    <3>1. Appends
      BY <2>2 DEF AppendEvent, FinishHere, FinishEvent, Cancel
    <3>2. LogOK' /\ appended' \in 0..MaxEvents /\ appended + 1 \in 0..MaxEvents
      BY <1>1, <3>1, AppendKeepsLog
    <3> QED
      BY <1>1, <2>1, <2>2, <3>2
         DEF AppendEvent, FinishHere, FinishEvent, Cancel, Phases, Statuses
  <2>3. CASE FinishStatus
    BY <1>1, <2>1, <2>3 DEF FinishStatus, LogOK, Phases, Statuses
  <2>4. CASE \E e \in stored : RemoveEvent(e)
    <3>1. PICK e \in stored : RemoveEvent(e)
      BY <2>4
    <3>2. stored' \in SUBSET stored /\ removed' \in SUBSET Ids
      BY <1>1, <3>1 DEF RemoveEvent, LogOK
    <3>3. LogOK'
      BY <1>1, <3>2, SubsetKeepsLog
    <3> QED
      BY <1>1, <2>1, <3>1, <3>2, <3>3 DEF RemoveEvent
  <2>5. CASE DeleteBatch
    <3>1. stored' \in SUBSET stored /\ removed' \in SUBSET Ids
      BY <1>1, <2>5 DEF DeleteBatch, LogOK
    <3>2. LogOK'
      BY <1>1, <3>1, SubsetKeepsLog
    <3> QED
      BY <1>1, <2>1, <2>5, <3>1, <3>2 DEF DeleteBatch, Statuses
  <2> QED
    BY <1>2, <2>2, <2>3, <2>4, <2>5 DEF Writes
<1>3. CASE writer' = writer /\ (Connect \/ Read \/ Send \/ ReadRecord
                                \/ Deliver \/ Drop \/ Reconnect)
  <2>1. /\ LogOK' /\ appended' \in 0..MaxEvents /\ finished' \in 0..MaxEvents
        /\ removed' \in SUBSET Ids
        /\ foreign' \in BOOLEAN /\ phase' \in Phases /\ status' \in Statuses
    BY <1>1, <1>3 DEF writer, LogOK
  <2> SUFFICES /\ StreamOK' /\ channel' \in Seq(Ids) /\ received' \in Seq(Ids)
               /\ drops' \in 0..MaxDrops
    BY <2>1
  <2>2. CASE Connect
    <3>1. LastReceived \in 0..MaxEvents
      BY <1>1, LastIsId
    <3>2. StreamOK'
      BY <2>2, <3>1, IdleIsStream DEF Connect, StreamOK, AllSent
    <3> QED
      BY <1>1, <2>2, <3>2 DEF Connect
  <2>3. CASE Read
    BY <1>1, <2>3, ReadKeepsStream DEF Read
  <2>4. CASE Send
    <3>1. StreamOK' /\ stream.events[1] \in Ids
      BY <1>1, <2>4, SendKeepsStream
    <3> QED
      BY <1>1, <2>4, <3>1 DEF Send
  <2>5. CASE ReadRecord
    BY <1>1, <2>5, RecordKeepsStream DEF ReadRecord
  <2>6. CASE Deliver
    <3>1. Len(channel) \in Nat \ {0}
      BY <1>1, <2>6, EmptySeq DEF Deliver
    <3>2. channel[1] \in Ids /\ Tail(channel) \in Seq(Ids)
      BY <1>1, <2>6, <3>1, ElementOfSeq, HeadTailProperties DEF Deliver
    <3>3. StreamOK'
      BY <1>1, <2>6 DEF Deliver, StreamOK, AllSent
    <3> QED
      BY <1>1, <2>6, <3>2, <3>3 DEF Deliver
  <2>7. CASE Drop
    <3>1. StreamOK'
      BY <2>7, IdleIsStream DEF Drop, StreamOK, AllSent
    <3> QED
      BY <1>1, <2>7, <3>1, Bounds DEF Drop
  <2>8. CASE Reconnect
    <3>1. StreamOK'
      BY <2>8, IdleIsStream DEF Reconnect, StreamOK, AllSent
    <3> QED
      BY <1>1, <2>8, <3>1 DEF Reconnect
  <2> QED
    BY <1>3, <2>2, <2>3, <2>4, <2>5, <2>6, <2>7, <2>8
<1>4. CASE UNCHANGED vars
  BY <1>1, <1>4 DEF vars, writer, client, StreamOK, AllSent, LogOK
<1> QED
  BY <1>2, <1>3, <1>4 DEF Next, Writes, writer, client, AppendEvent, FinishHere,
     FinishStatus, FinishEvent, Cancel, RemoveEvent, DeleteBatch, Connect, Read,
     Send, ReadRecord, Deliver, Drop, Reconnect

(* The log, the stream and the client are well-formed: TypeOK is inductive with *)
(* AllSent.                                                                     *)
THEOREM TypeCorrect == Spec => []TypeOK
<1>1. Types => TypeOK
  BY DEF Types
<1> QED
  BY <1>1, TypesInitially, TypesKept, PTL DEF Spec

(***************************************************************************)
(* Order: what was received comes before what is on its way, which the     *)
(* cursor covers, and what was read and not sent comes after the cursor.   *)
(***************************************************************************)
OrderOK ==
    /\ Asc(received) /\ Asc(channel) /\ Asc(stream.events)
    /\ \A i \in 1..Len(received) : \A j \in 1..Len(channel) : received[i] < channel[j]
    /\ stream.at # "off" => /\ \A i \in 1..Len(received) : received[i] <= stream.cursor
                            /\ \A j \in 1..Len(channel) : channel[j] <= stream.cursor
    /\ \A k \in 1..Len(stream.events) : stream.events[k] > stream.cursor
    /\ stream.at = "off" => channel = <<>>

SequencesOK ==
    /\ stream.events \in Seq(Ids) /\ channel \in Seq(Ids) /\ received \in Seq(Ids)
    /\ stream.cursor \in Nat /\ stream.at \in Places

LEMMA SequencesTyped == Types => SequencesOK /\ StreamOK /\ LogOK
<1> SUFFICES ASSUME Types
             PROVE  SequencesOK /\ StreamOK /\ LogOK
  OBVIOUS
<1>1. StreamOK /\ LogOK
  BY Zenon DEF Types, TypeOK, StreamOK, LogOK, Streams
<1>2. stream.cursor \in 0..MaxEvents /\ stream.events \in Seq(Ids) /\ stream.at \in Places
  BY <1>1, FieldsOfStream DEF StreamOK
<1>3. channel \in Seq(Ids) /\ received \in Seq(Ids)
  BY DEF Types, TypeOK
<1> QED
  BY <1>1, <1>2, <1>3, Bounds DEF SequencesOK

(* The last id received is the highest one.                                    *)
LEMMA LastIsHighest ==
    ASSUME received \in Seq(Ids), Asc(received)
    PROVE  /\ LastReceived \in 0..MaxEvents
           /\ \A i \in 1..Len(received) : received[i] <= LastReceived
<1>1. LastReceived \in 0..MaxEvents
  BY LastIsId
<1>2. ASSUME NEW i \in 1..Len(received)
      PROVE  received[i] <= LastReceived
  <2>1. received # <<>> /\ Len(received) \in 1..Len(received)
    BY EmptySeq, LenProperties
  <2>2. LastReceived = received[Len(received)]
    BY <2>1 DEF LastReceived
  <2>3. received[i] \in Ids /\ received[Len(received)] \in Ids
    BY <2>1, ElementOfSeq
  <2>4. i < Len(received) => received[i] < received[Len(received)]
    BY <2>1 DEF Asc
  <2> QED
    BY <2>1, <2>2, <2>3, <2>4, Bounds DEF Ids
<1> QED
  BY <1>1, <1>2

LEMMA SendKeepsOrder ==
    ASSUME Types, OrderOK, Send
    PROVE  /\ OrderOK'
           /\ \A e : Among(e, channel) \/ e = stream.events[1] => Among(e, channel')
<1>1. SequencesOK /\ StreamOK
  BY SequencesTyped
<1>2. /\ stream.events[1] \in Ids /\ stream.events # <<>>
      /\ stream'.cursor = stream.events[1] /\ stream'.events = Tail(stream.events)
      /\ stream'.at \in {"sending", "yielded"}
      /\ stream.events \in Seq(Ids) /\ stream.at = "sending"
  BY <1>1, SendKeepsStream DEF Send
<1>3. /\ Asc(Tail(stream.events))
      /\ \A i \in 1..Len(Tail(stream.events)) : stream.events[1] < Tail(stream.events)[i]
  BY <1>2, AscTail DEF OrderOK
<1>4. stream.events[1] > stream.cursor
  <2>1. 1 \in 1..Len(stream.events)
    BY <1>2, EmptySeq
  <2> QED
    BY <2>1 DEF OrderOK
<1>5. \A j \in 1..Len(channel) : channel[j] \in Ids /\ channel[j] < stream.events[1]
  <2> SUFFICES ASSUME NEW j \in 1..Len(channel)
               PROVE  channel[j] \in Ids /\ channel[j] < stream.events[1]
    OBVIOUS
  <2>1. channel[j] \in Ids
    BY <1>1, ElementOfSeq DEF SequencesOK
  <2>2. channel[j] <= stream.cursor
    BY <1>2 DEF OrderOK
  <2> QED
    BY <1>1, <1>2, <1>4, <2>1, <2>2, Bounds DEF Ids, SequencesOK
<1>6. \A i \in 1..Len(received) : received[i] \in Ids /\ received[i] < stream.events[1]
  <2> SUFFICES ASSUME NEW i \in 1..Len(received)
               PROVE  received[i] \in Ids /\ received[i] < stream.events[1]
    OBVIOUS
  <2>1. received[i] \in Ids
    BY <1>1, ElementOfSeq DEF SequencesOK
  <2>2. received[i] <= stream.cursor
    BY <1>2 DEF OrderOK
  <2> QED
    BY <1>1, <1>2, <1>4, <2>1, <2>2, Bounds DEF Ids, SequencesOK
<1>7. channel' = Append(channel, stream.events[1]) /\ received' = received
  BY DEF Send
<1>8. /\ Asc(channel') /\ Len(channel') = Len(channel) + 1
      /\ \A j \in 1..Len(channel') :
           channel'[j] = stream.events[1] \/ Among(channel'[j], channel)
      /\ \A e : Among(e, channel) \/ e = stream.events[1] => Among(e, channel')
  <2>1. Asc(channel) /\ channel \in Seq(Ids)
    BY <1>1 DEF OrderOK, SequencesOK
  <2> QED
    BY <1>2, <1>5, <1>7, <2>1, AscAppend
<1>9. \A j \in 1..Len(channel') : channel'[j] <= stream.events[1]
  BY <1>2, <1>5, <1>8, Bounds DEF Among, Ids
<1>10. \A i \in 1..Len(received) : \A j \in 1..Len(channel') : received[i] < channel'[j]
  <2> SUFFICES ASSUME NEW i \in 1..Len(received), NEW j \in 1..Len(channel')
               PROVE  received[i] < channel'[j]
    OBVIOUS
  <2>1. CASE channel'[j] = stream.events[1]
    BY <1>6, <2>1
  <2>2. CASE Among(channel'[j], channel)
    <3>1. PICK k \in 1..Len(channel) : channel[k] = channel'[j]
      BY <2>2 DEF Among
    <3>2. received[i] < channel[k]
      BY DEF OrderOK
    <3> QED
      BY <3>1, <3>2
  <2> QED
    BY <1>8, <2>1, <2>2
<1>11. \A i \in 1..Len(received) : received[i] <= stream.events[1]
  BY <1>2, <1>6, Bounds DEF Ids
<1>12. \A k \in 1..Len(stream'.events) : stream'.events[k] > stream'.cursor
  <2> SUFFICES ASSUME NEW k \in 1..Len(Tail(stream.events))
               PROVE  Tail(stream.events)[k] > stream.events[1]
    BY <1>2
  <2> QED
    BY <1>3
<1>13. Asc(received)
  BY DEF OrderOK
<1> QED
  BY <1>2, <1>3, <1>7, <1>8, <1>9, <1>10, <1>11, <1>12, <1>13 DEF OrderOK, Asc

LEMMA DeliverKeepsOrder ==
    ASSUME Types, OrderOK, Deliver
    PROVE  /\ OrderOK' /\ channel # <<>> /\ channel[1] \in Ids
           /\ stream.at # "off" /\ LastReceived' = channel[1]
           /\ channel[1] <= stream.cursor
           /\ \A e : Among(e, received) => Among(e, received')
           /\ \A e : Among(e, channel) => Among(e, received') \/ Among(e, channel')
           /\ \A e : Among(e, channel') => e > channel[1]
<1>1. SequencesOK
  BY SequencesTyped
<1>2. /\ channel # <<>> /\ channel \in Seq(Ids) /\ received \in Seq(Ids)
      /\ channel' = Tail(channel) /\ received' = Append(received, channel[1])
      /\ stream' = stream /\ stream.at # "off"
  BY <1>1 DEF Deliver, SequencesOK, OrderOK
<1>3. Len(channel) \in Nat \ {0} /\ 1 \in 1..Len(channel)
  BY <1>2, EmptySeq
<1>4. /\ channel[1] \in Ids /\ Asc(Tail(channel)) /\ Tail(channel) \in Seq(Ids)
      /\ \A i \in 1..Len(Tail(channel)) :
           channel[1] < Tail(channel)[i] /\ Among(Tail(channel)[i], channel)
      /\ \A e : Among(e, channel) => e = channel[1] \/ Among(e, Tail(channel))
  BY <1>2, AscTail DEF OrderOK
<1>5. \A i \in 1..Len(received) : received[i] < channel[1]
  BY <1>3 DEF OrderOK
<1>6. /\ Asc(received') /\ received' \in Seq(Ids)
      /\ Len(received') = Len(received) + 1 /\ received'[Len(received) + 1] = channel[1]
      /\ \A i \in 1..Len(received') :
           received'[i] = channel[1] \/ Among(received'[i], received)
      /\ \A e : Among(e, received) \/ e = channel[1] => Among(e, received')
  <2>1. Asc(received)
    BY DEF OrderOK
  <2> QED
    BY <1>2, <1>4, <1>5, <2>1, AscAppend
<1>7. channel[1] <= stream.cursor
  BY <1>2, <1>3 DEF OrderOK
<1>8. \A i \in 1..Len(received') :
        received'[i] <= stream.cursor /\ received'[i] <= channel[1]
  <2> SUFFICES ASSUME NEW i \in 1..Len(received'), received'[i] # channel[1]
               PROVE  received'[i] <= stream.cursor /\ received'[i] <= channel[1]
    BY <1>4, <1>7, Bounds DEF Ids
  <2>1. PICK k \in 1..Len(received) : received[k] = received'[i]
    BY <1>6 DEF Among
  <2>2. received[k] \in Ids
    BY <1>2, ElementOfSeq
  <2>3. received[k] <= stream.cursor
    BY <1>2 DEF OrderOK
  <2>4. received[k] < channel[1]
    BY <1>5
  <2> QED
    BY <1>4, <2>1, <2>2, <2>3, <2>4, Bounds DEF Ids
<1>9. \A j \in 1..Len(Tail(channel)) : Tail(channel)[j] <= stream.cursor
  <2> SUFFICES ASSUME NEW j \in 1..Len(Tail(channel))
               PROVE  Tail(channel)[j] <= stream.cursor
    OBVIOUS
  <2>1. PICK k \in 1..Len(channel) : channel[k] = Tail(channel)[j]
    BY <1>4 DEF Among
  <2> QED
    BY <1>2, <2>1 DEF OrderOK
<1>10. \A i \in 1..Len(received') : \A j \in 1..Len(Tail(channel)) :
         received'[i] < Tail(channel)[j]
  <2> SUFFICES ASSUME NEW i \in 1..Len(received'), NEW j \in 1..Len(Tail(channel))
               PROVE  received'[i] < Tail(channel)[j]
    OBVIOUS
  <2>1. received'[i] \in Ids /\ Tail(channel)[j] \in Ids
    BY <1>4, <1>6, ElementOfSeq
  <2>2. received'[i] <= channel[1] /\ channel[1] < Tail(channel)[j]
    BY <1>4, <1>8
  <2> QED
    BY <1>4, <2>1, <2>2, Bounds DEF Ids
<1>11. OrderOK'
  BY <1>2, <1>4, <1>6, <1>8, <1>9, <1>10 DEF OrderOK, Asc
<1>12. LastReceived' = channel[1]
  <2>1. received' # <<>>
    BY <1>2, <1>6
  <2> QED
    BY <1>6, <2>1 DEF LastReceived
<1>13. \A e : Among(e, channel') => e > channel[1]
  BY <1>2, <1>4 DEF Among
<1> QED
  BY <1>2, <1>4, <1>6, <1>7, <1>11, <1>12, <1>13

(* What a round reads: EventsAfter of the cursor, in order and without a gap.  *)
LEMMA ReadIsNext ==
    ASSUME Types, Read
    PROVE  /\ stream'.cursor = stream.cursor /\ stream.cursor \in Nat
           /\ stream.at = "top" /\ stream'.at # "off"
           /\ Asc(stream'.events)
           /\ \A k \in 1..Len(stream'.events) :
                stream'.events[k] \in stored /\ stream'.events[k] > stream.cursor
           /\ \A k \in 1..Len(stream'.events) : \A e \in stored :
                stream.cursor < e /\ e <= stream'.events[k] => Among(e, stream'.events)
           /\ stream'.at = "ended" => After(stream.cursor) = {}
<1>1. SequencesOK /\ StreamOK /\ LogOK
  BY SequencesTyped
<1>2. /\ stream'.cursor = stream.cursor
      /\ stream'.events = EventsAfter(stream.cursor)
      /\ stream'.at \in {"sending", "yielded", "ended", "top"}
      /\ stream'.at = "ended" => stream'.events = <<>>
      /\ stream.at = "top"
  BY <1>1, ReadKeepsStream
<1>3. stream.cursor \in Nat /\ stored \in SUBSET Ids
  BY <1>1 DEF SequencesOK, LogOK
<1>4. PICK s : s = EventsAfter(stream.cursor)
  OBVIOUS
<1>5. /\ \A i \in 1..Len(s) : s[i] \in stored /\ s[i] > stream.cursor
      /\ \A i, j \in 1..Len(s) : i < j => s[i] < s[j]
      /\ \A i \in 1..Len(s) : \A e \in stored :
           stream.cursor < e /\ e <= s[i] => \E j \in 1..Len(s) : s[j] = e
      /\ s = <<>> <=> After(stream.cursor) = {}
  BY <1>3, <1>4, EventsAfterType
<1> QED
  BY <1>2, <1>3, <1>4, <1>5 DEF Asc, Among

LEMMA ReadKeepsOrder ==
    ASSUME Types, OrderOK, Read
    PROVE  OrderOK'
<1>1. /\ stream'.cursor = stream.cursor /\ stream.at = "top" /\ stream'.at # "off"
      /\ Asc(stream'.events)
      /\ \A k \in 1..Len(stream'.events) : stream'.events[k] > stream.cursor
  BY ReadIsNext
<1>2. channel' = channel /\ received' = received
  BY DEF Read
<1> QED
  BY <1>1, <1>2 DEF OrderOK, Asc

LEMMA OrderKept == Types /\ OrderOK /\ [Next]_vars => OrderOK'
<1> SUFFICES ASSUME Types, OrderOK, [Next]_vars
             PROVE  OrderOK'
  OBVIOUS
<1>1. SequencesOK /\ StreamOK
  BY SequencesTyped
<1>2. Asc(received) /\ Asc(channel) /\ Asc(<<>>) /\ Len(<<>>) = 0
  BY DEF OrderOK, Asc
<1>3. CASE client' = client
  BY <1>3 DEF client, OrderOK, Asc
<1>4. CASE Connect
  <2>1. /\ LastReceived \in 0..MaxEvents
        /\ \A i \in 1..Len(received) : received[i] <= LastReceived
    BY <1>1, <1>2, LastIsHighest DEF SequencesOK
  <2>2. /\ stream'.cursor = LastReceived /\ stream'.events = <<>> /\ stream'.at = "top"
        /\ channel = <<>> /\ channel' = channel /\ received' = received
    BY <1>4, <2>1, IdleIsStream DEF Connect, OrderOK
  <2> QED
    BY <1>2, <2>1, <2>2 DEF OrderOK, Asc
<1>5. CASE Read
  BY <1>5, ReadKeepsOrder
<1>6. CASE Send
  BY <1>6, SendKeepsOrder
<1>7. CASE ReadRecord
  <2>1. /\ stream'.cursor = stream.cursor /\ stream'.events = <<>>
        /\ stream'.at \in {"top", "ended"} /\ stream.at = "yielded"
        /\ channel' = channel /\ received' = received
    BY <1>1, <1>7, RecordKeepsStream DEF ReadRecord
  <2> QED
    BY <1>2, <2>1 DEF OrderOK, Asc
<1>8. CASE Deliver
  BY <1>8, DeliverKeepsOrder
<1>9. CASE Drop \/ Reconnect
  <2>1. /\ stream'.at = "off" /\ stream'.events = <<>> /\ channel' = <<>>
        /\ received' = received
    BY <1>9, IdleIsStream DEF Drop, Reconnect
  <2> QED
    BY <1>2, <2>1 DEF OrderOK, Asc
<1> QED
  BY <1>3, <1>4, <1>5, <1>6, <1>7, <1>8, <1>9
     DEF vars, Next, client, AppendEvent, FinishHere, FinishStatus, FinishEvent, Cancel,
         RemoveEvent, DeleteBatch

LEMMA OrderInitially == Init => OrderOK
<1> SUFFICES ASSUME Init
             PROVE  OrderOK
  OBVIOUS
<1>1. stream.events = <<>> /\ stream.at = "off" /\ channel = <<>> /\ received = <<>>
  BY IdleIsStream DEF Init
<1> QED
  BY <1>1 DEF OrderOK, Asc

(* Over all its connections the client gets the events in order, none twice.   *)
THEOREM EventsInOrder == Spec => []InOrder
<1>1. Types /\ OrderOK => InOrder
  BY LenProperties, SequencesTyped DEF OrderOK, InOrder, Asc, SequencesOK
<1> QED
  BY <1>1, TypesInitially, TypesKept, OrderInitially, OrderKept, PTL DEF Spec

(***************************************************************************)
(* What is missed: an event that is neither stored nor on its way to the   *)
(* client was removed with its run or pruned.                              *)
(***************************************************************************)
Gone(e) == e \in removed \/ appended - e >= ReplayLimit

LogCovers ==
    /\ \A e \in stored : e <= appended
    /\ \A e \in Ids : e <= appended => e \in stored \/ Gone(e)

SentOK ==
    /\ stream.at # "off" => \A e \in Ids : e <= stream.cursor =>
         Among(e, received) \/ Among(e, channel) \/ Gone(e)
    /\ \A k \in 1..Len(stream.events) : \A e \in Ids :
         stream.cursor < e /\ e <= stream.events[k] => Among(e, stream.events) \/ Gone(e)
    /\ \A e \in Ids : e <= LastReceived => Among(e, received) \/ Gone(e)

(* A row is pruned only when ReplayLimit later events were appended.           *)
LEMMA PrunedIsOld ==
    ASSUME LogOK, appended \in 0..MaxEvents, \A f \in stored : f <= appended, Appends,
           NEW e \in stored \cup {appended + 1}, e \notin stored'
    PROVE  appended' - e >= ReplayLimit
<1> DEFINE S == stored \cup {appended + 1}
           n == Cardinality(Newer(S, e))
<1>1. appended + 1 \in Ids /\ appended' = appended + 1 /\ stored' = Kept(S)
  BY Bounds DEF Appends, Ids
<1>2. S \in SUBSET Ids /\ e \in Ids
  BY <1>1 DEF LogOK
<1>3. e \in Nat /\ \A f \in S : f \in Nat /\ f <= appended + 1
  BY <1>1, <1>2, Bounds DEF Ids
<1>4. Newer(S, e) \in SUBSET ((e + 1)..(appended + 1))
  <2> SUFFICES ASSUME NEW f \in Newer(S, e)
               PROVE  f \in (e + 1)..(appended + 1)
    OBVIOUS
  <2>1. f \in S /\ f > e
    BY DEF Newer
  <2> QED
    BY <1>1, <1>3, <2>1, Bounds DEF Ids
<1>5. /\ n <= Cardinality((e + 1)..(appended + 1)) /\ n \in Nat
      /\ Cardinality((e + 1)..(appended + 1)) = IF e + 1 > appended + 1 THEN 0
                                                ELSE (appended + 1) - (e + 1) + 1
  <2>1. e + 1 \in Int /\ appended + 1 \in Int
    BY <1>3, Bounds
  <2> QED
    BY <1>4, <2>1, FS_Interval, FS_Subset, FS_CardinalityType
<1>6. ~(n < ReplayLimit)
  BY <1>1 DEF Kept
<1> HIDE DEF n, S
<1> QED
  BY <1>1, <1>3, <1>5, <1>6, Bounds

LEMMA LogKept ==
    ASSUME Types, LogCovers, [Next]_vars
    PROVE  /\ LogCovers'
           /\ appended \in 0..MaxEvents /\ appended' \in 0..MaxEvents
           /\ appended <= appended'
           /\ \A e \in Ids : Gone(e) => Gone(e)'
<1>1. LogOK /\ appended \in 0..MaxEvents /\ stored \in SUBSET Ids
  BY DEF Types, TypeOK, LogOK
<1>2. CASE Appends /\ removed' = removed
  <2>1. /\ appended' = appended + 1 /\ appended' \in 0..MaxEvents
        /\ stored' \in SUBSET (stored \cup {appended + 1})
    BY <1>1, <1>2, AppendKeepsLog DEF Appends
  <2>2. \A e \in Ids : Gone(e) => Gone(e)'
    BY <1>1, <1>2, <2>1, Bounds DEF Gone, Ids
  <2>3. \A e \in stored' : e <= appended'
    BY <1>1, <2>1, Bounds DEF LogCovers, Ids
  <2>4. ASSUME NEW e \in Ids, e <= appended', e \notin stored'
        PROVE  Gone(e)'
    <3>1. CASE e \in stored \cup {appended + 1}
      <4>1. appended' - e >= ReplayLimit
        BY <1>1, <1>2, <2>4, <3>1, PrunedIsOld DEF LogCovers
      <4> QED
        BY <4>1 DEF Gone
    <3>2. CASE e \notin stored \cup {appended + 1}
      <4>1. e <= appended
        BY <1>1, <2>1, <2>4, <3>2, Bounds DEF Ids
      <4>2. Gone(e)
        BY <3>2, <4>1 DEF LogCovers
      <4> QED
        BY <2>2, <4>2
    <3> QED
      BY <3>1, <3>2
  <2>5. LogCovers'
    BY <2>3, <2>4 DEF LogCovers, Ids
  <2> QED
    BY <1>1, <2>1, <2>2, <2>5
<1>3. CASE /\ appended' = appended /\ stored' \in SUBSET stored
           /\ \E R : removed' = removed \cup R /\ stored \in SUBSET (stored' \cup R)
  <2>1. PICK R : removed' = removed \cup R /\ stored \in SUBSET (stored' \cup R)
    BY <1>3
  <2>2. \A e \in Ids : Gone(e) => Gone(e)'
    BY <1>3, <2>1 DEF Gone
  <2>3. LogCovers'
    <3>1. \A e \in stored' : e <= appended'
      BY <1>3 DEF LogCovers
    <3>2. ASSUME NEW e \in Ids, e <= appended', e \notin stored'
          PROVE  Gone(e)'
      <4>1. CASE e \in stored
        <5>1. e \in removed'
          BY <2>1, <3>2, <4>1
        <5> QED
          BY <5>1 DEF Gone
      <4>2. CASE e \notin stored
        BY <1>3, <2>2, <3>2, <4>2 DEF LogCovers
      <4> QED
        BY <4>1, <4>2
    <3> QED
      BY <3>1, <3>2 DEF LogCovers, Ids
  <2> QED
    BY <1>1, <1>3, <2>2, <2>3, Bounds
<1>4. (Appends /\ removed' = removed)
      \/ (/\ appended' = appended /\ stored' \in SUBSET stored
          /\ \E R : removed' = removed \cup R /\ stored \in SUBSET (stored' \cup R))
  <2>1. CASE AppendEvent \/ FinishHere \/ FinishEvent \/ Cancel
    BY <2>1 DEF AppendEvent, FinishHere, FinishEvent, Cancel
  <2>2. CASE \E e \in stored : RemoveEvent(e)
    <3>1. PICK e \in stored : RemoveEvent(e)
      BY <2>2
    <3>2. /\ removed' = removed \cup {e} /\ stored \in SUBSET (stored' \cup {e})
          /\ appended' = appended /\ stored' \in SUBSET stored
      BY <3>1 DEF RemoveEvent
    <3> QED
      BY <3>2
  <2>3. CASE DeleteBatch
    <3>1. /\ removed' = removed \cup stored /\ stored \in SUBSET (stored' \cup stored)
          /\ appended' = appended /\ stored' \in SUBSET stored
      BY <2>3 DEF DeleteBatch
    <3> QED
      BY <3>1
  <2>4. CASE /\ appended' = appended /\ stored' = stored /\ removed' = removed
    <3>1. removed' = removed \cup {} /\ stored \in SUBSET (stored' \cup {})
      BY <2>4
    <3> QED
      BY <2>4, <3>1
  <2> QED
    BY <2>1, <2>2, <2>3, <2>4
       DEF vars, Next, writer, FinishStatus, Connect, Read, Send, ReadRecord, Deliver,
           Drop, Reconnect
<1> QED
  BY <1>2, <1>3, <1>4

LEMMA ReadKeepsSent ==
    ASSUME Types, LogCovers, SentOK, Read
    PROVE  SentOK'
<1>1. /\ stream'.cursor = stream.cursor /\ stream.cursor \in Nat
      /\ stream.at = "top" /\ stream'.at # "off"
      /\ \A k \in 1..Len(stream'.events) : stream'.events[k] \in stored
      /\ \A k \in 1..Len(stream'.events) : \A e \in stored :
           stream.cursor < e /\ e <= stream'.events[k] => Among(e, stream'.events)
  BY ReadIsNext
<1>2. /\ channel' = channel /\ received' = received /\ removed' = removed
      /\ appended' = appended /\ LastReceived' = LastReceived
  BY DEF Read, writer, LastReceived
<1>3. ASSUME NEW k \in 1..Len(stream'.events), NEW e \in Ids,
             stream.cursor < e, e <= stream'.events[k]
      PROVE  Among(e, stream'.events) \/ Gone(e)
  <2>1. CASE e \in stored
    BY <1>1, <1>3, <2>1
  <2>2. CASE e \notin stored
    <3>1. stream'.events[k] \in stored
      BY <1>1
    <3>2. stream'.events[k] \in Ids /\ stream'.events[k] <= appended
      BY <3>1 DEF LogCovers, Types, TypeOK
    <3>3. appended \in 0..MaxEvents
      BY DEF Types, TypeOK
    <3>4. e <= appended
      BY <1>3, <3>2, <3>3, Bounds DEF Ids
    <3> QED
      BY <2>2, <3>4 DEF LogCovers
  <2> QED
    BY <2>1, <2>2
<1>4. \A e : Gone(e)' <=> Gone(e)
  BY <1>2 DEF Gone
<1> QED
  BY <1>1, <1>2, <1>3, <1>4 DEF SentOK, Ids, Among

LEMMA SendKeepsSent ==
    ASSUME Types, OrderOK, SentOK, Send
    PROVE  SentOK'
<1>1. SequencesOK /\ StreamOK
  BY SequencesTyped
<1>2. /\ stream.events[1] \in Ids /\ stream.events # <<>> /\ stream.events \in Seq(Ids)
      /\ stream'.cursor = stream.events[1] /\ stream'.events = Tail(stream.events)
      /\ stream.at # "off"
  BY <1>1, SendKeepsStream DEF Send
<1>3. \A e : Among(e, channel) \/ e = stream.events[1] => Among(e, channel')
  BY SendKeepsOrder
<1>4. /\ received' = received /\ removed' = removed /\ appended' = appended
      /\ LastReceived' = LastReceived
  BY DEF Send, writer, LastReceived
<1>5. /\ \A i \in 1..Len(Tail(stream.events)) :
           stream.events[1] < Tail(stream.events)[i]
           /\ Among(Tail(stream.events)[i], stream.events)
      /\ \A e : Among(e, stream.events) =>
           e = stream.events[1] \/ Among(e, Tail(stream.events))
  BY <1>2, AscTail DEF OrderOK
<1>6. /\ 1 \in 1..Len(stream.events) /\ stream.cursor \in Nat
      /\ stream.events[1] > stream.cursor
  <2>1. 1 \in 1..Len(stream.events)
    BY <1>2, EmptySeq
  <2> QED
    BY <1>1, <2>1 DEF OrderOK, SequencesOK
<1>7. \A e : Gone(e)' <=> Gone(e)
  BY <1>4 DEF Gone
<1>8. ASSUME NEW e \in Ids, e <= stream.events[1]
      PROVE  Among(e, received') \/ Among(e, channel') \/ Gone(e)
  <2>1. CASE e <= stream.cursor
    BY <1>2, <1>3, <1>4, <2>1 DEF SentOK
  <2>2. CASE stream.cursor < e
    <3>1. Among(e, stream.events) \/ Gone(e)
      BY <1>6, <1>8, <2>2 DEF SentOK
    <3>2. CASE Among(e, Tail(stream.events))
      <4>1. PICK i \in 1..Len(Tail(stream.events)) : Tail(stream.events)[i] = e
        BY <3>2 DEF Among
      <4>2. stream.events[1] < e
        BY <1>5, <4>1
      <4> QED
        BY <1>2, <1>8, <4>2, Bounds DEF Ids
    <3> QED
      BY <1>3, <1>5, <3>1, <3>2
  <2> QED
    BY <1>6, <2>1, <2>2, Bounds DEF Ids
<1>9. ASSUME NEW k \in 1..Len(Tail(stream.events)), NEW e \in Ids,
             stream.events[1] < e, e <= Tail(stream.events)[k]
      PROVE  Among(e, Tail(stream.events)) \/ Gone(e)
  <2>1. PICK i \in 1..Len(stream.events) : stream.events[i] = Tail(stream.events)[k]
    BY <1>5 DEF Among
  <2>2. stream.cursor < e
    BY <1>2, <1>6, <1>9, Bounds DEF Ids
  <2>3. Among(e, stream.events) \/ Gone(e)
    BY <1>9, <2>1, <2>2 DEF SentOK
  <2>4. e # stream.events[1]
    BY <1>2, <1>9, Bounds DEF Ids
  <2> QED
    BY <1>5, <2>3, <2>4
<1>10. \A e \in Ids : e <= LastReceived => Among(e, received) \/ Gone(e)
  BY DEF SentOK
<1> QED
  BY <1>2, <1>4, <1>7, <1>8, <1>9, <1>10 DEF SentOK, Ids, Among

LEMMA DeliverKeepsSent ==
    ASSUME Types, OrderOK, SentOK, Deliver
    PROVE  SentOK'
<1>1. /\ channel[1] \in Ids /\ stream.at # "off" /\ LastReceived' = channel[1]
      /\ channel[1] <= stream.cursor /\ stream.cursor \in Nat
      /\ \A e : Among(e, received) => Among(e, received')
      /\ \A e : Among(e, channel) => Among(e, received') \/ Among(e, channel')
      /\ \A e : Among(e, channel') => e > channel[1]
  BY DeliverKeepsOrder, SequencesTyped DEF SequencesOK
<1>2. stream' = stream /\ removed' = removed /\ appended' = appended
  BY DEF Deliver, writer
<1>3. \A e : Gone(e)' <=> Gone(e)
  BY <1>2 DEF Gone
<1>4. \A e \in Ids : e <= stream.cursor =>
        Among(e, received') \/ Among(e, channel') \/ Gone(e)
  BY <1>1 DEF SentOK
<1>5. \A e \in Ids : e <= channel[1] => Among(e, received') \/ Gone(e)
  <2> SUFFICES ASSUME NEW e \in Ids, e <= channel[1]
               PROVE  Among(e, received') \/ Gone(e)
    OBVIOUS
  <2>1. e <= stream.cursor
    BY <1>1, Bounds DEF Ids
  <2>2. ~(e > channel[1])
    BY <1>1, Bounds DEF Ids
  <2> QED
    BY <1>1, <1>4, <2>1, <2>2
<1>6. \A k \in 1..Len(stream.events) : \A e \in Ids :
        stream.cursor < e /\ e <= stream.events[k] => Among(e, stream.events) \/ Gone(e)
  BY DEF SentOK
<1> QED
  BY <1>1, <1>2, <1>3, <1>4, <1>5, <1>6 DEF SentOK, Ids, Among

LEMMA SentKept ==
    Types /\ OrderOK /\ LogCovers /\ SentOK /\ [Next]_vars => SentOK'
<1> SUFFICES ASSUME Types, OrderOK, LogCovers, SentOK, [Next]_vars
             PROVE  SentOK'
  OBVIOUS
<1>1. SequencesOK /\ StreamOK
  BY SequencesTyped
<1>2. Len(<<>>) = 0
  OBVIOUS
<1>3. \A e \in Ids : e <= LastReceived => Among(e, received) \/ Gone(e)
  BY DEF SentOK
<1>4. CASE client' = client
  <2>1. \A e \in Ids : Gone(e) => Gone(e)'
    BY LogKept
  <2>2. /\ stream' = stream /\ channel' = channel /\ received' = received
        /\ LastReceived' = LastReceived
    BY <1>4 DEF client, LastReceived
  <2> QED
    BY <2>1, <2>2 DEF SentOK, Ids, Among
<1>5. CASE Connect
  <2>1. LastReceived \in 0..MaxEvents
    BY <1>1, LastIsId DEF SequencesOK
  <2>2. /\ stream'.cursor = LastReceived /\ stream'.events = <<>> /\ received' = received
        /\ LastReceived' = LastReceived
    BY <1>5, <2>1, IdleIsStream DEF Connect, LastReceived
  <2>3. \A e : Gone(e)' <=> Gone(e)
    BY <1>5 DEF Connect, writer, Gone
  <2> QED
    BY <1>2, <1>3, <2>2, <2>3 DEF SentOK, Ids, Among
<1>6. CASE Read
  BY <1>6, ReadKeepsSent
<1>7. CASE Send
  BY <1>7, SendKeepsSent
<1>8. CASE ReadRecord
  <2>1. /\ stream'.cursor = stream.cursor /\ stream'.events = <<>>
        /\ stream.at = "yielded"
        /\ channel' = channel /\ received' = received /\ LastReceived' = LastReceived
    BY <1>1, <1>8, RecordKeepsStream DEF ReadRecord, LastReceived
  <2>2. \A e : Gone(e)' <=> Gone(e)
    BY <1>8 DEF ReadRecord, writer, Gone
  <2> QED
    BY <1>2, <2>1, <2>2 DEF SentOK, Ids, Among
<1>9. CASE Deliver
  BY <1>9, DeliverKeepsSent
<1>10. CASE Drop \/ Reconnect
  <2>1. /\ stream'.at = "off" /\ stream'.events = <<>> /\ received' = received
        /\ LastReceived' = LastReceived
    BY <1>10, IdleIsStream DEF Drop, Reconnect, LastReceived
  <2>2. \A e : Gone(e)' <=> Gone(e)
    BY <1>10 DEF Drop, Reconnect, writer, Gone
  <2> QED
    BY <1>2, <1>3, <2>1, <2>2 DEF SentOK, Ids, Among
<1> QED
  BY <1>4, <1>5, <1>6, <1>7, <1>8, <1>9, <1>10
     DEF vars, Next, client, AppendEvent, FinishHere, FinishStatus, FinishEvent, Cancel,
         RemoveEvent, DeleteBatch

LEMMA SentInitially == Init => LogCovers /\ SentOK
<1> SUFFICES ASSUME Init
             PROVE  LogCovers /\ SentOK
  OBVIOUS
<1>1. stream.events = <<>> /\ stream.at = "off" /\ received = <<>>
  BY IdleIsStream DEF Init
<1>2. LastReceived = 0
  BY <1>1 DEF LastReceived
<1>3. \A e \in Ids : ~(e <= 0)
  BY Bounds DEF Ids
<1> QED
  BY <1>1, <1>2, <1>3 DEF Init, LogCovers, SentOK

(* A client misses no event but one deleted with its run or older than the      *)
(* last ReplayLimit events, however slow it is and however often it reconnects. *)
THEOREM NothingRecentMissed == Spec => []MissedOnlyOld
<1> DEFINE Inv == Types /\ OrderOK /\ LogCovers /\ SentOK
<1>1. Init => Inv
  BY TypesInitially, OrderInitially, SentInitially
<1>2. Inv /\ [Next]_vars => Inv'
  BY TypesKept, OrderKept, LogKept, SentKept
<1>3. Inv => MissedOnlyOld
  <2> SUFFICES ASSUME Inv, NEW e \in 1..LastReceived
               PROVE  Got(e) \/ Gone(e)
    BY DEF MissedOnlyOld, Gone
  <2>1. received \in Seq(Ids)
    BY SequencesTyped DEF SequencesOK
  <2>2. e \in Ids /\ e <= LastReceived
    BY <2>1, LastIsId, Bounds DEF Ids
  <2>3. Among(e, received) \/ Gone(e)
    BY <2>2 DEF SentOK
  <2> QED
    BY <2>1, <2>3, LenProperties DEF Among, Got
<1> QED
  BY <1>1, <1>2, <1>3, PTL DEF Spec

(* In the process that runs the batch a stream ends by itself only when it has  *)
(* sent all that is stored, but at a keep-alive.                                *)
THEOREM StreamEndsComplete == Spec => EndIsComplete
<1> DEFINE EndsAll == (/\ ~foreign
                       /\ stream.at # "ended" /\ stream'.at = "ended"
                       /\ ~(stream.at = "yielded" /\ ~stream.some))
                        => stored \subseteq 1..stream'.cursor
<1>1. Types /\ [Next]_vars => [EndsAll]_vars
  <2> SUFFICES ASSUME Types, [Next]_vars, stream.at # "ended", stream'.at = "ended",
                      ~(stream.at = "yielded" /\ ~stream.some)
               PROVE  stored \subseteq 1..stream'.cursor
    OBVIOUS
  <2>1. SequencesOK /\ StreamOK /\ LogOK
    BY SequencesTyped
  <2>2. CASE Read
    <3>1. stream'.cursor = stream.cursor /\ After(stream.cursor) = {}
      BY <2>2, ReadIsNext
    <3> SUFFICES ASSUME NEW e \in stored
                 PROVE  e \in 1..stream.cursor
      BY <3>1
    <3>2. ~(e > stream.cursor)
      BY <3>1 DEF After
    <3> QED
      BY <2>1, <3>2, Bounds DEF Ids, LogOK, SequencesOK
  <2>3. ~ReadRecord
    <3> SUFFICES ASSUME ReadRecord
                 PROVE  FALSE
      OBVIOUS
    <3>1. stream.at = "yielded" /\ ~stream.some
      BY <2>1, RecordKeepsStream DEF ReadRecord
    <3> QED
      BY <3>1
  <2>4. ~Send
    BY <2>1, SendKeepsStream
  <2>5. ~Connect
    <3> SUFFICES ASSUME Connect
                 PROVE  FALSE
      OBVIOUS
    <3>1. LastReceived \in 0..MaxEvents
      BY <2>1, LastIsId DEF SequencesOK
    <3> QED
      BY <3>1, IdleIsStream DEF Connect
  <2>6. ~(Drop \/ Reconnect)
    BY IdleIsStream DEF Drop, Reconnect
  <2>7. stream' # stream
    OBVIOUS
  <2> QED
    BY <2>2, <2>3, <2>4, <2>5, <2>6, <2>7
       DEF vars, Next, client, AppendEvent, FinishHere, FinishStatus, FinishEvent,
           Cancel, RemoveEvent, DeleteBatch, Deliver
<1> QED
  BY <1>1, TypesInitially, TypesKept, PTL DEF Spec, EndIsComplete
===============================================================================
