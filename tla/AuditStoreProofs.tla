-------------------------- MODULE AuditStoreProofs --------------------------
(***************************************************************************)
(* Theorems about AuditStore and its reads, for every buffer length, set   *)
(* of ids, filter and page size.  OneRecordPerEvent alone is not           *)
(* inductive: that a fresh id is not in the buffer follows from            *)
(* SeenCoversBuffer, which must survive the rebuild of the seen ids.  The  *)
(* reads are right in every state the invariant allows; where this takes   *)
(* an induction, the least number that goes wrong is refuted.              *)
(***************************************************************************)
EXTENDS AuditQueries, FiniteSetTheorems, WellFoundedInduction, TLAPS

\* The ids of a buffer of n records are at most n.
LEMMA FewIds ==
    ASSUME NEW evs \in Seq(Record)
    PROVE  IsFiniteSet(IdsOf(evs)) /\ Cardinality(IdsOf(evs)) <= Len(evs)
<1> DEFINE n == Len(evs)
           f == [i \in 1 .. n |-> evs[i].id]
<1>1. n \in Nat /\ DOMAIN evs = 1 .. n
  OBVIOUS
<1>2. IsFiniteSet(1 .. n) /\ Cardinality(1 .. n) = n
  BY <1>1, FS_Interval
<1>3. f \in Surjection(1 .. n, IdsOf(evs))
  BY <1>1 DEF Surjection, IdsOf
<1>4. IsFiniteSet(IdsOf(evs)) /\ Cardinality(IdsOf(evs)) <= Cardinality(1 .. n)
  BY <1>2, <1>3, FS_Surjection
<1> QED  BY <1>2, <1>4

\* An id more makes a finite set larger by one at most.
LEMMA OneMore ==
    ASSUME NEW S, IsFiniteSet(S), NEW x
    PROVE  IsFiniteSet(S \cup {x}) /\ Cardinality(S \cup {x}) <= Cardinality(S) + 1
<1>1. Cardinality(S) \in Nat
  BY FS_CardinalityType
<1> QED  BY <1>1, FS_AddElement

\* The seen ids have room for a buffer.
LEMMA RoomForBuffer == SeenFactor * MaxLen \in Nat /\ MaxLen <= SeenFactor * MaxLen
<1> DEFINE all  == SeenFactor * MaxLen
           most == (SeenFactor - 1) * MaxLen
<1>1. \A a, b \in Nat \ {0} : (a - 1) * b >= 0 /\ a * b = (a - 1) * b + b
  OBVIOUS
<1>2. SeenFactor \in Nat \ {0} /\ MaxLen \in Nat \ {0}
  BY StoreAssumption
<1>3. most >= 0 /\ all = most + MaxLen
  BY <1>1, <1>2
<1>4. most \in Int /\ all \in Int
  BY <1>2
<1> HIDE DEF all, most
<1>5. all \in Nat /\ MaxLen <= all
  BY <1>2, <1>3, <1>4
<1> QED  BY <1>5 DEF all

\* Appending a record to the deque: its length, and where each record comes from.
LEMMA AppendedIs ==
    ASSUME NEW evs \in Seq(Record), Len(evs) <= MaxLen, NEW rec \in Record
    PROVE  LET new == Appended(evs, rec)
               d   == IF Len(evs) < MaxLen THEN 0 ELSE 1
           IN /\ new \in Seq(Record)
              /\ Len(new) = Len(evs) + 1 - d /\ Len(new) <= MaxLen
              /\ new[Len(new)] = rec
              /\ \A i \in 1 .. Len(new) - 1 : new[i] = evs[i + d] /\ i + d \in DOMAIN evs
<1> DEFINE rest == IF Len(evs) < MaxLen THEN evs ELSE Tail(evs)
           d    == IF Len(evs) < MaxLen THEN 0 ELSE 1
<1>1. /\ rest \in Seq(Record) /\ Len(rest) = Len(evs) - d
      /\ \A i \in 1 .. Len(rest) : rest[i] = evs[i + d] /\ i + d \in DOMAIN evs
  <2>1. CASE Len(evs) < MaxLen
    BY <2>1
  <2>2. CASE ~(Len(evs) < MaxLen)
    <3>1. evs # <<>> /\ Len(evs) = MaxLen /\ Len(evs) \in Nat
      BY <2>2, StoreAssumption
    <3>2. Tail(evs) \in Seq(Record) /\ Len(Tail(evs)) = Len(evs) - 1
          /\ \A i \in 1 .. Len(Tail(evs)) : Tail(evs)[i] = evs[i + 1]
      BY <3>1
    <3> QED  BY <2>2, <3>1, <3>2
  <2> QED  BY <2>1, <2>2
<1>2. Appended(evs, rec) = Append(rest, rec)
  BY DEF Appended
<1>3. Len(evs) \in Nat /\ MaxLen \in Nat /\ Len(evs) + 1 - d <= MaxLen
  BY StoreAssumption
<1> HIDE DEF rest
<1>4. Append(rest, rec) \in Seq(Record) /\ Len(Append(rest, rec)) = Len(rest) + 1
      /\ Append(rest, rec)[Len(rest) + 1] = rec
      /\ \A i \in 1 .. Len(rest) : Append(rest, rec)[i] = rest[i]
  BY <1>1
<1> QED  BY <1>1, <1>2, <1>3, <1>4

\* Upgrading a record keeps the length of the buffer and every id in its place.
LEMMA UpgradedIs ==
    ASSUME NEW evs \in Seq(Record), NEW rec \in Record
    PROVE  LET new == Upgraded(evs, rec) IN
           /\ new \in Seq(Record) /\ Len(new) = Len(evs)
           /\ \A i \in DOMAIN evs : new[i].id = evs[i].id
BY DEF Upgraded, Record

\* The invariant: the ids of the buffer are distinct, known, and not too many.
IInv == TypeOK /\ IsFiniteSet(seen) /\ OneRecordPerEvent /\ SeenCoversBuffer

\* AuditEventStore.add keeps the invariant, for a fresh id and for a known one.
LEMMA AddKeeps ==
    ASSUME IInv, NEW rec \in Record, Add(rec)
    PROVE  /\ events' \in Seq(Record) /\ Len(events') <= MaxLen
           /\ seen' \subseteq Ids /\ IsFiniteSet(seen')
           /\ OneRecordPerEvent' /\ SeenCoversBuffer'
<1> USE DEF IInv, TypeOK
<1>0. rec.id \in Ids /\ MaxLen \in Nat \ {0}
  BY StoreAssumption DEF Record
<1>1. CASE Fresh(rec)
  <2> DEFINE d == IF Len(events) < MaxLen THEN 0 ELSE 1
  <2>1. /\ events' = Appended(events, rec)
        /\ seen' = Remembered(seen \cup {rec.id}, events')
    BY <1>1 DEF Add
  <2>2. /\ events' \in Seq(Record) /\ Len(events') <= MaxLen
        /\ events'[Len(events')] = rec /\ Len(events') = Len(events) + 1 - d
        /\ \A i \in 1 .. Len(events') - 1 :
             events'[i] = events[i + d] /\ i + d \in DOMAIN events
    BY <2>1, AppendedIs
  <2>3. Len(events) \in Nat /\ Len(events') \in Nat /\ Len(events') > 0
        /\ DOMAIN events' = 1 .. Len(events') /\ DOMAIN events = 1 .. Len(events)
    BY <1>0, <2>2
  <2>4. \A i \in DOMAIN events : events[i].id # rec.id
    BY <1>1 DEF Fresh, SeenCoversBuffer, IdsOf
  <2>5. OneRecordPerEvent'
    <3>1. \A i, j \in 1 .. Len(events') - 1 : events'[i].id = events'[j].id => i = j
      <4> TAKE i, j \in 1 .. Len(events') - 1
      <4> HAVE events'[i].id = events'[j].id
      <4>1. i + d = j + d
        BY <2>2 DEF OneRecordPerEvent
      <4> QED  BY <4>1, <2>3
    <3>2. \A i \in 1 .. Len(events') - 1 : events'[i].id # events'[Len(events')].id
      BY <2>2, <2>4
    <3>3. \A i \in DOMAIN events' : i = Len(events') \/ i \in 1 .. Len(events') - 1
      BY <2>3
    <3> QED  BY <3>1, <3>2, <3>3 DEF OneRecordPerEvent
  <2>6. IdsOf(events') \subseteq seen \cup {rec.id}
    <3> SUFFICES ASSUME NEW i \in DOMAIN events'
                 PROVE  events'[i].id \in seen \cup {rec.id}
      BY DEF IdsOf
    <3>1. CASE i = Len(events')
      BY <2>2, <3>1
    <3>2. CASE i \in 1 .. Len(events') - 1
      BY <2>2, <3>2 DEF SeenCoversBuffer, IdsOf
    <3> QED  BY <2>3, <3>1, <3>2
  <2>7. IsFiniteSet(seen \cup {rec.id}) /\ Cardinality(seen \cup {rec.id}) \in Nat
    BY OneMore, FS_CardinalityType
  <2>8. IsFiniteSet(IdsOf(events')) /\ Cardinality(IdsOf(events')) <= Len(events')
        /\ Cardinality(IdsOf(events')) \in Nat
    BY <2>2, FewIds, FS_CardinalityType
  <2>9. seen' \subseteq Ids /\ IsFiniteSet(seen') /\ IdsOf(events') \subseteq seen'
    BY <1>0, <2>1, <2>6, <2>7, <2>8 DEF Remembered
  <2>10. Cardinality(seen') <= SeenFactor * MaxLen
    BY <1>0, <2>1, <2>2, <2>3, <2>7, <2>8, RoomForBuffer DEF Remembered
  <2> QED  BY <2>2, <2>5, <2>9, <2>10 DEF SeenCoversBuffer
<1>2. CASE ~Fresh(rec)
  <2>1. events' = Upgraded(events, rec) /\ seen' = seen
    BY <1>2 DEF Add
  <2>2. events' \in Seq(Record) /\ Len(events') = Len(events)
        /\ \A i \in DOMAIN events : events'[i].id = events[i].id
    BY <2>1, UpgradedIs
  <2>3. DOMAIN events' = DOMAIN events
    BY <2>2
  <2>4. IdsOf(events') = IdsOf(events)
    BY <2>2, <2>3 DEF IdsOf
  <2> QED  BY <2>1, <2>2, <2>3, <2>4 DEF OneRecordPerEvent, SeenCoversBuffer
<1> QED  BY <1>1, <1>2

\* What add leaves in the buffer is the record it was given, or was there; and
\* it remembers no other id.
LEMMA AddShows ==
    ASSUME IInv, NEW rec \in Record, Add(rec)
    PROVE  /\ \A i \in DOMAIN events' :
                events'[i] = rec \/ \E j \in DOMAIN events : events'[i] = events[j]
           /\ seen' \subseteq seen \cup {rec.id}
<1>0. events \in Seq(Record) /\ Len(events) <= MaxLen /\ SeenCoversBuffer
  BY DEF IInv, TypeOK
<1>1. \A i \in DOMAIN events' :
        events'[i] = rec \/ \E j \in DOMAIN events : events'[i] = events[j]
  <2>1. CASE Fresh(rec)
    <3> DEFINE d == IF Len(events) < MaxLen THEN 0 ELSE 1
    <3>1. events' = Appended(events, rec)
      BY <2>1 DEF Add
    <3>2. /\ events' \in Seq(Record) /\ events'[Len(events')] = rec
          /\ \A i \in 1 .. Len(events') - 1 :
               events'[i] = events[i + d] /\ i + d \in DOMAIN events
      BY <1>0, <3>1, AppendedIs
    <3>3. \A i \in DOMAIN events' : i = Len(events') \/ i \in 1 .. Len(events') - 1
      BY <3>2
    <3> QED  BY <3>2, <3>3
  <2>2. CASE ~Fresh(rec)
    BY <1>0, <2>2 DEF Add, Upgraded
  <2> QED  BY <2>1, <2>2
<1>2. seen' \subseteq seen \cup {rec.id}
  <2>1. IdsOf(events') \subseteq seen \cup {rec.id}
    BY <1>0, <1>1 DEF IdsOf, SeenCoversBuffer
  <2> QED  BY <2>1 DEF Add, Remembered
<1> QED  BY <1>1, <1>2

\* Every step of the store keeps the invariant.
LEMMA StepIInv == IInv /\ [Next]_vars => IInv'
<1> SUFFICES ASSUME IInv, [Next]_vars PROVE IInv'
  OBVIOUS
<1>1. ASSUME NEW rec \in Record, Add(rec), Arrive(rec), born' \subseteq Ids
      PROVE  IInv'
  <2>1. arrivals' \in Seq(Ids)
    BY <1>1 DEF IInv, TypeOK, Arrive, Record
  <2> QED  BY <1>1, <2>1, AddKeeps DEF IInv, TypeOK
<1>2. ASSUME NEW id \in Ids, AddLocal(id)
      PROVE  IInv'
  <2>1. [id |-> id, source |-> "local", signed |-> "none"] \in Record
    BY DEF Record, Sources
  <2>2. born' \subseteq Ids
    BY <1>2 DEF AddLocal, IInv, TypeOK
  <2> QED  BY <1>1, <1>2, <2>1, <2>2 DEF AddLocal
<1>3. ASSUME NEW id \in Ids, NEW signed \in {"valid", "invalid"}, AddKafka(id, signed)
      PROVE  IInv'
  <2>1. [id |-> id, source |-> "kafka", signed |-> signed] \in Record
    BY DEF Record, Sources
  <2>2. born' \subseteq Ids
    BY <1>3 DEF AddKafka, IInv, TypeOK
  <2> QED  BY <1>1, <1>3, <2>1, <2>2 DEF AddKafka
<1>4. CASE UNCHANGED vars
  BY <1>4 DEF IInv, TypeOK, OneRecordPerEvent, SeenCoversBuffer, vars
<1> QED  BY <1>2, <1>3, <1>4 DEF Next

\* The invariant holds in every reachable state.
THEOREM Invariant == Spec => []IInv
<1>1. Init => IInv
  <2> SUFFICES ASSUME Init PROVE IInv
    OBVIOUS
  <2>1. IdsOf(events) = {}
    BY DEF Init, IdsOf
  <2>2. IsFiniteSet(seen) /\ Cardinality(seen) = 0
    BY FS_EmptySet DEF Init
  <2> QED  BY <2>1, <2>2, StoreAssumption DEF Init, IInv, TypeOK, OneRecordPerEvent,
              SeenCoversBuffer
<1> QED  BY <1>1, StepIInv, PTL DEF Spec

\* The buffer shows an event once, whatever copies of it arrive and whenever
\* (AuditEventStore.add).
THEOREM OneRecord == Spec => []OneRecordPerEvent
<1>1. IInv => OneRecordPerEvent
  BY DEF IInv
<1> QED  BY <1>1, Invariant, PTL

\* The seen ids always cover the buffer and never exceed SeenFactor buffers.
THEOREM SeenCovers == Spec => []SeenCoversBuffer
<1>1. IInv => SeenCoversBuffer
  BY DEF IInv
<1> QED  BY <1>1, Invariant, PTL

\* What the history says of the buffer, kept by add: a fresh record comes last
\* and costs at most the oldest its place, an upgrade moves nothing.
LEMMA AddKeepsRecent ==
    ASSUME IInv, BufferIsRecent, NEW rec \in Record, Add(rec), Arrive(rec)
    PROVE  BufferIsRecent'
<1> DEFINE n == Len(events)
           a == Len(arrivals)
<1>0. /\ n \in Nat /\ a \in Nat /\ MaxLen \in Nat \ {0} /\ n <= MaxLen /\ n <= a
      /\ events \in Seq(Record) /\ arrivals \in Seq(Ids) /\ rec.id \in Ids
      /\ \A i \in 1 .. n : events[i].id = arrivals[(a - n) + i]
      /\ a - n > 0 => n = MaxLen
  BY StoreAssumption DEF IInv, TypeOK, BufferIsRecent, Record
<1>1. CASE Fresh(rec)
  <2> DEFINE d == IF n < MaxLen THEN 0 ELSE 1
  <2>1. events' = Appended(events, rec) /\ arrivals' = Append(arrivals, rec.id)
    BY <1>1 DEF Add, Arrive
  <2>2. /\ events' \in Seq(Record) /\ Len(events') = n + 1 - d
        /\ events'[Len(events')] = rec
        /\ \A i \in 1 .. Len(events') - 1 : events'[i] = events[i + d] /\ i + d \in 1 .. n
    <3>1. /\ events' \in Seq(Record)
          /\ Len(events') = Len(events) + 1 - (IF Len(events) < MaxLen THEN 0 ELSE 1)
          /\ events'[Len(events')] = rec
          /\ \A i \in 1 .. Len(events') - 1 :
               /\ events'[i] = events[i + (IF Len(events) < MaxLen THEN 0 ELSE 1)]
               /\ i + (IF Len(events) < MaxLen THEN 0 ELSE 1) \in DOMAIN events
      BY <1>0, <2>1, AppendedIs
    <3>2. DOMAIN events = 1 .. n
      BY <1>0
    <3> QED  BY <3>1, <3>2
  <2>3. /\ Len(arrivals') = a + 1 /\ arrivals'[a + 1] = rec.id
        /\ \A k \in 1 .. a : arrivals'[k] = arrivals[k]
    BY <1>0, <2>1
  <2>4. Len(arrivals') - Len(events') = (a - n) + d
    BY <1>0, <2>2, <2>3
  <2>5. d \in {0, 1} /\ (d = 0 => n < MaxLen) /\ (d = 1 => n = MaxLen)
    BY <1>0
  <2> HIDE DEF n, a, d
  <2>6. \A i \in 1 .. Len(events') - 1 : events'[i].id = arrivals'[(a - n) + d + i]
    <3> TAKE i \in 1 .. Len(events') - 1
    <3>1. events'[i].id = arrivals[(a - n) + (i + d)]
      BY <1>0, <2>2
    <3>2. (a - n) + (i + d) = (a - n) + d + i /\ (a - n) + (i + d) \in 1 .. a
      BY <1>0, <2>2, <2>5
    <3> QED  BY <2>3, <3>1, <3>2
  <2>7. events'[Len(events')].id = arrivals'[(a - n) + d + Len(events')]
    BY <1>0, <2>2, <2>3, <2>5
  <2>8. \A i \in DOMAIN events' : i = Len(events') \/ i \in 1 .. Len(events') - 1
    BY <1>0, <2>2, <2>5
  <2>9. \A i \in DOMAIN events' : events'[i].id = arrivals'[(a - n) + d + i]
    BY <2>6, <2>7, <2>8
  <2>10. (a - n) + d >= 0 /\ ((a - n) + d > 0 => Len(events') = MaxLen)
    BY <1>0, <2>2, <2>5
  <2> QED  BY <2>4, <2>9, <2>10 DEF BufferIsRecent
<1>2. CASE ~Fresh(rec)
  <2>1. events' = Upgraded(events, rec) /\ arrivals' = arrivals
    BY <1>2 DEF Add, Arrive
  <2>2. events' \in Seq(Record) /\ Len(events') = n
        /\ \A i \in 1 .. n : events'[i].id = events[i].id
    <3>1. events \in Seq(Record) /\ DOMAIN events = 1 .. n
      BY <1>0
    <3>2. /\ events' \in Seq(Record) /\ Len(events') = Len(events)
          /\ \A i \in DOMAIN events : events'[i].id = events[i].id
      BY <2>1, <3>1, UpgradedIs
    <3> QED  BY <3>1, <3>2
  <2>3. Len(arrivals') - Len(events') = a - n /\ DOMAIN events' = 1 .. n
    BY <1>0, <2>1, <2>2
  <2>4. \A i \in 1 .. n : events'[i].id = arrivals'[(a - n) + i]
    BY <1>0, <2>1, <2>2
  <2>5. a - n >= 0 /\ (a - n > 0 => Len(events') = MaxLen)
    BY <1>0, <2>2
  <2> HIDE DEF n, a
  <2> QED  BY <2>3, <2>4, <2>5 DEF BufferIsRecent
<1> QED  BY <1>1, <1>2

\* The buffer holds the most recent arrivals in their order, for every length of
\* the deque: an upgraded record keeps its place (AuditEventStore.add).
THEOREM Recent == Spec => []BufferIsRecent
<1>1. Init => BufferIsRecent
  BY DEF Init, BufferIsRecent
<1>2. IInv /\ BufferIsRecent /\ [Next]_vars => BufferIsRecent'
  <2> SUFFICES ASSUME IInv, BufferIsRecent, [Next]_vars PROVE BufferIsRecent'
    OBVIOUS
  <2>1. ASSUME NEW id \in Ids, AddLocal(id) PROVE BufferIsRecent'
    <3>1. [id |-> id, source |-> "local", signed |-> "none"] \in Record
      BY DEF Record, Sources
    <3> QED  BY <2>1, <3>1, AddKeepsRecent DEF AddLocal
  <2>2. ASSUME NEW id \in Ids, NEW signed \in {"valid", "invalid"}, AddKafka(id, signed)
        PROVE  BufferIsRecent'
    <3>1. [id |-> id, source |-> "kafka", signed |-> signed] \in Record
      BY DEF Record, Sources
    <3> QED  BY <2>2, <3>1, AddKeepsRecent DEF AddKafka
  <2>3. CASE UNCHANGED vars
    BY <2>3 DEF BufferIsRecent, vars
  <2> QED  BY <2>1, <2>2, <2>3 DEF Next
<1> QED  BY <1>1, <1>2, Invariant, PTL DEF Spec

\* The records of the store are well formed and never more than MaxLen
\* (AuditEventStore.add).
THEOREM TypeCorrect == Spec => []TypeOK
<1>1. IInv => TypeOK
  BY DEF IInv
<1> QED  BY <1>1, Invariant, PTL

-----------------------------------------------------------------------------
\* A set of numbers that is not empty has a least one.
LEMMA Least ==
    ASSUME NEW S \in SUBSET Nat, S # {}
    PROVE  \E i \in S : \A k \in S : i <= k
<1> DEFINE R == OpToRel(<, Nat)
<1>1. PICK i \in S : \A k \in S : ~ (<<k, i>> \in R)
  BY NatLessThanWellFounded, WFMin, Zenon
<1>2. \A k \in S : ~ (k < i)
  BY <1>1 DEF OpToRel
<1> QED  BY <1>2

-----------------------------------------------------------------------------
\* The reads: what is arranged by a total order is there once, in that order.
TotalOrder(at, order) ==
    /\ \A i, j \in at : <<i, j>> \in order \/ <<j, i>> \in order
    /\ \A i, j \in at : <<i, j>> \in order /\ <<j, i>> \in order => i = j
    /\ \A i, j, k \in at : <<i, j>> \in order /\ <<j, k>> \in order => <<i, k>> \in order

\* p runs through `at` in the given order.
Enumerates(p, at, order) ==
    /\ p \in [1 .. Cardinality(at) -> at]
    /\ \A i \in at : \E n \in 1 .. Cardinality(at) : p[n] = i
    /\ \A m, n \in 1 .. Cardinality(at) :
         m < n => <<p[m], p[n]>> \in order /\ p[m] # p[n]

\* In a finite total order the elements have the places 1, 2, ...
LEMMA Places ==
    ASSUME NEW at, IsFiniteSet(at), NEW order, TotalOrder(at, order)
    PROVE  /\ Cardinality(at) \in Nat
           /\ \A i \in at :
                Cardinality({k \in at : <<k, i>> \in order}) \in 1 .. Cardinality(at)
           /\ \A i, j \in at : <<i, j>> \in order /\ i # j =>
                Cardinality({k \in at : <<k, i>> \in order})
                  < Cardinality({k \in at : <<k, j>> \in order})
           /\ \A n \in 1 .. Cardinality(at) :
                \E i \in at : Cardinality({k \in at : <<k, i>> \in order}) = n
<1> DEFINE N == Cardinality(at)
           down(i) == {k \in at : <<k, i>> \in order}
           place(i) == Cardinality(down(i))
           f == [i \in at |-> place(i)]
<1>1. N \in Nat
  BY FS_CardinalityType
<1>2. ASSUME NEW i \in at
      PROVE  IsFiniteSet(down(i)) /\ place(i) \in 1 .. N
  <2>1. down(i) \in SUBSET at /\ i \in down(i)
    BY DEF TotalOrder
  <2>2. IsFiniteSet(down(i)) /\ place(i) <= N
    BY <2>1, FS_Subset
  <2>3. place(i) \in Nat /\ place(i) # 0
    BY <2>1, <2>2, FS_CardinalityType, FS_EmptySet
  <2> HIDE DEF place
  <2> QED  BY <1>1, <2>2, <2>3
<1>3. ASSUME NEW i \in at, NEW j \in at, <<i, j>> \in order, i # j
      PROVE  place(i) < place(j)
  <2>1. down(i) \in SUBSET (down(j) \ {j}) /\ j \in down(j)
    BY <1>3 DEF TotalOrder
  <2>2. IsFiniteSet(down(j) \ {j}) /\ Cardinality(down(j) \ {j}) = place(j) - 1
    BY <1>2, <2>1, FS_RemoveElement
  <2>3. place(i) <= place(j) - 1
    <3> HIDE DEF down
    <3>1. Cardinality(down(i)) <= Cardinality(down(j) \ {j})
      BY <2>1, <2>2, FS_Subset
    <3> QED  BY <2>2, <3>1
  <2>4. place(i) \in 1 .. N /\ place(j) \in 1 .. N
    BY <1>2
  <2> HIDE DEF place
  <2> QED  BY <1>1, <2>3, <2>4
<1>4. ASSUME NEW i \in at, NEW j \in at, place(i) = place(j) PROVE i = j
  <2>1. place(i) \in Nat
    BY <1>1, <1>2
  <2>2. <<i, j>> \in order \/ <<j, i>> \in order
    BY DEF TotalOrder
  <2> HIDE DEF place
  <2> QED  BY <1>3, <1>4, <2>1, <2>2
<1>5. f \in Injection(at, 1 .. N)
  BY <1>2, <1>4 DEF Injection, IsInjective
<1>6. IsFiniteSet(1 .. N) /\ Cardinality(1 .. N) = N
  BY <1>1, FS_Interval
<1>7. f \in Surjection(at, 1 .. N)
  BY <1>5, <1>6, FS_Injection
<1>8. \A n \in 1 .. N : \E i \in at : place(i) = n
  BY <1>7 DEF Surjection
<1> QED  BY <1>1, <1>2, <1>3, <1>8

\* What Arranged makes of a total order.
LEMMA ArrangedIs ==
    ASSUME NEW at, IsFiniteSet(at), NEW order, TotalOrder(at, order), NEW s
    PROVE  \E p : /\ Enumerates(p, at, order)
                  /\ Arranged(s, at, order) = [n \in 1 .. Cardinality(at) |-> s[p[n]]]
<1> DEFINE N == Cardinality(at)
           place(i) == Cardinality({k \in at : <<k, i>> \in order})
           p == [n \in 1 .. N |-> CHOOSE i \in at : place(i) = n]
<1>1. /\ N \in Nat
      /\ \A i \in at : place(i) \in 1 .. N
      /\ \A i, j \in at : <<i, j>> \in order /\ i # j => place(i) < place(j)
      /\ \A n \in 1 .. N : \E i \in at : place(i) = n
  BY Places
<1>2. Arranged(s, at, order) = [n \in 1 .. N |-> s[p[n]]]
  BY DEF Arranged
<1> HIDE DEF place, N
<1>3. \A n \in 1 .. N : p[n] \in at /\ place(p[n]) = n
  BY <1>1
<1>4. \A i \in at : p[place(i)] = i
  <2> TAKE i \in at
  <2>1. p[place(i)] \in at /\ place(p[place(i)]) = place(i)
    BY <1>1, <1>3
  <2>2. <<i, p[place(i)]>> \in order \/ <<p[place(i)], i>> \in order
    BY <2>1 DEF TotalOrder
  <2>3. place(i) \in Nat
    BY <1>1
  <2> HIDE DEF p
  <2> QED  BY <1>1, <2>1, <2>2, <2>3
<1>5. p \in [1 .. N -> at]
  BY <1>3
<1>6. ASSUME NEW m \in 1 .. N, NEW n \in 1 .. N, m < n
      PROVE  <<p[m], p[n]>> \in order /\ p[m] # p[n]
  <2>1. p[m] \in at /\ p[n] \in at /\ place(p[m]) = m /\ place(p[n]) = n
    BY <1>3
  <2> HIDE DEF p
  <2>2. p[m] # p[n]
    BY <1>1, <1>6, <2>1
  <2>3. <<p[m], p[n]>> \in order \/ <<p[n], p[m]>> \in order
    BY <2>1 DEF TotalOrder
  <2> QED  BY <1>1, <1>6, <2>1, <2>2, <2>3
<1>7. Enumerates(p, at, order)
  <2>1. \A i \in at : \E n \in 1 .. N : p[n] = i
    BY <1>1, <1>4
  <2> HIDE DEF p
  <2> QED  BY <1>5, <1>6, <2>1 DEF Enumerates, N
<1> QED  BY <1>2, <1>7 DEF N

\* p runs through the N elements of S, each once.
Runs(p, S, N) == /\ p \in [1 .. N -> S]
                 /\ \A x \in S : \E n \in 1 .. N : p[n] = x
                 /\ \A m, n \in 1 .. N : m # n => p[m] # p[n]

\* One sequence shows the elements of another at some places, each once.
Shows(r, p, s, at) == /\ Runs(p, at, Cardinality(at))
                      /\ r = [n \in 1 .. Cardinality(at) |-> s[p[n]]]

\* The times events sort by are numbers.
LEMMA KeysAre == ASSUME NEW rec \in Record PROVE Key(rec) \in Nat
BY QueryAssumption DEF Record, Key

\* A part of the places of a sequence is finite.
LEMMA PlacesFinite ==
    ASSUME NEW n \in Nat, NEW at \in SUBSET (1 .. n)
    PROVE  IsFiniteSet(at) /\ Cardinality(at) \in Nat
<1>1. IsFiniteSet(1 .. n)
  BY FS_Interval
<1> QED  BY <1>1, FS_Subset, FS_CardinalityType

\* A sequence of n elements has n places.
LEMMA AllPlaces ==
    ASSUME NEW n \in Nat PROVE Cardinality(1 .. n) = n
<1>1. Cardinality(1 .. n) = IF 1 > n THEN 0 ELSE n - 1 + 1
  BY FS_Interval
<1> QED  BY <1>1

\* Arranging places of a sequence shows its elements there, each once, in order.
LEMMA ArrangedShows ==
    ASSUME NEW n \in Nat, NEW at \in SUBSET (1 .. n), NEW order, TotalOrder(at, order), NEW s
    PROVE  \E p : /\ Shows(Arranged(s, at, order), p, s, at)
                  /\ \A k, m \in 1 .. Cardinality(at) : k < m => <<p[k], p[m]>> \in order
<1> DEFINE N == Cardinality(at)
<1>1. IsFiniteSet(at) /\ N \in Nat
  BY PlacesFinite
<1>2. PICK p : Enumerates(p, at, order) /\ Arranged(s, at, order) = [m \in 1 .. N |-> s[p[m]]]
  BY <1>1, ArrangedIs
<1>3. /\ p \in [1 .. N -> at]
      /\ \A i \in at : \E m \in 1 .. N : p[m] = i
      /\ \A k, m \in 1 .. N : k < m => <<p[k], p[m]>> \in order /\ p[k] # p[m]
  BY <1>2 DEF Enumerates
<1> HIDE DEF N
<1>4. \A k, m \in 1 .. N : k # m => p[k] # p[m]
  <2> SUFFICES ASSUME NEW k \in 1 .. N, NEW m \in 1 .. N, k # m PROVE p[k] # p[m]
    OBVIOUS
  <2>1. k < m \/ m < k
    BY <1>1
  <2> QED  BY <1>3, <2>1
<1>5. Shows(Arranged(s, at, order), p, s, at)
  BY <1>2, <1>3, <1>4 DEF Shows, Runs, N
<1> QED  BY <1>3, <1>5 DEF N

\* A list comprehension keeps the chosen elements, each once, in their order.
LEMMA KeptIs ==
    ASSUME NEW n \in Nat, NEW at \in SUBSET (1 .. n), NEW s
    PROVE  \E p : /\ Shows(Kept(s, at), p, s, at)
                  /\ \A k, m \in 1 .. Cardinality(at) : k < m => p[k] <= p[m]
<1> DEFINE order == {e \in at \X at : e[1] <= e[2]}
<1>1. \A i, j : <<i, j>> \in order <=> i \in at /\ j \in at /\ i <= j
  OBVIOUS
<1>2. Kept(s, at) = Arranged(s, at, order)
  BY DEF Kept
<1> HIDE DEF order
<1>3. TotalOrder(at, order)
  BY <1>1 DEF TotalOrder
<1>4. PICK p : /\ Shows(Arranged(s, at, order), p, s, at)
               /\ \A k, m \in 1 .. Cardinality(at) : k < m => <<p[k], p[m]>> \in order
  BY <1>3, ArrangedShows
<1> QED  BY <1>1, <1>2, <1>4

\* Sorting shows every record once, by falling or by rising keys.
LEMMA NewestFirstIs ==
    ASSUME NEW s \in Seq(Record)
    PROVE  \E p : /\ Shows(NewestFirst(s), p, s, 1 .. Len(s))
                  /\ \A k, m \in 1 .. Len(s) : k < m => Key(s[p[k]]) >= Key(s[p[m]])
<1> DEFINE at == 1 .. Len(s)
           key(i) == Key(s[i])
           order == {e \in at \X at :
                       \/ Key(s[e[1]]) > Key(s[e[2]])
                       \/ ~(Key(s[e[2]]) > Key(s[e[1]])) /\ e[1] <= e[2]}
<1>1. \A i, j : <<i, j>> \in order <=>
        /\ i \in at /\ j \in at
        /\ \/ key(i) > key(j)
           \/ ~(key(j) > key(i)) /\ i <= j
  OBVIOUS
<1>2. Len(s) \in Nat /\ \A i \in at : key(i) \in Nat
  BY KeysAre
<1>3. NewestFirst(s) = Arranged(s, at, order)
  BY DEF NewestFirst, StableSort
<1> HIDE DEF order, key, at
<1>4. TotalOrder(at, order)
  <2>1. \A i, j \in at : i \in Nat /\ j \in Nat /\ key(i) \in Nat /\ key(j) \in Nat
    BY <1>2 DEF at
  <2>2. ASSUME NEW i \in at, NEW j \in at PROVE <<i, j>> \in order \/ <<j, i>> \in order
    <3>1. i <= j \/ j <= i
      BY <2>1
    <3> QED  BY <1>1, <2>1, <3>1
  <2>3. ASSUME NEW i \in at, NEW j \in at, <<i, j>> \in order, <<j, i>> \in order
        PROVE  i = j
    <3>1. i <= j /\ j <= i
      BY <1>1, <2>1, <2>3
    <3> QED  BY <2>1, <3>1
  <2>4. \A i, j, k \in at : <<i, j>> \in order /\ <<j, k>> \in order => <<i, k>> \in order
    BY <1>1, <2>1
  <2> QED  BY <2>2, <2>3, <2>4 DEF TotalOrder
<1>5. PICK p : /\ Shows(Arranged(s, at, order), p, s, at)
               /\ \A k, m \in 1 .. Cardinality(at) : k < m => <<p[k], p[m]>> \in order
  BY <1>2, <1>4, ArrangedShows DEF at
<1>6. Cardinality(at) = Len(s)
  BY <1>2, AllPlaces DEF at
<1>7. ASSUME NEW k \in 1 .. Len(s), NEW m \in 1 .. Len(s), k < m
      PROVE  key(p[k]) >= key(p[m])
  <2>1. <<p[k], p[m]>> \in order
    BY <1>5, <1>6, <1>7
  <2>2. p[k] \in at /\ p[m] \in at /\ key(p[k]) \in Nat /\ key(p[m]) \in Nat
    BY <1>1, <1>2, <2>1
  <2> QED  BY <1>1, <2>1, <2>2
<1>8. \A k, m \in 1 .. Len(s) : k < m => Key(s[p[k]]) >= Key(s[p[m]])
  BY <1>7 DEF key
<1> QED  BY <1>3, <1>5, <1>8 DEF at

\* The same by rising keys, for a trace.
LEMMA OldestFirstIs ==
    ASSUME NEW s \in Seq(Record)
    PROVE  \E p : /\ Shows(OldestFirst(s), p, s, 1 .. Len(s))
                  /\ \A k, m \in 1 .. Len(s) : k < m => Key(s[p[k]]) <= Key(s[p[m]])
<1> DEFINE at == 1 .. Len(s)
           key(i) == Key(s[i])
           order == {e \in at \X at :
                       \/ Key(s[e[1]]) < Key(s[e[2]])
                       \/ ~(Key(s[e[2]]) < Key(s[e[1]])) /\ e[1] <= e[2]}
<1>1. \A i, j : <<i, j>> \in order <=>
        /\ i \in at /\ j \in at
        /\ \/ key(i) < key(j)
           \/ ~(key(j) < key(i)) /\ i <= j
  OBVIOUS
<1>2. Len(s) \in Nat /\ \A i \in at : key(i) \in Nat
  BY KeysAre
<1>3. OldestFirst(s) = Arranged(s, at, order)
  BY DEF OldestFirst, StableSort
<1> HIDE DEF order, key, at
<1>4. TotalOrder(at, order)
  <2>1. \A i, j \in at : i \in Nat /\ j \in Nat /\ key(i) \in Nat /\ key(j) \in Nat
    BY <1>2 DEF at
  <2>2. ASSUME NEW i \in at, NEW j \in at PROVE <<i, j>> \in order \/ <<j, i>> \in order
    <3>1. i <= j \/ j <= i
      BY <2>1
    <3> QED  BY <1>1, <2>1, <3>1
  <2>3. ASSUME NEW i \in at, NEW j \in at, <<i, j>> \in order, <<j, i>> \in order
        PROVE  i = j
    <3>1. i <= j /\ j <= i
      BY <1>1, <2>1, <2>3
    <3> QED  BY <2>1, <3>1
  <2>4. \A i, j, k \in at : <<i, j>> \in order /\ <<j, k>> \in order => <<i, k>> \in order
    BY <1>1, <2>1
  <2> QED  BY <2>2, <2>3, <2>4 DEF TotalOrder
<1>5. PICK p : /\ Shows(Arranged(s, at, order), p, s, at)
               /\ \A k, m \in 1 .. Cardinality(at) : k < m => <<p[k], p[m]>> \in order
  BY <1>2, <1>4, ArrangedShows DEF at
<1>6. Cardinality(at) = Len(s)
  BY <1>2, AllPlaces DEF at
<1>7. ASSUME NEW k \in 1 .. Len(s), NEW m \in 1 .. Len(s), k < m
      PROVE  key(p[k]) <= key(p[m])
  <2>1. <<p[k], p[m]>> \in order
    BY <1>5, <1>6, <1>7
  <2>2. p[k] \in at /\ p[m] \in at /\ key(p[k]) \in Nat /\ key(p[m]) \in Nat
    BY <1>1, <1>2, <2>1
  <2> QED  BY <1>1, <2>1, <2>2
<1>8. \A k, m \in 1 .. Len(s) : k < m => Key(s[p[k]]) <= Key(s[p[m]])
  BY <1>7 DEF key
<1> QED  BY <1>3, <1>5, <1>8 DEF at

\* What a filter finds in the buffer, and a trace.
Found(f) == {k \in 1 .. Len(events) : Matches(events[k], f)}
OfCid(c) == {k \in 1 .. Len(events) : Cid(events[k]) = c}

\* A part of what is shown is shown: of places in r those where s is in `at`.
LEMMA ShowsPart ==
    ASSUME NEW s, NEW n \in Nat, NEW r, NEW p, Shows(r, p, s, 1 .. n),
           NEW at \in SUBSET (1 .. n), NEW t, NEW q,
           Shows(t, q, r, {i \in 1 .. n : p[i] \in at})
    PROVE  /\ Cardinality({i \in 1 .. n : p[i] \in at}) = Cardinality(at)
           /\ Shows(t, [m \in 1 .. Cardinality(at) |-> p[q[m]]], s, at)
<1> DEFINE of == {i \in 1 .. n : p[i] \in at}
           b  == [i \in of |-> p[i]]
           pq == [m \in 1 .. Cardinality(at) |-> p[q[m]]]
<1>1. Cardinality(1 .. n) = n
  BY AllPlaces
<1>2. /\ p \in [1 .. n -> 1 .. n]
      /\ \A i \in 1 .. n : \E m \in 1 .. n : p[m] = i
      /\ \A k, m \in 1 .. n : k # m => p[k] # p[m]
      /\ r = [m \in 1 .. n |-> s[p[m]]]
  BY <1>1 DEF Shows, Runs
<1>3. IsFiniteSet(of)
  BY PlacesFinite
<1>4. b \in Bijection(of, at)
  <2>1. b \in [of -> at]
    OBVIOUS
  <2>2. \A i \in at : \E m \in of : b[m] = i
    BY <1>2
  <2>3. \A k, m \in of : b[k] = b[m] => k = m
    BY <1>2
  <2> QED  BY <2>1, <2>2, <2>3 DEF Bijection, Injection, IsInjective, Surjection
<1>5. Cardinality(of) = Cardinality(at)
  BY <1>3, <1>4, FS_Bijection DEF ExistsBijection
<1> DEFINE N == Cardinality(at)
<1>6. /\ q \in [1 .. N -> of]
      /\ \A i \in of : \E m \in 1 .. N : q[m] = i
      /\ \A k, m \in 1 .. N : k # m => q[k] # q[m]
      /\ t = [m \in 1 .. N |-> r[q[m]]]
  BY <1>5 DEF Shows, Runs
<1> HIDE DEF N
<1>7. \A m \in 1 .. N : q[m] \in 1 .. n /\ p[q[m]] \in at
  BY <1>6
<1>8. \A i \in at : \E m \in 1 .. N : p[q[m]] = i
  <2> TAKE i \in at
  <2>1. PICK k \in 1 .. n : p[k] = i
    BY <1>2
  <2>2. PICK m \in 1 .. N : q[m] = k
    BY <1>6, <2>1
  <2> QED  BY <2>1, <2>2
<1>9. \A k, m \in 1 .. N : k # m => p[q[k]] # p[q[m]]
  BY <1>2, <1>6, <1>7
<1>10. t = [m \in 1 .. N |-> s[p[q[m]]]]
  BY <1>2, <1>6, <1>7
<1>11. Shows(t, pq, s, at)
  BY <1>7, <1>8, <1>9, <1>10 DEF Shows, Runs, N
<1> QED  BY <1>5, <1>11

\* The list for a filter shows what the filter finds, newest first.
LEMMA ListingIs ==
    ASSUME events \in Seq(Record), NEW f
    PROVE  \E p : /\ Shows(Filtered(NewestFirst(events), f), p, events, Found(f))
                  /\ \A k, m \in 1 .. Cardinality(Found(f)) :
                       k < m => Key(events[p[k]]) >= Key(events[p[m]])
<1> DEFINE n == Len(events)
           sorted == NewestFirst(events)
           found == Found(f)
           of == {i \in DOMAIN sorted : Matches(sorted[i], f)}
<1>1. n \in Nat /\ found \in SUBSET (1 .. n) /\ Cardinality(1 .. n) = n
  BY AllPlaces DEF Found
<1>2. PICK p : /\ Shows(sorted, p, events, 1 .. n)
               /\ \A k, m \in 1 .. n : k < m => Key(events[p[k]]) >= Key(events[p[m]])
  BY NewestFirstIs
<1>3. /\ p \in [1 .. n -> 1 .. n] /\ sorted = [m \in 1 .. n |-> events[p[m]]]
      /\ \A k, m \in 1 .. n : k # m => p[k] # p[m]
  BY <1>1, <1>2 DEF Shows, Runs
<1> HIDE DEF sorted
<1>4. of = {i \in 1 .. n : p[i] \in found}
  BY <1>3 DEF Found
<1>5. PICK q : /\ Shows(Kept(sorted, of), q, sorted, of)
               /\ \A k, m \in 1 .. Cardinality(of) : k < m => q[k] <= q[m]
  <2>1. of \in SUBSET (1 .. n)
    BY <1>4
  <2> HIDE DEF of
  <2> QED  BY <1>1, <2>1, KeptIs
<1> DEFINE N == Cardinality(found)
           pq == [m \in 1 .. N |-> p[q[m]]]
<1>6. Cardinality(of) = N /\ Shows(Kept(sorted, of), pq, events, found)
  <2>1. Shows(Kept(sorted, of), q, sorted, {i \in 1 .. n : p[i] \in found})
    BY <1>4, <1>5
  <2> HIDE DEF found, of, n
  <2>2. /\ Cardinality({i \in 1 .. n : p[i] \in found}) = Cardinality(found)
        /\ Shows(Kept(sorted, of), [m \in 1 .. Cardinality(found) |-> p[q[m]]], events, found)
    BY <1>1, <1>2, <2>1, ShowsPart
  <2> QED  BY <1>4, <2>2
<1>7. Filtered(sorted, f) = Kept(sorted, of)
  BY DEF Filtered
<1> HIDE DEF found, of, n
<1>8. N \in Nat
  BY <1>1, PlacesFinite DEF n
<1>9. \A m \in 1 .. N : q[m] \in 1 .. n
  BY <1>4, <1>5, <1>6 DEF Shows, Runs
<1>10. ASSUME NEW k \in 1 .. N, NEW m \in 1 .. N, k < m
       PROVE  Key(events[pq[k]]) >= Key(events[pq[m]])
  <2>1. q[k] <= q[m] /\ q[k] # q[m]
    BY <1>5, <1>6, <1>8, <1>10 DEF Shows, Runs
  <2>2. q[k] \in 1 .. n /\ q[m] \in 1 .. n /\ q[k] < q[m]
    BY <1>1, <1>9, <2>1
  <2> QED  BY <1>2, <2>2
<1> HIDE DEF pq
<1> QED  BY <1>6, <1>7, <1>10 DEF sorted, found

\* The trace of a correlation shows its records, oldest first.
LEMMA TraceIs ==
    ASSUME events \in Seq(Record), NEW c
    PROVE  \E p : /\ Shows(TraceByCorrelation(c), p, events, OfCid(c))
                  /\ \A k, m \in 1 .. Cardinality(OfCid(c)) :
                       k < m => Key(events[p[k]]) <= Key(events[p[m]])
<1> DEFINE n == Len(events)
           mine == OfCid(c)
           N == Cardinality(mine)
           kept == Kept(events, mine)
<1>1. n \in Nat /\ mine \in SUBSET (1 .. n) /\ N \in Nat
  <2>1. n \in Nat /\ mine \in SUBSET (1 .. n)
    BY DEF OfCid
  <2> HIDE DEF mine, n
  <2> QED  BY <2>1, PlacesFinite
<1>2. mine = {i \in DOMAIN events : Cid(events[i]) = c}
  BY DEF OfCid
<1> HIDE DEF mine
<1>3. PICK q : Shows(kept, q, events, mine)
  BY <1>1, KeptIs
<1>4. /\ q \in [1 .. N -> mine]
      /\ \A i \in mine : \E m \in 1 .. N : q[m] = i
      /\ \A k, m \in 1 .. N : k # m => q[k] # q[m]
      /\ kept = [m \in 1 .. N |-> events[q[m]]]
  BY <1>3 DEF Shows, Runs
<1> HIDE DEF N, kept
<1>5. kept \in Seq(Record) /\ Len(kept) = N
  <2>1. \A m \in 1 .. N : q[m] \in 1 .. n
    BY <1>1, <1>4
  <2>2. \A m \in 1 .. N : events[q[m]] \in Record
    BY <2>1
  <2> QED  BY <1>1, <1>4, <2>2
<1>6. PICK p : /\ Shows(OldestFirst(kept), p, kept, 1 .. N)
               /\ \A k, m \in 1 .. N : k < m => Key(kept[p[k]]) <= Key(kept[p[m]])
  BY <1>5, OldestFirstIs
<1>7. /\ p \in [1 .. N -> 1 .. N]
      /\ \A i \in 1 .. N : \E m \in 1 .. N : p[m] = i
      /\ \A k, m \in 1 .. N : k # m => p[k] # p[m]
      /\ OldestFirst(kept) = [m \in 1 .. N |-> kept[p[m]]]
  BY <1>1, <1>6, AllPlaces DEF Shows, Runs
<1> DEFINE qp == [m \in 1 .. N |-> q[p[m]]]
<1>8. \A m \in 1 .. N : p[m] \in 1 .. N /\ q[p[m]] \in mine /\ kept[p[m]] = events[q[p[m]]]
  BY <1>4, <1>7
<1>9. \A i \in mine : \E m \in 1 .. N : q[p[m]] = i
  <2> TAKE i \in mine
  <2>1. PICK k \in 1 .. N : q[k] = i
    BY <1>4
  <2>2. PICK m \in 1 .. N : p[m] = k
    BY <1>7
  <2> QED  BY <2>1, <2>2
<1>10. ASSUME NEW k \in 1 .. N, NEW m \in 1 .. N, k # m PROVE q[p[k]] # q[p[m]]
  <2>1. p[k] # p[m] /\ p[k] \in 1 .. N /\ p[m] \in 1 .. N
    BY <1>7, <1>8, <1>10
  <2> QED  BY <1>4, <2>1
<1>11. Shows(OldestFirst(kept), qp, events, mine)
  <2>1. /\ qp \in [1 .. N -> mine]
        /\ OldestFirst(kept) = [m \in 1 .. N |-> events[qp[m]]]
    <3>1. qp \in [1 .. N -> mine]
      BY <1>8
    <3>2. \A m \in 1 .. N : kept[p[m]] = events[qp[m]]
      BY <1>8
    <3> HIDE DEF qp, kept
    <3> QED  BY <1>7, <3>1, <3>2
  <2>2. /\ \A i \in mine : \E m \in 1 .. N : qp[m] = i
        /\ \A k, m \in 1 .. N : k # m => qp[k] # qp[m]
    BY <1>9, <1>10
  <2> HIDE DEF qp
  <2> QED  BY <2>1, <2>2 DEF Shows, Runs, N
<1>12. TraceByCorrelation(c) = OldestFirst(kept)
  BY <1>2 DEF TraceByCorrelation, kept
<1>13. \A k, m \in 1 .. N : k < m => Key(events[qp[k]]) <= Key(events[qp[m]])
  BY <1>6, <1>8
<1> HIDE DEF qp
<1> QED  BY <1>11, <1>12, <1>13 DEF N, mine

\* A set that holds a stretch of an injection is at least as large.
LEMMA StretchInside ==
    ASSUME NEW S, IsFiniteSet(S), NEW a \in Int, NEW b \in Int, a <= b, NEW p,
           \A n \in a .. b : p[n] \in S,
           \A m, n \in a .. b : m # n => p[m] # p[n]
    PROVE  b - a + 1 <= Cardinality(S)
<1> DEFINE f == [n \in a .. b |-> p[n]]
<1>1. f \in Injection(a .. b, S)
  BY DEF Injection, IsInjective
<1>2. Cardinality(a .. b) <= Cardinality(S)
  BY <1>1, FS_Injection
<1>3. Cardinality(a .. b) = b - a + 1
  <2>1. Cardinality(a .. b) = IF a > b THEN 0 ELSE b - a + 1
    BY FS_Interval
  <2> QED  BY <2>1
<1> QED  BY <1>2, <1>3

\* A stretch of places that shows all of a set is at least as long as the set.
LEMMA InsideStretch ==
    ASSUME NEW S, NEW a \in Int, NEW b \in Int, a <= b + 1, NEW p,
           \A x \in S : \E n \in a .. b : p[n] = x
    PROVE  IsFiniteSet(S) /\ Cardinality(S) <= b - a + 1
<1> DEFINE T == {n \in a .. b : p[n] \in S}
           f == [n \in T |-> p[n]]
<1>1. Cardinality(a .. b) = b - a + 1 /\ IsFiniteSet(a .. b)
  <2>1. IsFiniteSet(a .. b) /\ Cardinality(a .. b) = IF a > b THEN 0 ELSE b - a + 1
    BY FS_Interval
  <2> QED  BY <2>1
<1>2. IsFiniteSet(T) /\ Cardinality(T) <= Cardinality(a .. b)
  <2>1. T \in SUBSET (a .. b)
    OBVIOUS
  <2> HIDE DEF T
  <2> QED  BY <1>1, <2>1, FS_Subset
<1>3. f \in Surjection(T, S)
  BY DEF Surjection
<1>4. IsFiniteSet(S) /\ Cardinality(S) <= Cardinality(T)
  BY <1>2, <1>3, FS_Surjection
<1>5. Cardinality(S) \in Nat /\ Cardinality(T) \in Nat
  BY <1>2, <1>4, FS_CardinalityType
<1> HIDE DEF T
<1> QED  BY <1>1, <1>2, <1>4, <1>5

\* Who runs by rising keys, and who by falling ones.
Rising(key, p, N) == \A m, n \in 1 .. N : m < n => key[p[m]] <= key[p[n]]
Falling(key, p, N) == \A m, n \in 1 .. N : m < n => key[p[m]] >= key[p[n]]

\* The n-th key in rising order does not depend on who sorts.
LEMMA SameRank ==
    ASSUME NEW S, NEW N \in Nat, NEW key \in [S -> Nat], NEW p, NEW q,
           Runs(p, S, N), Runs(q, S, N), Rising(key, p, N), Rising(key, q, N),
           NEW i \in 1 .. N
    PROVE  key[q[i]] <= key[p[i]]
<1> DEFINE v == key[p[i]]
           w == key[q[i]]
           L == {x \in S : key[x] < w}
           h == i - 1
<1>1. \A n \in 1 .. N : /\ p[n] \in S /\ key[p[n]] \in Nat
                        /\ q[n] \in S /\ key[q[n]] \in Nat
  BY DEF Runs
<1>2. \A n \in 1 .. i : n \in 1 .. N /\ key[p[n]] <= v
  <2> SUFFICES ASSUME NEW n \in 1 .. i PROVE n \in 1 .. N /\ key[p[n]] <= v
    OBVIOUS
  <2>1. n \in 1 .. N /\ (n = i \/ n < i)
    OBVIOUS
  <2> QED  BY <1>1, <2>1 DEF Rising
<1>3. \A n \in 1 .. N : n \in 1 .. h \/ w <= key[q[n]]
  <2> SUFFICES ASSUME NEW n \in 1 .. N, n \notin 1 .. h PROVE w <= key[q[n]]
    OBVIOUS
  <2>1. n = i \/ i < n
    OBVIOUS
  <2> QED  BY <1>1, <2>1 DEF Rising
<1>4. h \in Int /\ i \in Int /\ 1 <= i /\ i <= N /\ h = i - 1 /\ v \in Nat /\ w \in Nat
  BY <1>1
<1> HIDE DEF v, w, h
<1>5. ASSUME v < w PROVE FALSE
  <2>1. \A x \in L : \E n \in 1 .. h : q[n] = x
    <3> TAKE x \in L
    <3>1. x \in S /\ key[x] < w /\ key[x] \in Nat
      OBVIOUS
    <3>2. PICK n \in 1 .. N : q[n] = x
      BY <3>1 DEF Runs
    <3> QED  BY <1>3, <1>4, <3>1, <3>2
  <2>2. \A n \in 1 .. i : p[n] \in L
    BY <1>1, <1>2, <1>4, <1>5
  <2> HIDE DEF L
  <2>3. IsFiniteSet(L) /\ Cardinality(L) <= h - 1 + 1
    <3>1. 1 \in Int /\ h \in Int /\ 1 <= h + 1
      BY <1>4
    <3>2. IsFiniteSet(L) /\ Cardinality(L) <= h - 1 + 1
      BY <2>1, <3>1, InsideStretch
    <3> QED  BY <3>2
  <2>4. \A m, n \in 1 .. i : m # n => p[m] # p[n]
    BY <1>2 DEF Runs
  <2>5. i - 1 + 1 <= Cardinality(L)
    <3>1. 1 \in Int
      OBVIOUS
    <3> QED  BY <1>4, <2>2, <2>3, <2>4, <3>1, StretchInside
  <2>6. Cardinality(L) \in Nat
    BY <2>3, FS_CardinalityType
  <2> QED  BY <1>4, <2>3, <2>5, <2>6
<1> QED  BY <1>4, <1>5 DEF v, w

\* So a run by rising keys is one by falling keys, read from the end.
LEMMA SortedBothWays ==
    ASSUME NEW S, NEW N \in Nat, NEW key \in [S -> Nat], NEW p, NEW q,
           Runs(p, S, N), Runs(q, S, N), Rising(key, p, N),
           Falling(key, q, N), NEW i \in 1 .. N
    PROVE  key[p[i]] = key[q[N + 1 - i]]
<1> DEFINE r == [n \in 1 .. N |-> q[N + 1 - n]]
<1>1. \A n \in 1 .. N : /\ N + 1 - n \in 1 .. N /\ N + 1 - (N + 1 - n) = n
                        /\ q[N + 1 - n] \in S /\ r[n] = q[N + 1 - n]
  BY DEF Runs
<1>2. Runs(r, S, N)
  <2>1. r \in [1 .. N -> S]
    BY <1>1
  <2>2. ASSUME NEW x \in S PROVE \E n \in 1 .. N : r[n] = x
    <3>1. PICK n \in 1 .. N : q[n] = x
      BY DEF Runs
    <3>2. r[N + 1 - n] = x
      BY <1>1, <3>1
    <3> QED  BY <1>1, <3>2
  <2>3. ASSUME NEW m \in 1 .. N, NEW n \in 1 .. N, m # n PROVE r[m] # r[n]
    <3>1. N + 1 - m # N + 1 - n
      BY <2>3
    <3> QED  BY <1>1, <3>1 DEF Runs
  <2> HIDE DEF r
  <2> QED  BY <2>1, <2>2, <2>3 DEF Runs
<1>3. Rising(key, r, N)
  <2> SUFFICES ASSUME NEW m \in 1 .. N, NEW n \in 1 .. N, m < n
               PROVE  key[r[m]] <= key[r[n]]
    BY DEF Rising
  <2>1. N + 1 - n < N + 1 - m
    OBVIOUS
  <2>2. key[q[N + 1 - n]] >= key[q[N + 1 - m]]
    BY <1>1, <2>1 DEF Falling
  <2>3. key[r[m]] \in Nat /\ key[r[n]] \in Nat
    BY <1>1
  <2> QED  BY <1>1, <2>2, <2>3
<1> HIDE DEF r
<1>4. key[r[i]] <= key[p[i]] /\ key[p[i]] <= key[r[i]]
  BY <1>2, <1>3, SameRank
<1>5. key[r[i]] \in Nat /\ key[p[i]] \in Nat
  BY <1>1 DEF Runs
<1> QED  BY <1>1, <1>4, <1>5

\* More pages hold no fewer elements.
LEMMA Times ==
    ASSUME NEW a \in Nat, NEW b \in Nat, a <= b, NEW z \in Nat
    PROVE  a * z \in Nat /\ b * z \in Nat /\ a * z <= b * z
<1>1. \A x, y \in Nat : x * y \in Nat /\ (x + 1) * y = x * y + y
  OBVIOUS
<1>2. \A x, y, w \in Nat : (x + w) * y = x * y + w * y
  OBVIOUS
<1>3. b - a \in Nat /\ b = a + (b - a)
  OBVIOUS
<1>4. b * z = a * z + (b - a) * z
  BY <1>2, <1>3
<1>5. a * z \in Nat /\ b * z \in Nat /\ (b - a) * z \in Nat
  BY <1>1, <1>3
<1> QED  BY <1>4, <1>5

\* Every number has a page and a place on it.
LEMMA Division ==
    ASSUME NEW z \in Nat \ {0}, NEW k \in Nat \ {0}
    PROVE  \E n \in 1 .. k, i \in 1 .. z : i <= k /\ (n - 1) * z + i = k
<1> DEFINE T == {n \in Nat : k <= n * z}
<1>1. k \in T
  <2>1. 1 * k <= z * k /\ 1 * k = k /\ z * k = k * z
    BY Times
  <2> QED  BY <2>1
<1>2. PICK n \in T : \A m \in T : n <= m
  <2>1. T \in SUBSET Nat /\ T # {}
    BY <1>1
  <2> HIDE DEF T
  <2> QED  BY <2>1, Least
<1>3. n \in Nat /\ n <= k /\ k <= n * z
  BY <1>1, <1>2
<1>4. n # 0
  <2>1. 0 * z = 0
    OBVIOUS
  <2> QED  BY <1>3, <2>1
<1>5. n - 1 \in Nat /\ n - 1 \notin T
  BY <1>2, <1>3, <1>4
<1>6. (n - 1) * z \in Nat /\ ~(k <= (n - 1) * z)
  BY <1>5, Times
<1>7. n * z = (n - 1) * z + z
  <2>1. \A x, y \in Nat : (x + 1) * y = x * y + y
    OBVIOUS
  <2>2. n = (n - 1) + 1
    BY <1>3
  <2> QED  BY <1>5, <2>1, <2>2
<1> DEFINE o == (n - 1) * z
<1> HIDE DEF T, o
<1>8. o \in Nat /\ o < k /\ k <= o + z
  BY <1>3, <1>6, <1>7 DEF o
<1>9. k - o \in 1 .. z /\ k - o <= k /\ o + (k - o) = k /\ n \in 1 .. k
  BY <1>3, <1>4, <1>8
<1> QED  BY <1>9 DEF o

\* What is on a later page comes later.
LEMMA PagesInOrder ==
    ASSUME NEW z \in Nat \ {0}, NEW n \in Nat \ {0}, NEW m \in Nat \ {0},
           NEW i \in 1 .. z, NEW j \in 1 .. z, n < m
    PROVE  (n - 1) * z + i < (m - 1) * z + j
<1>1. n - 1 \in Nat /\ n \in Nat /\ m - 1 \in Nat /\ n <= m - 1
  OBVIOUS
<1>2. n * z <= (m - 1) * z /\ (m - 1) * z \in Nat /\ (n - 1) * z \in Nat
  BY <1>1, Times
<1>3. n * z = (n - 1) * z + z
  <2>1. \A x, y \in Nat : (x + 1) * y = x * y + y
    OBVIOUS
  <2>2. n = (n - 1) + 1
    BY <1>1
  <2> QED  BY <1>1, <2>1, <2>2
<1> DEFINE a == (n - 1) * z
           b == (m - 1) * z
<1> HIDE DEF a, b
<1>4. a \in Nat /\ b \in Nat /\ a + z <= b
  BY <1>2, <1>3 DEF a, b
<1>5. a + i < b + j
  BY <1>4
<1> QED  BY <1>5 DEF a, b

\* The n-th page holds the elements after those of the pages before it.
LEMMA PageIs ==
    ASSUME NEW M \in Seq(Record), NEW limit \in Nat \ {0}, NEW n \in Nat \ {0}
    PROVE  LET z == PageSize(limit)
               page == NthPage(M, limit, n)
           IN /\ z \in Nat \ {0} /\ (n - 1) * z \in Nat
              /\ \A i : i \in DOMAIN page <=> i \in 1 .. z /\ (n - 1) * z + i <= Len(M)
              /\ \A i \in DOMAIN page : page[i] = M[(n - 1) * z + i]
<1> DEFINE z == PageSize(limit)
           o == (n - 1) * z
           last == IF o + z < Len(M) THEN o + z ELSE Len(M)
<1>1. z \in Nat \ {0}
  BY QueryAssumption DEF PageSize, AtLeastZero
<1> HIDE DEF z
<1>2. o \in Nat
  <2>1. n - 1 \in Nat
    OBVIOUS
  <2> QED  BY <1>1, <2>1, Times
<1>3. NthPage(M, limit, n) = SubSeq(M, o + 1, last)
  <2>1. AtLeastZero(o) = o
    BY <1>2 DEF AtLeastZero
  <2> QED  BY <2>1 DEF NthPage, List, Page, z
<1> HIDE DEF o
<1>4. Len(M) \in Nat /\ last \in Int
  BY <1>1, <1>2
<1> DEFINE page == SubSeq(M, o + 1, last)
<1>5. /\ DOMAIN page = 1 .. last - o
      /\ \A i \in 1 .. last - o : page[i] = M[o + i]
  <2>1. page = [i \in 1 .. (1 + last - (o + 1)) |-> M[i + (o + 1) - 1]]
    BY <1>2, <1>4
  <2> HIDE DEF page, last
  <2>2. 1 + last - (o + 1) = last - o
    BY <1>2, <1>4
  <2>3. \A i \in 1 .. last - o : i + (o + 1) - 1 = o + i
    BY <1>2, <1>4
  <2> QED  BY <2>1, <2>2, <2>3
<1>6. \A i : i \in 1 .. last - o <=> i \in 1 .. z /\ o + i <= Len(M)
  BY <1>1, <1>2, <1>4
<1> HIDE DEF page, last
<1> QED  BY <1>1, <1>2, <1>3, <1>5, <1>6 DEF z, o, page

\* For any filter and any page size, the pages show the matches.
LEMMA PagesShowMatches ==
    ASSUME events \in Seq(Record), OneRecordPerEvent, NEW f, NEW limit \in Nat \ {0}
    PROVE  PagesAreRight(f, limit)
<1> DEFINE L == Len(events)
           M == Filtered(NewestFirst(events), f)
           found == Found(f)
           N == Cardinality(found)
           z == PageSize(limit)
           page(n) == NthPage(M, limit, n)
           num(n, i) == (n - 1) * z + i
           places == {e \in (1 .. L) \X (1 .. L) : e[2] \in DOMAIN page(e[1])}
           At(e) == page(e[1])[e[2]]
<1>1. L \in Nat /\ DOMAIN events = 1 .. L
  OBVIOUS
<1>2. found = {k \in DOMAIN events : Matches(events[k], f)} /\ found \in SUBSET (1 .. L)
  BY <1>1 DEF Found
<1>3. PICK p : /\ Shows(M, p, events, found)
               /\ \A k, m \in 1 .. N : k < m => Key(events[p[k]]) >= Key(events[p[m]])
  BY ListingIs
<1>4. N \in Nat /\ N <= L
  <2> HIDE DEF found, L
  <2>1. IsFiniteSet(1 .. L) /\ Cardinality(1 .. L) = L
    BY <1>1, AllPlaces, FS_Interval
  <2> QED  BY <1>1, <1>2, <2>1, FS_Subset, FS_CardinalityType
<1>5. Runs(p, found, N) /\ M = [m \in 1 .. N |-> events[p[m]]]
  BY <1>3 DEF Shows
<1> HIDE DEF M, found, N
<1>6. \A m \in 1 .. N : p[m] \in found /\ p[m] \in 1 .. L /\ events[p[m]] \in Record
                        /\ M[m] = events[p[m]]
  BY <1>1, <1>2, <1>5 DEF Runs
<1>7. M \in Seq(Record) /\ Len(M) = N
  BY <1>4, <1>5, <1>6
<1>8. z \in Nat \ {0}
  BY <1>7, PageIs
<1>9. \A n \in Nat \ {0} : \A i :
        /\ i \in DOMAIN page(n) <=> i \in 1 .. z /\ num(n, i) <= N
        /\ i \in DOMAIN page(n) => page(n)[i] = M[num(n, i)] /\ num(n, i) \in 1 .. N
  <2> SUFFICES ASSUME NEW n \in Nat \ {0}, NEW i
               PROVE  /\ i \in DOMAIN page(n) <=> i \in 1 .. z /\ num(n, i) <= N
                      /\ i \in DOMAIN page(n) => page(n)[i] = M[num(n, i)] /\ num(n, i) \in 1 .. N
    OBVIOUS
  <2>1. /\ (n - 1) * z \in Nat
        /\ i \in DOMAIN page(n) <=> i \in 1 .. z /\ (n - 1) * z + i <= N
        /\ i \in DOMAIN page(n) => page(n)[i] = M[(n - 1) * z + i]
    <3>1. /\ (n - 1) * PageSize(limit) \in Nat
          /\ \A j : j \in DOMAIN NthPage(M, limit, n) <=>
                     j \in 1 .. PageSize(limit) /\ (n - 1) * PageSize(limit) + j <= Len(M)
          /\ \A j \in DOMAIN NthPage(M, limit, n) :
               NthPage(M, limit, n)[j] = M[(n - 1) * PageSize(limit) + j]
      BY <1>7, PageIs
    <3> QED  BY <1>7, <3>1
  <2>2. ASSUME NEW o \in Nat, i \in 1 .. z, o + i <= N PROVE o + i \in 1 .. N
    BY <1>4, <1>8, <2>2
  <2> HIDE DEF page, z
  <2>3. i \in DOMAIN page(n) => (n - 1) * z + i \in 1 .. N
    BY <2>1, <2>2
  <2> QED  BY <2>1, <2>3
<1> HIDE DEF z
<1>10. \A m \in 1 .. N : \E n \in 1 .. N, i \in 1 .. N : i \in 1 .. z /\ num(n, i) = m
  <2> TAKE m \in 1 .. N
  <2>1. PICK n \in 1 .. m, i \in 1 .. z : i <= m /\ num(n, i) = m
    <3>1. m \in Nat \ {0}
      BY <1>4
    <3> QED  BY <1>8, <3>1, Division
  <2>2. n \in 1 .. N /\ i \in 1 .. N
    BY <1>4, <1>8, <2>1
  <2> HIDE DEF num
  <2> QED  BY <2>1, <2>2
<1>11. ASSUME NEW n \in Nat \ {0}, NEW m \in Nat \ {0}, NEW i \in 1 .. z, NEW j \in 1 .. z
       PROVE  /\ n < m \/ (n = m /\ i < j) => num(n, i) < num(m, j)
              /\ num(n, i) = num(m, j) => n = m /\ i = j
  <2>1. i \in Int /\ j \in Int /\ (n - 1) * z \in Nat /\ (m - 1) * z \in Nat
    <3>1. n - 1 \in Nat /\ m - 1 \in Nat
      OBVIOUS
    <3> QED  BY <1>8, <3>1, Times
  <2>2. n < m => num(n, i) < num(m, j)
    BY <1>8, PagesInOrder
  <2>3. m < n => num(m, j) < num(n, i)
    BY <1>8, PagesInOrder
  <2>4. num(n, i) \in Int /\ num(m, j) \in Int
    BY <2>1
  <2>5. n = m => /\ i < j => num(n, i) < num(m, j)
                 /\ j < i => num(m, j) < num(n, i)
    <3> DEFINE o == (n - 1) * z
    <3>1. o \in Nat
      BY <2>1
    <3> HIDE DEF o
    <3>2. i < j => o + i < o + j
      BY <2>1, <3>1
    <3>3. j < i => o + j < o + i
      BY <2>1, <3>1
    <3> QED  BY <3>2, <3>3 DEF o
  <2> HIDE DEF num
  <2> QED  BY <2>1, <2>2, <2>3, <2>4, <2>5
<1> HIDE DEF num, page
<1>12. ASSUME NEW e \in places
       PROVE  /\ e[1] \in Nat \ {0} /\ e[2] \in 1 .. z /\ e = <<e[1], e[2]>>
              /\ num(e[1], e[2]) \in 1 .. N /\ At(e) = events[p[num(e[1], e[2])]]
  <2>1. e[1] \in Nat \ {0} /\ e[2] \in DOMAIN page(e[1]) /\ e = <<e[1], e[2]>>
    BY <1>1
  <2> QED  BY <1>6, <1>9, <2>1
<1>13. ASSUME NEW m \in 1 .. N
       PROVE  \E e \in places : num(e[1], e[2]) = m
  <2>1. PICK n \in 1 .. N, i \in 1 .. N : i \in 1 .. z /\ num(n, i) = m
    BY <1>10
  <2>2. n \in Nat \ {0} /\ n \in 1 .. L /\ i \in 1 .. L /\ m <= N
    BY <1>1, <1>4
  <2>3. i \in DOMAIN page(n)
    BY <1>9, <2>1, <2>2
  <2>4. <<n, i>> \in places
    BY <2>2, <2>3
  <2> HIDE DEF places
  <2> QED  BY <2>1, <2>4
<1> HIDE DEF places, At
<1>14. ASSUME NEW k \in found
       PROVE  \E e \in places : /\ At(e) = events[k]
                                /\ \A q \in places : At(q).id = events[k].id => q = e
  <2>1. PICK m \in 1 .. N : p[m] = k
    BY <1>5 DEF Runs
  <2>2. PICK e \in places : num(e[1], e[2]) = m
    BY <1>13
  <2>3. At(e) = events[k]
    BY <1>12, <2>1, <2>2
  <2>4. ASSUME NEW q \in places, At(q).id = events[k].id PROVE q = e
    <3> DEFINE l == num(q[1], q[2])
    <3>1. l \in 1 .. N /\ At(q) = events[p[l]]
      BY <1>12
    <3>2. p[l] \in DOMAIN events /\ k \in DOMAIN events
      BY <1>1, <1>2, <1>6, <3>1
    <3>3. p[l] = k
      BY <2>4, <3>1, <3>2 DEF OneRecordPerEvent
    <3>4. l = m
      BY <1>5, <2>1, <3>1, <3>3 DEF Runs
    <3>5. q[1] = e[1] /\ q[2] = e[2]
      BY <1>11, <1>12, <2>2, <3>4
    <3> QED  BY <1>12, <3>5
  <2> QED  BY <2>3, <2>4
<1>15. ASSUME NEW e \in places PROVE \E k \in found : At(e) = events[k]
  BY <1>6, <1>12
<1>16. ASSUME NEW e \in places, NEW q \in places,
              e[1] < q[1] \/ (e[1] = q[1] /\ e[2] < q[2])
       PROVE  Key(At(e)) >= Key(At(q))
  <2>1. num(e[1], e[2]) < num(q[1], q[2])
    BY <1>11, <1>12, <1>16
  <2> QED  BY <1>3, <1>12, <2>1 DEF N
<1>17. List(M, limit, 0).total = Cardinality(found)
  BY <1>7 DEF List, N
<1> DEFINE line(e) == [page |-> e[1], line |-> e[2], record |-> At(e)]
           shown == UNION {PageShows(n, page(n)) : n \in 1 .. L}
<1>18. \A x : x \in shown <=> \E e \in places : x = line(e)
  <2>1. ASSUME NEW x \in shown PROVE \E e \in places : x = line(e)
    <3>1. PICK n \in 1 .. L : x \in PageShows(n, page(n))
      OBVIOUS
    <3>2. PICK i \in DOMAIN page(n) : x = [page |-> n, line |-> i, record |-> page(n)[i]]
      BY <3>1 DEF PageShows
    <3>3. <<n, i>> \in places
      <4>1. i \in 1 .. z /\ num(n, i) <= N /\ num(n, i) \in 1 .. N /\ n \in Nat \ {0}
        BY <1>1, <1>9, <3>2
      <4>2. i \in 1 .. L
        <5>1. (n - 1) \in Nat /\ z \in Nat
          BY <1>8, <4>1
        <5>2. (n - 1) * z \in Nat
          BY <5>1, Times
        <5> DEFINE o == (n - 1) * z
        <5>3. o + i <= N
          BY <4>1 DEF num
        <5> HIDE DEF o
        <5> QED  BY <1>1, <1>4, <1>8, <4>1, <5>2, <5>3 DEF o
      <4> QED  BY <3>2, <4>2 DEF places
    <3> QED  BY <3>2, <3>3 DEF At
  <2>2. ASSUME NEW e \in places PROVE line(e) \in shown
    BY DEF places, At, PageShows
  <2> QED  BY <2>1, <2>2
<1> HIDE DEF shown, places, At
<1>19. ASSUME NEW k \in found
       PROVE  \E x \in shown : /\ x.record = events[k]
                               /\ \A y \in shown : y.record.id = events[k].id => y = x
  <2>1. PICK e \in places : /\ At(e) = events[k]
                            /\ \A q \in places : At(q).id = events[k].id => q = e
    BY <1>14
  <2>2. line(e) \in shown /\ line(e).record = At(e)
    BY <1>18
  <2>3. ASSUME NEW y \in shown, y.record.id = events[k].id PROVE y = line(e)
    <3>1. PICK q \in places : y = line(q)
      BY <1>18
    <3>2. At(q).id = events[k].id
      BY <2>3, <3>1
    <3> QED  BY <2>1, <3>1, <3>2
  <2> QED  BY <2>1, <2>2, <2>3
<1>20. \A x \in shown : \E k \in found : x.record = events[k]
  BY <1>15, <1>18
<1>21. \A x, y \in shown :
         x.page < y.page \/ (x.page = y.page /\ x.line < y.line) =>
           Key(x.record) >= Key(y.record)
  BY <1>16, <1>18
<1> QED  BY <1>1, <1>2, <1>17, <1>19, <1>20, <1>21 DEF PagesAreRight, shown, page, M

\* The list of a correlation and its trace show the same records.
LEMMA TraceReversesList ==
    ASSUME events \in Seq(Record), NEW c \in Cids
    PROVE  TraceIsListReversed(c)
<1> DEFINE f == [Open EXCEPT !.cid = c]
           listed == Filtered(NewestFirst(events), f)
           trace == TraceByCorrelation(c)
           mine == OfCid(c)
           N == Cardinality(mine)
           key == [k \in mine |-> Key(events[k])]
<1>1. c # "any"
  BY QueryAssumption DEF Cids
<1>2. Found(f) = mine
  <2>1. /\ f.actor = "any" /\ f.action = "any" /\ f.type = "any" /\ f.cid = c
        /\ f.source = "any" /\ f.from = 0 /\ f.to = 0
    BY DEF Open
  <2> HIDE DEF f
  <2>2. ASSUME NEW k \in 1 .. Len(events)
        PROVE  Matches(events[k], f) <=> Cid(events[k]) = c
    <3>1. events[k].id \in Ids
      <4>1. events[k] \in Record
        OBVIOUS
      <4> QED  BY <4>1 DEF Record
    <3>2. Ts(events[k]) \in Nat
      BY <3>1, QueryAssumption DEF Ts
    <3> QED  BY <1>1, <2>1, <3>2 DEF Matches
  <2> QED  BY <2>2 DEF Found, OfCid
<1>3. mine \in SUBSET (1 .. Len(events)) /\ Len(events) \in Nat
  BY DEF OfCid
<1> HIDE DEF mine, f
<1>4. N \in Nat
  BY <1>3, PlacesFinite
<1>5. key \in [mine -> Nat]
  BY <1>3, KeysAre
<1>6. PICK p : /\ Shows(trace, p, events, mine)
               /\ \A k, m \in 1 .. N : k < m => Key(events[p[k]]) <= Key(events[p[m]])
  BY TraceIs DEF mine
<1>7. PICK q : /\ Shows(listed, q, events, mine)
               /\ \A k, m \in 1 .. N : k < m => Key(events[q[k]]) >= Key(events[q[m]])
  BY <1>2, ListingIs
<1>8. /\ Runs(p, mine, N) /\ trace = [m \in 1 .. N |-> events[p[m]]]
      /\ Runs(q, mine, N) /\ listed = [m \in 1 .. N |-> events[q[m]]]
  BY <1>6, <1>7 DEF Shows
<1> HIDE DEF trace, listed, N
<1>9. \A m \in 1 .. N : /\ p[m] \in mine /\ key[p[m]] = Key(events[p[m]])
                        /\ q[m] \in mine /\ key[q[m]] = Key(events[q[m]])
  BY <1>8 DEF Runs
<1>10. Len(trace) = N /\ Len(listed) = N /\ DOMAIN trace = 1 .. N
  BY <1>4, <1>8
<1>11. Rising(key, p, N)
  BY <1>6, <1>9 DEF Rising
<1>12. Falling(key, q, N)
  BY <1>7, <1>9 DEF Falling
<1> HIDE DEF key
<1>13. ASSUME NEW i \in 1 .. N PROVE Key(trace[i]) = Key(listed[N + 1 - i])
  <2>1. key[p[i]] = key[q[N + 1 - i]]
    <3>1. Runs(p, mine, N) /\ Runs(q, mine, N)
      BY <1>8
    <3>2. i \in 1 .. N
      OBVIOUS
    <3> HIDE DEF mine
    <3> QED  BY <1>4, <1>5, <1>11, <1>12, <3>1, <3>2, SortedBothWays
  <2>2. N + 1 - i \in 1 .. N
    BY <1>4
  <2> QED  BY <1>8, <1>9, <2>1, <2>2
<1> QED  BY <1>10, <1>13 DEF TraceIsListReversed, trace, listed, f

-----------------------------------------------------------------------------
\* The loop of summary is well defined: it has a value after each record.
LEMMA GatheredIs ==
    ASSUME events \in Seq(Record)
    PROVE  /\ Gathered[0] =
                [c \in Cids |-> [events |-> 0, first |-> 0, last |-> 0, lastType |-> "none"]]
           /\ \A n \in 1 .. Len(events) : Gathered[n] = Correlated(Gathered[n - 1], events[n])
<1> DEFINE L == Len(events)
           base == [c \in Cids |-> [events |-> 0, first |-> 0, last |-> 0, lastType |-> "none"]]
           step(v, n) == Correlated(v, events[n])
           upto(g, m) == g = [n \in 0 .. m |-> IF n = 0 THEN base ELSE step(g[n - 1], n)]
           stuck == {m \in 0 .. L : ~ \E g : upto(g, m)}
<1>0. L \in Nat
  OBVIOUS
<1>1. Gathered = CHOOSE g : upto(g, L)
  BY DEF Gathered
<1> HIDE DEF base, step, L
<1>2. \E g : upto(g, L)
  <2> SUFFICES ASSUME ~ \E g : upto(g, L) PROVE FALSE
    OBVIOUS
  <2>1. stuck \in SUBSET Nat /\ L \in stuck
    BY <1>0
  <2> HIDE DEF stuck
  <2>2. PICK m \in stuck : \A k \in stuck : m <= k
    BY <2>1, Least
  <2>3. m \in 0 .. L /\ ~ \E g : upto(g, m)
    BY <2>2 DEF stuck
  <2>4. m # 0
    <3>1. upto([n \in 0 .. 0 |-> base], 0)
      OBVIOUS
    <3> QED  BY <2>3, <3>1
  <2>5. m - 1 \in 0 .. L /\ m - 1 \notin stuck
    BY <1>0, <2>2, <2>3, <2>4
  <2>6. PICK g : upto(g, m - 1)
    BY <2>5 DEF stuck
  <2> DEFINE h == [n \in 0 .. m |-> IF n = m THEN step(g[m - 1], m) ELSE g[n]]
  <2>7. ASSUME NEW n \in 0 .. m
        PROVE  h[n] = IF n = 0 THEN base ELSE step(h[n - 1], n)
    <3>1. CASE n = m
      BY <1>0, <2>3, <2>4, <3>1
    <3>2. CASE n # m
      <4>1. n \in 0 .. m - 1 /\ h[n] = g[n]
        BY <1>0, <2>3, <3>2
      <4>2. g[n] = IF n = 0 THEN base ELSE step(g[n - 1], n)
        BY <2>6, <4>1
      <4>3. n # 0 => h[n - 1] = g[n - 1]
        BY <1>0, <2>3, <3>2
      <4> QED  BY <4>1, <4>2, <4>3
    <3> QED  BY <3>1, <3>2
  <2>8. upto(h, m)
    <3>1. h = [n \in 0 .. m |-> h[n]]
      OBVIOUS
    <3> HIDE DEF h
    <3> QED  BY <2>7, <3>1
  <2> QED  BY <2>3, <2>8
<1>3. upto(Gathered, L)
  BY <1>1, <1>2
<1>4. Gathered[0] = base
  BY <1>0, <1>3
<1>5. \A n \in 1 .. L : Gathered[n] = step(Gathered[n - 1], n)
  BY <1>0, <1>3
<1> QED  BY <1>4, <1>5 DEF base, step, L

\* The records of a correlation among the first n, and what its entry in the
\* summary must say of them.
Mine(n, c) == {i \in 1 .. n : Cid(events[i]) = c}

Says(s, at) ==
    /\ s.events = Cardinality(at)
    /\ at # {} =>
         /\ \E i \in at : Key(events[i]) = s.first
         /\ \E i \in at : Key(events[i]) = s.last /\ Type(events[i]) = s.lastType
         /\ \A i \in at : s.first <= Key(events[i]) /\ Key(events[i]) <= s.last

\* One step of the loop: the entry of the record's correlation changes, no other.
LEMMA CorrelatedIs ==
    ASSUME NEW acc, DOMAIN acc = Cids, NEW rec \in Record
    PROVE  /\ DOMAIN Correlated(acc, rec) = Cids
           /\ \A c \in Cids : c # Cid(rec) => Correlated(acc, rec)[c] = acc[c]
           /\ Cid(rec) \in Cids =>
                LET old == acc[Cid(rec)]
                    new == Correlated(acc, rec)[Cid(rec)]
                IN IF old.events = 0
                   THEN /\ new.events = 1 /\ new.first = Key(rec)
                        /\ new.last = Key(rec) /\ new.lastType = Type(rec)
                   ELSE /\ new.events = old.events + 1
                        /\ new.first = IF Key(rec) < old.first THEN Key(rec) ELSE old.first
                        /\ new.last = IF Key(rec) > old.last THEN Key(rec) ELSE old.last
                        /\ new.lastType = IF Key(rec) > old.last THEN Type(rec) ELSE old.lastType
<1>1. Cid(rec) = NoCid \/ Cid(rec) \in Cids
  BY DEF Record, Cids, Cid
<1>2. NoCid \notin Cids
  BY DEF Cids
<1>3. CASE Cid(rec) = NoCid
  BY <1>2, <1>3 DEF Correlated
<1>4. CASE Cid(rec) \in Cids
  BY <1>2, <1>4 DEF Correlated
<1> QED  BY <1>1, <1>3, <1>4

\* A record more keeps an entry right.
LEMMA EntryStep ==
    ASSUME events \in Seq(Record), NEW n \in 1 .. Len(events),
           NEW g, DOMAIN g = Cids, \A c \in Cids : Says(g[c], Mine(n - 1, c)),
           NEW c \in Cids
    PROVE  Says(Correlated(g, events[n])[c], Mine(n, c))
<1> DEFINE rec == events[n]
           was == Mine(n - 1, c)
           now == Mine(n, c)
           old == g[c]
           new == Correlated(g, rec)[c]
<1>1. rec \in Record
  OBVIOUS
<1>2. /\ IsFiniteSet(was) /\ Cardinality(was) \in Nat
      /\ \A i \in was : i \in 1 .. Len(events) /\ i # n /\ Key(events[i]) \in Nat
  <2>1. was \in SUBSET (1 .. n - 1) /\ n - 1 \in Nat
    BY DEF Mine
  <2>2. IsFiniteSet(was) /\ Cardinality(was) \in Nat
    BY <2>1, PlacesFinite
  <2>3. ASSUME NEW i \in was PROVE i \in 1 .. Len(events) /\ i # n /\ Key(events[i]) \in Nat
    <3>1. i \in 1 .. Len(events) /\ i # n
      BY <2>1
    <3> QED  BY <3>1, KeysAre
  <2> QED  BY <2>2, <2>3
<1>3. Says(old, was)
  OBVIOUS
<1>4. CASE Cid(rec) # c
  <2>1. now = was
    <3>1. \A i : i \in 1 .. n <=> i \in 1 .. n - 1 \/ i = n
      OBVIOUS
    <3> QED  BY <1>4, <3>1 DEF Mine
  <2>2. new = old
    BY <1>1, <1>4, CorrelatedIs
  <2> QED  BY <1>3, <2>1, <2>2
<1>5. CASE Cid(rec) = c
  <2>1. now = was \cup {n} /\ n \notin was
    <3>1. \A i : i \in 1 .. n <=> i \in 1 .. n - 1 \/ i = n
      OBVIOUS
    <3> QED  BY <1>2, <1>5, <3>1 DEF Mine
  <2>2. Cardinality(now) = Cardinality(was) + 1
    BY <1>2, <2>1, FS_AddElement
  <2>3. IF old.events = 0
        THEN new.events = 1 /\ new.first = Key(rec) /\ new.last = Key(rec) /\ new.lastType = Type(rec)
        ELSE /\ new.events = old.events + 1
             /\ new.first = IF Key(rec) < old.first THEN Key(rec) ELSE old.first
             /\ new.last = IF Key(rec) > old.last THEN Key(rec) ELSE old.last
             /\ new.lastType = IF Key(rec) > old.last THEN Type(rec) ELSE old.lastType
    BY <1>1, <1>5, CorrelatedIs
  <2>4. Key(rec) \in Nat /\ n \in now
    BY <1>1, <2>1, KeysAre
  <2> HIDE DEF was, now, old, new
  <2>5. ASSUME old.events = 0 PROVE Says(new, now)
    <3>1. was = {}
      BY <1>2, <1>3, <2>5, FS_EmptySet DEF Says
    <3>2. now = {n}
      BY <2>1, <3>1
    <3>3. new.events = Cardinality(now)
      BY <1>2, <2>2, <2>3, <2>5, <3>1, FS_EmptySet
    <3>4. \A i \in now : Key(events[i]) = new.first /\ Key(events[i]) = new.last
                          /\ Type(events[i]) = new.lastType /\ Key(events[i]) \in Nat
      BY <2>3, <2>4, <2>5, <3>2 DEF rec
    <3>5. \A i \in now : new.first <= Key(events[i]) /\ Key(events[i]) <= new.last
      BY <3>4
    <3> QED  BY <2>4, <3>3, <3>4, <3>5 DEF Says
  <2>6. ASSUME old.events # 0 PROVE Says(new, now)
    <3>1. was # {} /\ old.events = Cardinality(was)
      BY <1>2, <1>3, <2>6, FS_EmptySet DEF Says
    <3>2. PICK a \in was : Key(events[a]) = old.first
      BY <1>3, <3>1 DEF Says
    <3>3. PICK b \in was : Key(events[b]) = old.last /\ Type(events[b]) = old.lastType
      BY <1>3, <3>1 DEF Says
    <3>4. \A i \in was : old.first <= Key(events[i]) /\ Key(events[i]) <= old.last
      BY <1>3, <3>1 DEF Says
    <3>5. old.first \in Nat /\ old.last \in Nat /\ a \in now /\ b \in now
      BY <1>2, <2>1, <3>2, <3>3
    <3>6. new.events = Cardinality(now)
      BY <2>2, <2>3, <2>6, <3>1
    <3>7. \E i \in now : Key(events[i]) = new.first
      BY <2>3, <2>4, <2>6, <3>2, <3>5 DEF rec
    <3>8. \E i \in now : Key(events[i]) = new.last /\ Type(events[i]) = new.lastType
      BY <2>3, <2>4, <2>6, <3>3, <3>5 DEF rec
    <3>9. ASSUME NEW i \in now PROVE new.first <= Key(events[i]) /\ Key(events[i]) <= new.last
      <4>1. CASE i = n
        BY <2>3, <2>4, <2>6, <3>5, <4>1 DEF rec
      <4>2. CASE i \in was
        BY <1>2, <2>3, <2>4, <2>6, <3>4, <3>5, <4>2
      <4> QED  BY <2>1, <4>1, <4>2
    <3>10. \A i \in now : new.first <= Key(events[i]) /\ Key(events[i]) <= new.last
      BY <3>9
    <3> QED  BY <3>6, <3>7, <3>8, <3>10 DEF Says
  <2> QED  BY <2>5, <2>6 DEF new, now
<1> QED  BY <1>4, <1>5

\* The entries are right after every record, so they are after the last one.
LEMMA EntriesAreRight ==
    ASSUME events \in Seq(Record), NEW corr \in Cids
    PROVE  Says(Correlations[corr], {i \in DOMAIN events : Cid(events[i]) = corr})
<1> DEFINE right(n) == DOMAIN Gathered[n] = Cids
                       /\ \A c \in Cids : Says(Gathered[n][c], Mine(n, c))
           wrong == {n \in 0 .. Len(events) : ~ right(n)}
<1>1. right(0)
  <2>1. \A c \in Cids : Mine(0, c) = {}
    BY DEF Mine
  <2>2. \A c \in Cids : Gathered[0][c].events = 0
    <3>1. Gathered[0] = [c \in Cids |-> [events |-> 0, first |-> 0, last |-> 0, lastType |-> "none"]]
      BY GatheredIs
    <3>2. ASSUME NEW c \in Cids PROVE Gathered[0][c].events = 0
      <4>1. Gathered[0][c] = [events |-> 0, first |-> 0, last |-> 0, lastType |-> "none"]
        BY <3>1
      <4> QED  BY <4>1
    <3> QED  BY <3>2
  <2>3. DOMAIN Gathered[0] = Cids
    BY GatheredIs
  <2> QED  BY <2>1, <2>2, <2>3, FS_EmptySet DEF Says
<1>2. ASSUME NEW n \in 1 .. Len(events), right(n - 1) PROVE right(n)
  <2>1. Gathered[n] = Correlated(Gathered[n - 1], events[n])
    BY GatheredIs
  <2>2. DOMAIN Gathered[n] = Cids
    BY <1>2, <2>1, CorrelatedIs
  <2>3. ASSUME NEW c \in Cids PROVE Says(Gathered[n][c], Mine(n, c))
    BY <1>2, <2>1, EntryStep
  <2> QED  BY <2>2, <2>3
<1> HIDE DEF right
<1>3. wrong = {}
  <2> SUFFICES ASSUME wrong # {} PROVE FALSE
    OBVIOUS
  <2>1. wrong \in SUBSET Nat
    OBVIOUS
  <2> HIDE DEF wrong
  <2>2. PICK n \in wrong : \A k \in wrong : n <= k
    BY <2>1, Least
  <2>3. n \in 0 .. Len(events) /\ ~ right(n) /\ Len(events) \in Nat
    BY <2>2 DEF wrong
  <2>4. n # 0
    BY <1>1, <2>3
  <2>5. n \in 1 .. Len(events) /\ n - 1 \in 0 .. Len(events) /\ n - 1 \notin wrong
    BY <2>2, <2>3, <2>4
  <2> QED  BY <1>2, <2>3, <2>5 DEF wrong
<1>4. right(Len(events)) /\ DOMAIN events = 1 .. Len(events)
  <2>1. Len(events) \in 0 .. Len(events) /\ DOMAIN events = 1 .. Len(events)
    OBVIOUS
  <2> QED  BY <1>3, <2>1
<1> QED  BY <1>4 DEF right, Mine, Correlations

\* An entry is opened once for each correlation in the buffer.
LEMMA OpeningIs ==
    ASSUME events \in Seq(Record)
    PROVE  /\ Opening \in SUBSET (1 .. Len(events))
           /\ \A i \in Opening : Cid(events[i]) \in Cids
           /\ \A i, j \in Opening : Cid(events[i]) = Cid(events[j]) => i = j
           /\ \A i \in DOMAIN events : Cid(events[i]) # NoCid =>
                \E o \in Opening : Cid(events[o]) = Cid(events[i])
<1>1. DOMAIN events = 1 .. Len(events) /\ Len(events) \in Nat
  OBVIOUS
<1>2. Opening \in SUBSET (1 .. Len(events))
  BY <1>1 DEF Opening
<1>3. ASSUME NEW i \in Opening PROVE Cid(events[i]) \in Cids
  <2>1. events[i] \in Record /\ Cid(events[i]) # NoCid
    BY <1>1, <1>2 DEF Opening
  <2> QED  BY <2>1 DEF Record, Cid, Cids
<1>4. ASSUME NEW i \in Opening, NEW j \in Opening, Cid(events[i]) = Cid(events[j])
      PROVE  i = j
  <2>1. i \in Nat /\ j \in Nat /\ 1 <= i /\ 1 <= j
    BY <1>1, <1>2
  <2>2. ~ (i \in 1 .. j - 1) /\ ~ (j \in 1 .. i - 1)
    BY <1>4 DEF Opening
  <2> QED  BY <2>1, <2>2
<1>5. ASSUME NEW i \in DOMAIN events, Cid(events[i]) # NoCid
      PROVE  \E o \in Opening : Cid(events[o]) = Cid(events[i])
  <2> DEFINE mine == {k \in DOMAIN events : Cid(events[k]) = Cid(events[i])}
  <2>1. mine \in SUBSET Nat /\ mine # {}
    BY <1>1
  <2>2. PICK o \in mine : \A k \in mine : o <= k
    BY <2>1, Least
  <2>3. \A k \in 1 .. o - 1 : k \in DOMAIN events /\ ~ (o <= k)
    BY <1>1, <2>2
  <2>4. \A k \in 1 .. o - 1 : Cid(events[k]) # Cid(events[o])
    BY <2>2, <2>3
  <2> QED  BY <1>5, <2>2, <2>4 DEF Opening
<1> QED  BY <1>2, <1>3, <1>4, <1>5

\* What an entry says of the time its correlation was last seen.
LEMMA LastIs ==
    ASSUME events \in Seq(Record), NEW i \in DOMAIN events, Cid(events[i]) \in Cids
    PROVE  /\ EntryIsRight(Cid(events[i]), Correlations[Cid(events[i])])
           /\ Correlations[Cid(events[i])].last \in Nat
           /\ Key(events[i]) <= Correlations[Cid(events[i])].last
<1> DEFINE c == Cid(events[i])
           mine == {k \in DOMAIN events : Cid(events[k]) = c}
           entry == Correlations[c]
<1>1. Says(entry, mine) /\ i \in mine
  BY EntriesAreRight
<1>2. \A k \in mine : Key(events[k]) \in Nat
  BY KeysAre
<1> HIDE DEF entry
<1>3. PICK k \in mine : Key(events[k]) = entry.last
  BY <1>1 DEF Says
<1>4. EntryIsRight(c, entry)
  BY <1>1 DEF Says, EntryIsRight
<1>5. Key(events[i]) <= entry.last
  BY <1>1 DEF Says
<1>6. entry.last \in Nat
  BY <1>2, <1>3
<1> QED  BY <1>4, <1>5, <1>6 DEF entry, c

\* Sorting the entries by the time they were last seen orders them totally.
LEMMA LatestFirstIsTotal ==
    ASSUME events \in Seq(Record)
    PROVE  TotalOrder(Opening, LatestFirst(Correlations))
<1> DEFINE last(i) == Correlations[Cid(events[i])].last
           order == LatestFirst(Correlations)
<1>1. \A i, j : <<i, j>> \in order <=>
        /\ i \in Opening /\ j \in Opening
        /\ last(i) > last(j) \/ (last(i) = last(j) /\ i <= j)
  BY DEF LatestFirst
<1>2. \A i \in Opening : i \in Nat /\ last(i) \in Nat
  BY OpeningIs, LastIs
<1> HIDE DEF last, order
<1>3. ASSUME NEW i \in Opening, NEW j \in Opening
      PROVE  <<i, j>> \in order \/ <<j, i>> \in order
  <2>1. last(i) > last(j) \/ last(j) > last(i) \/ last(i) = last(j)
    BY <1>2
  <2>2. i <= j \/ j <= i
    BY <1>2
  <2> QED  BY <1>1, <2>1, <2>2
<1>4. \A i, j \in Opening : <<i, j>> \in order /\ <<j, i>> \in order => i = j
  BY <1>1, <1>2
<1>5. \A i, j, k \in Opening : <<i, j>> \in order /\ <<j, k>> \in order => <<i, k>> \in order
  BY <1>1, <1>2
<1> QED  BY <1>3, <1>4, <1>5 DEF TotalOrder, order

\* The summary lists the first RecentCap of the entries so sorted.
LEMMA RecentIs ==
    ASSUME events \in Seq(Record)
    PROVE  \E p : /\ Runs(p, Opening, Cardinality(Opening))
                  /\ \A k, m \in 1 .. Cardinality(Opening) :
                       k < m => <<p[k], p[m]>> \in LatestFirst(Correlations)
                  /\ RecentCorrelations =
                       [m \in 1 .. (IF Cardinality(Opening) < RecentCap
                                    THEN Cardinality(Opening) ELSE RecentCap) |->
                          [cid  |-> Cid(events[p[m]]),
                           says |-> Correlations[Cid(events[p[m]])]]]
<1> DEFINE N == Cardinality(Opening)
           sorted == Arranged(events, Opening, LatestFirst(Correlations))
           R == IF N < RecentCap THEN N ELSE RecentCap
<1>1. Len(events) \in Nat /\ Opening \in SUBSET (1 .. Len(events))
  BY OpeningIs
<1>2. PICK p : /\ Shows(sorted, p, events, Opening)
               /\ \A k, m \in 1 .. N : k < m => <<p[k], p[m]>> \in LatestFirst(Correlations)
  BY <1>1, LatestFirstIsTotal, ArrangedShows
<1>3. N \in Nat /\ RecentCap \in Nat
  BY <1>1, PlacesFinite, QueryAssumption
<1>4. Runs(p, Opening, N) /\ sorted = [m \in 1 .. N |-> events[p[m]]]
  BY <1>2 DEF Shows
<1>5. RecentCorrelations =
        [m \in 1 .. (IF Len(sorted) < RecentCap THEN Len(sorted) ELSE RecentCap) |->
           [cid |-> Cid(sorted[m]), says |-> Correlations[Cid(sorted[m])]]]
  BY DEF RecentCorrelations
<1> HIDE DEF sorted, N
<1>6. Len(sorted) = N
  BY <1>3, <1>4
<1>7. \A m \in 1 .. R : sorted[m] = events[p[m]]
  BY <1>3, <1>4
<1>8. RecentCorrelations =
        [m \in 1 .. R |-> [cid |-> Cid(events[p[m]]), says |-> Correlations[Cid(events[p[m]])]]]
  BY <1>5, <1>6, <1>7
<1> QED  BY <1>2, <1>4, <1>8 DEF N

\* The summary is right of whatever buffer.
LEMMA SummaryShowsMatches ==
    ASSUME events \in Seq(Record)
    PROVE  SummaryIsRight
<1> DEFINE N == Cardinality(Opening)
           R == IF N < RecentCap THEN N ELSE RecentCap
           recent == RecentCorrelations
           last(i) == Correlations[Cid(events[i])].last
           order == LatestFirst(Correlations)
           listed == {recent[n].cid : n \in DOMAIN recent}
<1>1. PICK p : /\ Runs(p, Opening, N)
               /\ \A k, m \in 1 .. N : k < m => <<p[k], p[m]>> \in order
               /\ recent = [m \in 1 .. R |-> [cid  |-> Cid(events[p[m]]),
                                             says |-> Correlations[Cid(events[p[m]])]]]
  BY RecentIs
<1>2. Opening \in SUBSET (1 .. Len(events)) /\ DOMAIN events = 1 .. Len(events)
  BY OpeningIs
<1>3. N \in Nat /\ RecentCap \in Nat /\ R \in Nat /\ R <= N /\ R <= RecentCap
  <2>1. Len(events) \in Nat /\ RecentCap \in Nat
    BY QueryAssumption
  <2>2. N \in Nat
    BY <1>2, <2>1, PlacesFinite
  <2> HIDE DEF N
  <2> QED  BY <2>1, <2>2
<1>4. /\ \A m \in 1 .. N : p[m] \in Opening
      /\ \A i \in Opening : \E m \in 1 .. N : p[m] = i
      /\ \A k, m \in 1 .. N : k # m => p[k] # p[m]
  BY <1>1 DEF Runs
<1>5. \A i, j : <<i, j>> \in order =>
        i \in Opening /\ j \in Opening /\ (last(i) > last(j) \/ last(i) = last(j))
  BY DEF LatestFirst
<1>6. \A i \in Opening : EntryIsRight(Cid(events[i]), Correlations[Cid(events[i])])
                          /\ last(i) \in Nat
  BY <1>2, OpeningIs, LastIs
<1> HIDE DEF order, N
<1>7. /\ DOMAIN recent = 1 .. R
      /\ \A m \in 1 .. R : /\ m \in 1 .. N
                           /\ recent[m].cid = Cid(events[p[m]])
                           /\ recent[m].says = Correlations[Cid(events[p[m]])]
  BY <1>1, <1>3
<1> HIDE DEF recent, R
<1>8. ASSUME NEW n \in DOMAIN recent PROVE EntryIsRight(recent[n].cid, recent[n].says)
  BY <1>4, <1>6, <1>7
<1>9. ASSUME NEW m \in DOMAIN recent, NEW n \in DOMAIN recent, m < n
      PROVE  recent[m].cid # recent[n].cid /\ recent[m].says.last >= recent[n].says.last
  <2>1. /\ m \in 1 .. N /\ n \in 1 .. N /\ m # n
        /\ p[m] \in Opening /\ p[n] \in Opening /\ p[m] # p[n]
    BY <1>3, <1>4, <1>7, <1>9
  <2>2. recent[m].cid # recent[n].cid
    BY <1>7, <2>1, OpeningIs
  <2>3. last(p[m]) > last(p[n]) \/ last(p[m]) = last(p[n])
    BY <1>1, <1>5, <1>9, <2>1
  <2>4. last(p[m]) \in Nat /\ last(p[n]) \in Nat
    BY <1>6, <2>1
  <2>5. recent[m].says.last = last(p[m]) /\ recent[n].says.last = last(p[n])
    BY <1>7
  <2> HIDE DEF last
  <2> QED  BY <2>2, <2>3, <2>4, <2>5
<1>10. ASSUME NEW i \in DOMAIN events, Cid(events[i]) \notin listed \cup {NoCid}
       PROVE  /\ Len(recent) = RecentCap
              /\ \A n \in DOMAIN recent : recent[n].says.last >= Key(events[i])
  <2>1. PICK o \in Opening : Cid(events[o]) = Cid(events[i])
    BY <1>10, OpeningIs
  <2>2. PICK m \in 1 .. N : p[m] = o
    BY <1>4
  <2>3. m \notin 1 .. R
    BY <1>7, <1>10, <2>1, <2>2
  <2>4. R < m /\ R = RecentCap
    BY <1>3, <2>3 DEF R
  <2>5. Len(recent) = R
    BY <1>1, <1>3, <1>7 DEF recent, R
  <2>6. Key(events[i]) <= last(o) /\ Key(events[i]) \in Nat
    <3>1. Cid(events[i]) \in Cids
      BY <2>1, OpeningIs
    <3>2. events[i] \in Record
      BY <1>2
    <3> QED  BY <2>1, <3>1, <3>2, LastIs, KeysAre
  <2>7. ASSUME NEW n \in DOMAIN recent
        PROVE  recent[n].says.last >= Key(events[i])
    <3>1. n \in 1 .. N /\ n < m
      BY <1>3, <1>7, <2>4
    <3>2. last(p[n]) > last(o) \/ last(p[n]) = last(o)
      BY <1>1, <1>5, <2>2, <3>1
    <3>3. last(p[n]) \in Nat /\ last(o) \in Nat
      BY <1>4, <1>6, <3>1
    <3>4. recent[n].says.last = last(p[n])
      BY <1>7
    <3> HIDE DEF last
    <3> QED  BY <2>6, <3>2, <3>3, <3>4
  <2> QED  BY <2>4, <2>5, <2>7
<1> QED  BY <1>8, <1>9, <1>10 DEF SummaryIsRight, recent

-----------------------------------------------------------------------------
\* In every reachable state the pages of a list hold every match once, newest
\* first, for every filter and page size, and the trace of a correlation is its
\* list the other way round (AuditEventStore.list, trace_by_correlation).
THEOREM ReadsAreRight == Spec => []ReadsShowTheMatches
<1>1. IInv => ReadsShowTheMatches
  <2> SUFFICES ASSUME IInv PROVE ReadsShowTheMatches
    OBVIOUS
  <2>1. events \in Seq(Record) /\ OneRecordPerEvent
    BY DEF IInv, TypeOK
  <2>2. ASSUME NEW f \in Filters, NEW limit \in 1 .. PageCap + 1
        PROVE  PagesAreRight(f, limit)
    <3>1. limit \in Nat \ {0}
      BY QueryAssumption
    <3> QED  BY <2>1, <3>1, PagesShowMatches
  <2>3. ASSUME NEW c \in Cids PROVE TraceIsListReversed(c)
    BY <2>1, TraceReversesList
  <2> QED  BY <2>2, <2>3 DEF ReadsShowTheMatches
<1> QED  BY <1>1, Invariant, PTL

\* In every reachable state the summary lists the correlations seen last, each
\* once and the latest first, counts the records of each and names the first and
\* the last of them, whatever the order they arrived in (AuditEventStore.summary).
THEOREM SummaryRight == Spec => []SummaryIsRight
<1>1. IInv => SummaryIsRight
  <2> SUFFICES ASSUME IInv PROVE SummaryIsRight
    OBVIOUS
  <2>1. events \in Seq(Record)
    BY DEF IInv, TypeOK
  <2> QED  BY <2>1, SummaryShowsMatches
<1> QED  BY <1>1, Invariant, PTL
=============================================================================
