------------------------- MODULE AuditIndexProofs -------------------------
(***************************************************************************)
(* Theorems about AuditIndex for any events, filters and limits.  The      *)
(* store and a search are apart: what is indexed, expires or is evicted    *)
(* leaves a search alone, and the search writes nothing; they meet in the  *)
(* history, where what a search has found stays among what was indexed.    *)
(***************************************************************************)
EXTENDS AuditIndex, FiniteSetTheorems, TLAPS

Elements(s) == {s[i] : i \in DOMAIN s}
Distinct(s) == \A i, j \in DOMAIN s : s[i] = s[j] => i = j
Sorted(s)   == \A i, j \in DOMAIN s : i < j => Newer(s[i], s[j])

Todo == Elements(search.todo)

\* A message belongs to an indexed event and lives no longer than from now.
Recorded == /\ indexed \subseteq Events /\ IsFiniteSet(indexed)
            /\ \A e \in Events : message[e] > 0 => e \in indexed
            /\ \A e \in Events : message[e] <= now + Retention

\* A set holds events of its field only, and outlives their messages.
ByField == /\ \A f \in Fields : members[f] \subseteq {e \in indexed : f \in FieldsOf[e]}
           /\ \A e \in Events \ lost : message[e] > now =>
                \A f \in FieldsOf[e] : e \in members[f] /\ until[f] >= message[e]

\* A search reads as long as there is something to read.
Reading == /\ search.phase = "reading" <=> search.todo # <<>>
           /\ search.phase \in {"idle", "called"} =>
                search.results = <<>> /\ search.missing = {}

\* What it shows, has passed over and will read is what the first command found.
Sound == /\ search.known \subseteq indexed
         /\ search.held \subseteq indexed \cap Matching(search.query)
         /\ Elements(search.results) \subseteq search.held
         /\ Todo \subseteq search.held /\ search.missing \subseteq search.held

\* It reads each once, and no more than its limit.
Once == /\ Distinct(search.results) /\ Distinct(search.todo)
        /\ Elements(search.results) \cap Todo = {}
        /\ search.limit >= 1 => Len(search.results) + Len(search.todo) <= search.limit

\* Without filters it goes from the newest down.
InOrder ==
    search.query = {} =>
      /\ Sorted(search.results) /\ Sorted(search.todo)
      /\ \A d \in Elements(search.results), e \in Todo : Newer(d, e)
      /\ \A e \in Elements(search.results) \cup Todo :
           NewerIn(e, search.held)
             \subseteq Elements(search.results) \cup search.missing \cup Todo

\* With filters that fitted the limit it accounts for everything it should find.
Complete ==
    search.phase \in {"reading", "done"} /\ search.query # {} /\ ~search.failed
      /\ search.limit >= Cardinality(search.held)
      => /\ search.held \subseteq Elements(search.results) \cup search.missing \cup Todo
         /\ ((search.known \cap Matching(search.query) \cap Stored) \ lost)
              \subseteq search.held

\* A message that was gone does not come back.
Gone == search.missing \cap Stored = {}

IndexOK  == Recorded /\ ByField /\ TimelineIsRecent
SearchOK == Reading /\ Sound /\ Once /\ InOrder /\ Complete /\ Gone

IInv == TypeOK /\ IndexOK /\ SearchOK

-----------------------------------------------------------------------------
(* Sequences of events: reading the head of one and appending it to another. *)

LEMMA TailIs ==
    ASSUME NEW s \in Seq(Events), s # <<>>
    PROVE  /\ Tail(s) \in Seq(Events) /\ Len(Tail(s)) = Len(s) - 1
           /\ Head(s) \in Events
           /\ Elements(s) = {Head(s)} \cup Elements(Tail(s))
           /\ Distinct(s) => Distinct(Tail(s)) /\ Head(s) \notin Elements(Tail(s))
           /\ Sorted(s) => /\ Sorted(Tail(s))
                           /\ \A e \in Elements(Tail(s)) : Newer(Head(s), e)
<1> DEFINE t == Tail(s)
           n == Len(s)
<1>1. n \in Nat \ {0} /\ DOMAIN s = 1 .. n /\ Head(s) = s[1] /\ s[1] \in Events
  OBVIOUS
<1>2. t \in Seq(Events) /\ Len(t) = n - 1 /\ \A i \in 1 .. n - 1 : t[i] = s[i + 1]
  BY <1>1
<1>3. DOMAIN t = 1 .. n - 1
  BY <1>1, <1>2
<1> HIDE DEF t, n
<1>4. \A i \in DOMAIN t : i + 1 \in DOMAIN s /\ i + 1 # 1 /\ 1 \in DOMAIN s /\ t[i] = s[i + 1]
  BY <1>1, <1>2, <1>3
<1>5. \A k \in DOMAIN s \ {1} : k - 1 \in DOMAIN t /\ t[k - 1] = s[k]
  BY <1>1, <1>2, <1>3
<1>6. Elements(s) = {s[1]} \cup Elements(t)
  <2>1. ASSUME NEW e \in Elements(s) PROVE e \in {s[1]} \cup Elements(t)
    BY <1>5 DEF Elements
  <2>2. {s[1]} \cup Elements(t) \subseteq Elements(s)
    BY <1>1, <1>4 DEF Elements
  <2> QED  BY <2>1, <2>2
<1>7. ASSUME Distinct(s) PROVE Distinct(t) /\ s[1] \notin Elements(t)
  <2>1. \A i, j \in DOMAIN t : t[i] = t[j] => i = j
    BY <1>1, <1>3, <1>4, <1>7 DEF Distinct
  <2>2. \A i \in DOMAIN t : t[i] # s[1]
    BY <1>4, <1>7 DEF Distinct
  <2> QED  BY <2>1, <2>2 DEF Distinct, Elements
<1>8. ASSUME Sorted(s) PROVE Sorted(t) /\ \A e \in Elements(t) : Newer(s[1], e)
  <2>1. \A i, j \in DOMAIN t : i < j => i + 1 < j + 1
    BY <1>1, <1>3
  <2>2. \A i \in DOMAIN t : 1 < i + 1
    BY <1>1, <1>3
  <2>3. Sorted(t)
    BY <1>4, <1>8, <2>1 DEF Sorted
  <2>4. \A i \in DOMAIN t : Newer(s[1], t[i])
    BY <1>4, <1>8, <2>2 DEF Sorted
  <2> QED  BY <2>3, <2>4 DEF Elements
<1> QED  BY <1>1, <1>2, <1>6, <1>7, <1>8 DEF t, n

LEMMA AppendIs ==
    ASSUME NEW s \in Seq(Events), NEW e \in Events
    PROVE  /\ Append(s, e) \in Seq(Events) /\ Len(Append(s, e)) = Len(s) + 1
           /\ Elements(Append(s, e)) = Elements(s) \cup {e}
           /\ Distinct(s) /\ e \notin Elements(s) => Distinct(Append(s, e))
           /\ Sorted(s) /\ (\A d \in Elements(s) : Newer(d, e)) => Sorted(Append(s, e))
<1> DEFINE t == Append(s, e)
           n == Len(s)
<1>1. n \in Nat /\ DOMAIN s = 1 .. n
  OBVIOUS
<1>2. /\ t \in Seq(Events) /\ Len(t) = n + 1 /\ t[n + 1] = e
      /\ \A i \in 1 .. n : t[i] = s[i]
  OBVIOUS
<1>3. DOMAIN t = DOMAIN s \cup {n + 1} /\ n + 1 \notin DOMAIN s
  BY <1>1, <1>2
<1>4. \A i \in DOMAIN s : t[i] = s[i] /\ i < n + 1
  BY <1>1, <1>2
<1>5. \A i, j \in DOMAIN t : i < j => i \in DOMAIN s
  BY <1>1, <1>3
<1> HIDE DEF t, n
<1>6. Elements(t) = Elements(s) \cup {e}
  BY <1>2, <1>3, <1>4 DEF Elements
<1>7. ASSUME Distinct(s), e \notin Elements(s) PROVE Distinct(t)
  BY <1>2, <1>3, <1>4, <1>7 DEF Elements, Distinct
<1>8. ASSUME Sorted(s), \A d \in Elements(s) : Newer(d, e) PROVE Sorted(t)
  <2>1. \A i \in DOMAIN s : Newer(s[i], e)
    BY <1>8 DEF Elements
  <2> QED  BY <1>2, <1>3, <1>4, <1>5, <1>8, <2>1 DEF Sorted
<1> QED  BY <1>2, <1>6, <1>7, <1>8 DEF t, n

\* Events that are read once each are as many as the places they take.
LEMMA DistinctCounts ==
    ASSUME NEW s \in Seq(Events), Distinct(s)
    PROVE  IsFiniteSet(Elements(s)) /\ Cardinality(Elements(s)) = Len(s)
<1> DEFINE n == Len(s)
           f == [i \in 1 .. n |-> s[i]]
<1>1. n \in Nat /\ DOMAIN s = 1 .. n
  OBVIOUS
<1>2. IsFiniteSet(1 .. n) /\ Cardinality(1 .. n) = n
  BY <1>1, FS_Interval
<1>3. f \in Surjection(1 .. n, Elements(s))
  BY <1>1 DEF Surjection, Elements
<1>4. f \in Injection(1 .. n, Elements(s))
  BY <1>1 DEF Injection, IsInjective, Elements, Distinct
<1>5. /\ IsFiniteSet(Elements(s))
      /\ Cardinality(Elements(s)) = Cardinality(1 .. n)
  BY <1>2, <1>3, <1>4, FS_Surjection
<1> QED  BY <1>2, <1>5

-----------------------------------------------------------------------------
(* Ranks: how many of a set are newer than an event.                       *)

\* Of two events one is newer.
LEMMA NewerIsTotal ==
    ASSUME NEW d \in Events, NEW e \in Events
    PROVE  /\ ~Newer(d, d)
           /\ Newer(d, e) => ~Newer(e, d)
           /\ d # e => Newer(d, e) \/ Newer(e, d)
           /\ \A c \in Events : Newer(c, d) /\ Newer(d, e) => Newer(c, e)
<1>1. \A c \in Events : RankOf[c] \in Nat
  BY IndexAssumption
<1>2. d # e => RankOf[d] # RankOf[e]
  BY IndexAssumption
<1>3. d # e => RankOf[d] > RankOf[e] \/ RankOf[e] > RankOf[d]
  BY <1>1, <1>2
<1> QED  BY <1>1, <1>3 DEF Newer

\* In a finite set the ranks are the numbers below its size, one each.
LEMMA Ranking ==
    ASSUME NEW ids \in SUBSET Events, IsFiniteSet(ids)
    PROVE  /\ Cardinality(ids) \in Nat
           /\ \A e \in ids : Cardinality(NewerIn(e, ids)) \in 0 .. Cardinality(ids) - 1
           /\ \A d, e \in ids :
                Newer(d, e) <=> Cardinality(NewerIn(d, ids)) < Cardinality(NewerIn(e, ids))
           /\ \A k \in 0 .. Cardinality(ids) - 1 :
                \E e \in ids : Cardinality(NewerIn(e, ids)) = k
<1> DEFINE n == Cardinality(ids)
           rank(e) == Cardinality(NewerIn(e, ids))
           f == [e \in ids |-> rank(e)]
<1>1. n \in Nat
  BY FS_CardinalityType
<1>2. ASSUME NEW e \in ids
      PROVE  IsFiniteSet(NewerIn(e, ids)) /\ rank(e) \in 0 .. n - 1
  <2>1. NewerIn(e, ids) \in SUBSET (ids \ {e})
    BY NewerIsTotal DEF NewerIn
  <2>2. IsFiniteSet(ids \ {e}) /\ Cardinality(ids \ {e}) = n - 1
    BY FS_RemoveElement
  <2>3. IsFiniteSet(NewerIn(e, ids)) /\ rank(e) <= n - 1
    BY <2>1, <2>2, FS_Subset
  <2>4. rank(e) \in Nat
    BY <2>3, FS_CardinalityType
  <2> QED  BY <1>1, <2>3, <2>4
<1>3. ASSUME NEW d \in ids, NEW e \in ids, Newer(d, e)
      PROVE  rank(d) < rank(e)
  <2>1. NewerIn(d, ids) \cup {d} \in SUBSET NewerIn(e, ids)
    BY <1>3, NewerIsTotal DEF NewerIn
  <2>2. d \notin NewerIn(d, ids)
    BY NewerIsTotal DEF NewerIn
  <2>3. Cardinality(NewerIn(d, ids) \cup {d}) = rank(d) + 1
    BY <1>2, <2>2, FS_AddElement
  <2>4. rank(d) + 1 <= rank(e)
    BY <1>2, <2>1, <2>3, FS_Subset
  <2> HIDE DEF rank
  <2> QED  BY <1>1, <1>2, <2>4
<1>4. \A e \in ids : rank(e) \in Nat
  BY <1>1, <1>2
<1>5. ASSUME NEW d \in ids, NEW e \in ids
      PROVE  /\ Newer(d, e) <=> rank(d) < rank(e)
             /\ rank(d) = rank(e) => d = e
  <2> HIDE DEF rank
  <2>1. rank(d) \in Nat /\ rank(e) \in Nat
    BY <1>4
  <2>2. CASE d = e
    BY <2>1, <2>2, NewerIsTotal
  <2>3. CASE Newer(d, e)
    BY <1>3, <2>1, <2>3
  <2>4. CASE Newer(e, d)
    <3>1. rank(e) < rank(d) /\ ~Newer(d, e)
      BY <1>3, <2>4, NewerIsTotal
    <3> QED  BY <2>1, <3>1
  <2> QED  BY <2>2, <2>3, <2>4, NewerIsTotal
<1>6. f \in Injection(ids, 0 .. n - 1)
  BY <1>2, <1>5 DEF Injection, IsInjective
<1>7. IsFiniteSet(0 .. n - 1) /\ Cardinality(0 .. n - 1) = n
  BY <1>1, FS_Interval
<1>8. f \in Surjection(ids, 0 .. n - 1)
  BY <1>6, <1>7, FS_Injection
<1>9. \A k \in 0 .. n - 1 : \E e \in ids : rank(e) = k
  BY <1>8 DEF Surjection
<1> QED  BY <1>1, <1>2, <1>5, <1>9

\* The sequence of NewestFirst: every event once, the newest first.
LEMMA NewestFirstIs ==
    ASSUME NEW ids \in SUBSET Events, IsFiniteSet(ids)
    PROVE  LET s == NewestFirst(ids) IN
           /\ s \in Seq(Events) /\ Len(s) = Cardinality(ids)
           /\ \A i \in 1 .. Cardinality(ids) :
                s[i] \in ids /\ Cardinality(NewerIn(s[i], ids)) = i - 1
           /\ \A e \in ids : \E i \in 1 .. Cardinality(ids) : s[i] = e
<1> DEFINE n == Cardinality(ids)
           s == NewestFirst(ids)
           Place(i) == CHOOSE e \in ids : Cardinality(NewerIn(e, ids)) = i - 1
<1>1. n \in Nat
  BY Ranking
<1>2. ASSUME NEW i \in 1 .. n
      PROVE  s[i] \in ids /\ Cardinality(NewerIn(s[i], ids)) = i - 1
  <2>1. s[i] = Place(i)
    BY DEF NewestFirst
  <2>2. i - 1 \in 0 .. n - 1
    BY <1>1
  <2>3. \E e \in ids : Cardinality(NewerIn(e, ids)) = i - 1
    BY <2>2, Ranking
  <2>4. Place(i) \in ids /\ Cardinality(NewerIn(Place(i), ids)) = i - 1
    BY <2>3
  <2> QED  BY <2>1, <2>4
<1>3. s \in [1 .. n -> Events]
  <2>1. \A i \in 1 .. n : s[i] \in Events
    BY <1>2
  <2>2. s = [i \in 1 .. n |-> s[i]]
    BY DEF NewestFirst
  <2> HIDE DEF s
  <2> QED  BY <2>1, <2>2
<1>4. s \in Seq(Events) /\ Len(s) = n
  <2> HIDE DEF s, n
  <2> QED  BY <1>1, <1>3
<1>5. ASSUME NEW e \in ids PROVE \E i \in 1 .. n : s[i] = e
  <2> DEFINE i == Cardinality(NewerIn(e, ids)) + 1
  <2>1. i \in 1 .. n /\ i - 1 = Cardinality(NewerIn(e, ids))
    BY <1>1, Ranking
  <2>2. s[i] \in ids /\ Cardinality(NewerIn(s[i], ids)) = Cardinality(NewerIn(e, ids))
    BY <1>2, <2>1
  <2>3. s[i] = e
    <3>1. ~Newer(s[i], e) /\ ~Newer(e, s[i])
      BY <2>2, Ranking
    <3> QED  BY <2>2, <3>1, NewerIsTotal
  <2> QED  BY <2>1, <2>3
<1> QED  BY <1>2, <1>4, <1>5

\* The first of them: whatever is newer than one of these is one of these.
LEMMA LatestAre ==
    ASSUME NEW ids \in SUBSET Events, IsFiniteSet(ids), NEW k \in 0 .. Cardinality(ids)
    PROVE  LET s == SubSeq(NewestFirst(ids), 1, k) IN
           /\ s \in Seq(Events) /\ Len(s) = k
           /\ Elements(s) \subseteq ids /\ Distinct(s) /\ Sorted(s)
           /\ \A e \in Elements(s) : NewerIn(e, ids) \subseteq Elements(s)
<1> DEFINE n == Cardinality(ids)
           all == NewestFirst(ids)
           s == SubSeq(all, 1, k)
           rank(e) == Cardinality(NewerIn(e, ids))
<1>1. /\ n \in Nat /\ k \in 0 .. n /\ all \in Seq(Events) /\ Len(all) = n
      /\ \A i \in 1 .. n : all[i] \in ids /\ rank(all[i]) = i - 1
      /\ \A e \in ids : \E i \in 1 .. n : all[i] = e
  BY Ranking, NewestFirstIs
<1>2. \A d, e \in ids : Newer(d, e) <=> rank(d) < rank(e)
  BY Ranking
<1> HIDE DEF all, rank
<1>3. s \in Seq(Events) /\ Len(s) = k /\ \A i \in 1 .. k : s[i] = all[i]
  <2> HIDE DEF n
  <2> QED  BY <1>1
<1>4. DOMAIN s = 1 .. k /\ 1 .. k \subseteq 1 .. n
  BY <1>1, <1>3
<1> HIDE DEF s, n
<1>5. \A i \in DOMAIN s : s[i] \in ids /\ s[i] = all[i] /\ rank(s[i]) = i - 1
  BY <1>1, <1>3, <1>4
<1>6. Elements(s) \subseteq ids
  BY <1>5 DEF Elements
<1>7. \A i, j \in DOMAIN s : i - 1 = j - 1 => i = j
  BY <1>4
<1>8. \A i, j \in DOMAIN s : i < j <=> i - 1 < j - 1
  BY <1>4
<1>9. Distinct(s) /\ Sorted(s)
  BY <1>2, <1>5, <1>7, <1>8 DEF Distinct, Sorted
<1>10. ASSUME NEW e \in Elements(s), NEW d \in NewerIn(e, ids)
       PROVE  d \in Elements(s)
  <2>1. PICK j \in DOMAIN s : s[j] = e
    BY DEF Elements
  <2>2. d \in ids /\ Newer(d, e)
    BY DEF NewerIn
  <2>3. PICK i \in 1 .. n : all[i] = d
    BY <1>1, <2>2
  <2>4. i - 1 < j - 1
    BY <1>1, <1>2, <1>5, <2>1, <2>2, <2>3
  <2>5. i \in DOMAIN s
    BY <1>1, <1>4, <2>3, <2>4
  <2> QED  BY <1>5, <2>3, <2>5 DEF Elements
<1> QED  BY <1>3, <1>6, <1>9, <1>10 DEF s, all

\* Of one event too many the oldest is trimmed.
LEMMA TrimmedIs ==
    ASSUME NEW ids \in SUBSET Events, IsFiniteSet(ids), Cardinality(ids) <= Cap + 1
    PROVE  /\ Trimmed(ids) \subseteq ids
           /\ Cardinality(Trimmed(ids)) <= Cap
           /\ \A m \in ids \ Trimmed(ids) :
                Trimmed(ids) = NewerIn(m, ids) /\ Cardinality(Trimmed(ids)) = Cap
<1> DEFINE n == Cardinality(ids)
           rank(e) == Cardinality(NewerIn(e, ids))
<1>1. Cap \in Nat /\ n \in Nat /\ Trimmed(ids) \subseteq ids
  BY IndexAssumption, Ranking DEF Trimmed
<1>2. \A e \in ids : rank(e) \in 0 .. n - 1 /\ (e \in Trimmed(ids) <=> rank(e) < Cap)
  BY Ranking DEF Trimmed
<1>3. \A d, e \in ids : Newer(d, e) <=> rank(d) < rank(e)
  BY Ranking
<1>4. ASSUME NEW m \in ids \ Trimmed(ids)
      PROVE  Trimmed(ids) = NewerIn(m, ids) /\ Cardinality(Trimmed(ids)) = Cap
  <2> HIDE DEF n, rank
  <2>1. rank(m) = Cap
    BY <1>1, <1>2 DEF n
  <2>2. \A e \in ids : e \in Trimmed(ids) <=> Newer(e, m)
    BY <1>2, <1>3, <2>1
  <2>3. Trimmed(ids) = NewerIn(m, ids)
    BY <1>1, <2>2 DEF NewerIn
  <2> QED  BY <2>1, <2>3 DEF rank
<1>5. CASE Trimmed(ids) = ids
  <2>1. ~(n = Cap + 1)
    <3>1. SUFFICES ASSUME n = Cap + 1 PROVE FALSE
      OBVIOUS
    <3>2. Cap \in 0 .. n - 1
      BY <1>1, <3>1
    <3>3. PICK m \in ids : rank(m) = Cap
      BY <3>2, Ranking
    <3> QED  BY <1>1, <1>2, <1>5, <3>3
  <2> QED  BY <1>1, <1>5, <2>1
<1>6. CASE Trimmed(ids) # ids
  <2>1. PICK m \in ids : m \notin Trimmed(ids)
    BY <1>1, <1>6
  <2> QED  BY <1>1, <1>4, <2>1
<1> QED  BY <1>5, <1>6, <1>1, <1>4

-----------------------------------------------------------------------------
(* The store: index_event, what Redis drops, and the clock.                *)

LEMMA Constants == /\ Retention \in Nat \ {0} /\ Cap \in Nat \ {0}
                   /\ MaxNow \in Nat /\ MaxFaults \in Nat
  BY IndexAssumption

\* TypeOK without the search.
StoreTypeOK == /\ now \in 0 .. MaxNow /\ faults \in 0 .. MaxFaults
               /\ message \in [Events -> Nat]
               /\ members \in [Fields -> SUBSET Events] /\ until \in [Fields -> Nat]
               /\ timeline \subseteq indexed /\ Cardinality(timeline) <= Cap
               /\ lost \subseteq indexed

LEMMA FieldsAre == \A e \in Events : FieldsOf[e] \subseteq Fields
  BY DEF Fields

\* The timeline with an event more is still the most recent.
LEMMA IndexTimeline ==
    ASSUME StoreTypeOK, IndexOK, NEW e \in Events, Index(e)
    PROVE  /\ timeline' \subseteq indexed' /\ Cardinality(timeline') <= Cap
           /\ indexed' \subseteq Events /\ IsFiniteSet(indexed') /\ TimelineIsRecent'
<1> DEFINE ids == timeline \cup {e}
<1>1. /\ e \notin indexed /\ indexed' = indexed \cup {e} /\ timeline' = Trimmed(ids)
      /\ lost' = lost
  BY DEF Index
<1>2. /\ IsFiniteSet(indexed) /\ IsFiniteSet(indexed') /\ ids \in SUBSET indexed'
      /\ indexed' \subseteq Events
  BY <1>1, FS_AddElement DEF IndexOK, Recorded, StoreTypeOK
<1>3. IsFiniteSet(timeline) /\ IsFiniteSet(ids) /\ Cardinality(timeline) \in Nat
      /\ e \notin timeline /\ Cardinality(ids) = Cardinality(timeline) + 1
  BY <1>1, <1>2, FS_Subset, FS_AddElement, FS_CardinalityType DEF StoreTypeOK
<1>4. ids \in SUBSET Events /\ Cardinality(ids) <= Cap + 1
  BY <1>2, <1>3, Constants DEF StoreTypeOK
<1> HIDE DEF ids
<1>5. /\ timeline' \subseteq ids /\ Cardinality(timeline') <= Cap
      /\ \A m \in ids \ timeline' :
           timeline' = NewerIn(m, ids) /\ Cardinality(timeline') = Cap
  BY <1>1, <1>3, <1>4, TrimmedIs
<1>6. ASSUME NEW d \in indexed' \ (timeline' \cup lost')
      PROVE  timeline' = NewerIn(d, timeline') /\ Cardinality(timeline') = Cap
  <2>1. CASE d \in ids
    BY <1>5, <2>1 DEF NewerIn
  <2>2. CASE d \notin ids
    <3>1. d \in indexed \ (timeline \cup lost)
      BY <1>1, <2>2 DEF ids
    <3>2. timeline = NewerIn(d, timeline) /\ Cardinality(timeline) = Cap
      BY <3>1 DEF IndexOK, TimelineIsRecent
    <3>3. PICK m \in ids : m \notin timeline'
      <4>1. Cardinality(ids) # Cardinality(timeline')
        BY <1>3, <1>4, <1>5, <3>2, Constants, FS_Subset, FS_CardinalityType
      <4> QED  BY <1>5, <4>1
    <3>4. timeline' = NewerIn(m, ids) /\ Cardinality(timeline') = Cap
      BY <1>5, <3>3
    <3>5. \A c \in timeline' : Newer(c, d)
      <4>1. CASE m = e
        BY <1>5, <3>2, <3>3, <4>1 DEF ids, NewerIn
      <4>2. CASE m # e
        <5>1. m \in timeline /\ Newer(m, d)
          BY <3>2, <3>3, <4>2 DEF ids, NewerIn
        <5>2. \A c \in timeline' : c \in Events /\ Newer(c, m)
          BY <1>4, <3>4 DEF NewerIn
        <5>3. m \in Events /\ d \in Events
          BY <1>2, <1>4
        <5> QED  BY <5>1, <5>2, <5>3, NewerIsTotal
      <4> QED  BY <4>1, <4>2
    <3> QED  BY <3>4, <3>5 DEF NewerIn
  <2> QED  BY <2>1, <2>2
<1>7. TimelineIsRecent'
  BY <1>6 DEF TimelineIsRecent, NewerIn
<1> QED  BY <1>1, <1>2, <1>5, <1>7 DEF ids

\* The rest of what index_event keeps.
LEMMA IndexKeepsStore ==
    ASSUME StoreTypeOK, IndexOK, NEW e \in Events, Index(e)
    PROVE  StoreTypeOK' /\ IndexOK'
<1>1. /\ e \notin indexed /\ indexed' = indexed \cup {e}
      /\ message' = [message EXCEPT ![e] = now + Retention]
      /\ members' = [f \in Fields |-> IF f \in FieldsOf[e] THEN SetOf(f) \cup {e}
                                      ELSE members[f]]
      /\ until' = [f \in Fields |-> IF f \in FieldsOf[e] THEN now + Retention ELSE until[f]]
      /\ now' = now /\ faults' = faults /\ lost' = lost
  BY DEF Index, Expiry
<1>2. now \in Nat /\ now + Retention \in Nat
  BY Constants DEF StoreTypeOK
<1>3. /\ \A d \in Events : message[d] \in Nat
      /\ \A f \in Fields : until[f] \in Nat /\ SetOf(f) \subseteq members[f]
      /\ \A f \in Fields : until[f] > now => SetOf(f) = members[f]
  BY DEF StoreTypeOK, SetOf
<1>4. \A d \in Events : message'[d] = IF d = e THEN now + Retention ELSE message[d]
  BY <1>1 DEF StoreTypeOK
<1>5. \A f \in Fields :
        /\ until'[f] = IF f \in FieldsOf[e] THEN now + Retention ELSE until[f]
        /\ members'[f] = IF f \in FieldsOf[e] THEN SetOf(f) \cup {e} ELSE members[f]
  BY <1>1
<1>6. StoreTypeOK'
  <2>1. message' \in [Events -> Nat]
    BY <1>1, <1>2 DEF StoreTypeOK
  <2>2. until' \in [Fields -> Nat]
    BY <1>1, <1>2 DEF StoreTypeOK
  <2>3. members' \in [Fields -> SUBSET Events]
    <3>1. \A f \in Fields : members[f] \subseteq Events /\ SetOf(f) \cup {e} \subseteq Events
      BY <1>3 DEF StoreTypeOK
    <3> QED  BY <1>1, <3>1
  <2> QED  BY <1>1, <2>1, <2>2, <2>3, IndexTimeline DEF StoreTypeOK
<1>7. Recorded'
  <2>1. \A d \in Events : message'[d] > 0 => d \in indexed'
    BY <1>1, <1>4 DEF IndexOK, Recorded
  <2>2. \A d \in Events : message'[d] <= now' + Retention
    BY <1>1, <1>2, <1>4 DEF IndexOK, Recorded
  <2> QED  BY <2>1, <2>2, IndexTimeline DEF Recorded
<1>8. ByField'
  <2>1. \A f \in Fields : members'[f] \subseteq {d \in indexed' : f \in FieldsOf[d]}
    BY <1>1, <1>3, <1>5 DEF IndexOK, ByField
  <2>2. ASSUME NEW d \in Events \ lost', message'[d] > now', NEW f \in FieldsOf[d]
        PROVE  d \in members'[f] /\ until'[f] >= message'[d]
    <3>1. f \in Fields
      BY FieldsAre
    <3>2. CASE d = e
      <4>1. f \in FieldsOf[e] /\ d \in Events
        BY <3>2
      <4>2. /\ message'[d] = now + Retention /\ until'[f] = now + Retention
            /\ members'[f] = SetOf(f) \cup {e}
        BY <1>4, <1>5, <3>1, <3>2, <4>1
      <4>3. until'[f] >= message'[d]
        BY <1>2, <4>2
      <4> QED  BY <3>2, <4>2, <4>3
    <3>3. CASE d # e
      <4>1. message'[d] = message[d] /\ message[d] > now /\ message[d] \in Nat
        BY <1>1, <1>3, <1>4, <2>2, <3>3
      <4>2. d \in members[f] /\ until[f] >= message[d] /\ message[d] <= now + Retention
        BY <1>1, <2>2, <4>1 DEF IndexOK, ByField, Recorded
      <4>3. until[f] > now
        BY <1>2, <1>3, <3>1, <4>1, <4>2
      <4>4. d \in SetOf(f)
        BY <1>3, <3>1, <4>2, <4>3
      <4> QED  BY <1>5, <3>1, <4>1, <4>2, <4>4
    <3> QED  BY <3>2, <3>3
  <2> QED  BY <2>1, <2>2 DEF ByField
<1> QED  BY <1>6, <1>7, <1>8, IndexTimeline DEF IndexOK

\* What Redis drops, an event that is never indexed, and the clock.
LEMMA DropsKeepStore ==
    ASSUME StoreTypeOK, IndexOK,
           \/ \E e \in Events : IndexFails(e) \/ EvictMessage(e)
           \/ \E f \in Fields : EvictSet(f)
           \/ EvictTimeline \/ RestartRedis \/ Tick
    PROVE  StoreTypeOK' /\ IndexOK'
<1>0. /\ now \in Nat /\ faults \in Nat /\ 0 \in Nat /\ MaxFaults \in Nat /\ MaxNow \in Nat
      /\ \A d \in Events : message[d] \in Nat
      /\ \A f \in Fields : until[f] \in Nat /\ members[f] \subseteq Events
      /\ Retention \in Nat /\ Cap \in Nat
  BY Constants DEF StoreTypeOK
<1>1. ASSUME NEW e \in Events, IndexFails(e) PROVE StoreTypeOK' /\ IndexOK'
  <2>1. /\ faults < MaxFaults /\ faults' = faults + 1 /\ indexed' = indexed \cup {e}
        /\ lost' = lost \cup {e} /\ UNCHANGED <<now, message, members, until, timeline>>
    BY <1>1 DEF IndexFails, Drops, redisVars
  <2>2. faults' \in 0 .. MaxFaults
    BY <1>0, <2>1
  <2>3. StoreTypeOK'
    BY <2>1, <2>2 DEF StoreTypeOK
  <2>4. indexed' \subseteq Events /\ IsFiniteSet(indexed')
    BY <2>1, FS_AddElement DEF IndexOK, Recorded
  <2>5. Recorded' /\ ByField'
    BY <2>1, <2>4 DEF IndexOK, Recorded, ByField
  <2>6. TimelineIsRecent'
    BY <2>1 DEF IndexOK, TimelineIsRecent, NewerIn
  <2> QED  BY <2>3, <2>5, <2>6 DEF IndexOK
<1>2. ASSUME NEW e \in Events, EvictMessage(e) PROVE StoreTypeOK' /\ IndexOK'
  <2>1. /\ faults < MaxFaults /\ faults' = faults + 1
        /\ message' = [message EXCEPT ![e] = 0]
        /\ UNCHANGED <<now, members, until, timeline, indexed, lost>>
    BY <1>2 DEF EvictMessage, Drops
  <2>2. faults' \in 0 .. MaxFaults /\ message' \in [Events -> Nat]
    BY <1>0, <2>1 DEF StoreTypeOK
  <2>3. \A d \in Events : message'[d] = IF d = e THEN 0 ELSE message[d]
    BY <2>1 DEF StoreTypeOK
  <2>4. StoreTypeOK'
    BY <2>1, <2>2 DEF StoreTypeOK
  <2>5. Recorded'
    BY <1>0, <2>1, <2>3 DEF IndexOK, Recorded
  <2>6. ByField'
    BY <1>0, <2>1, <2>3 DEF IndexOK, ByField
  <2>7. TimelineIsRecent'
    BY <2>1 DEF IndexOK, TimelineIsRecent, NewerIn
  <2> QED  BY <2>4, <2>5, <2>6, <2>7 DEF IndexOK
<1>3. ASSUME NEW f \in Fields, EvictSet(f) PROVE StoreTypeOK' /\ IndexOK'
  <2>1. /\ faults < MaxFaults /\ faults' = faults + 1
        /\ until' = [until EXCEPT ![f] = 0] /\ members' = [members EXCEPT ![f] = {}]
        /\ lost' = indexed /\ UNCHANGED <<now, message, timeline, indexed>>
    BY <1>3 DEF EvictSet, Drops
  <2>2. /\ faults' \in 0 .. MaxFaults /\ until' \in [Fields -> Nat]
        /\ members' \in [Fields -> SUBSET Events]
    BY <1>0, <2>1 DEF StoreTypeOK
  <2>3. \A g \in Fields : members'[g] = IF g = f THEN {} ELSE members[g]
    BY <2>1 DEF StoreTypeOK
  <2>4. StoreTypeOK'
    BY <2>1, <2>2 DEF StoreTypeOK
  <2>5. Recorded'
    BY <2>1 DEF IndexOK, Recorded
  <2>6. \A d \in Events \ lost' : ~(message'[d] > now')
    BY <1>0, <2>1 DEF IndexOK, Recorded
  <2>7. ByField'
    BY <2>1, <2>3, <2>6 DEF IndexOK, ByField
  <2>8. TimelineIsRecent'
    BY <2>1 DEF TimelineIsRecent
  <2> QED  BY <2>4, <2>5, <2>7, <2>8 DEF IndexOK
<1>4. CASE EvictTimeline
  <2>1. /\ faults < MaxFaults /\ faults' = faults + 1 /\ timeline' = {}
        /\ lost' = indexed /\ UNCHANGED <<now, message, members, until, indexed>>
    BY <1>4 DEF EvictTimeline, Drops
  <2>2. faults' \in 0 .. MaxFaults /\ Cardinality(timeline') <= Cap
    BY <1>0, <2>1, FS_EmptySet
  <2>3. StoreTypeOK'
    BY <2>1, <2>2 DEF StoreTypeOK
  <2>4. \A d \in Events \ lost' : ~(message'[d] > now')
    BY <1>0, <2>1 DEF IndexOK, Recorded
  <2>5. Recorded' /\ ByField' /\ TimelineIsRecent'
    BY <2>1, <2>4 DEF IndexOK, Recorded, ByField, TimelineIsRecent
  <2> QED  BY <2>3, <2>5 DEF IndexOK
<1>5. CASE RestartRedis
  <2>1. /\ faults < MaxFaults /\ faults' = faults + 1 /\ timeline' = {}
        /\ message' = [e \in Events |-> 0] /\ members' = [f \in Fields |-> {}]
        /\ until' = [f \in Fields |-> 0] /\ lost' = indexed /\ UNCHANGED <<now, indexed>>
    BY <1>5 DEF RestartRedis, Drops
  <2>2. faults' \in 0 .. MaxFaults /\ Cardinality(timeline') <= Cap
    BY <1>0, <2>1, FS_EmptySet
  <2>3. StoreTypeOK'
    BY <2>1, <2>2 DEF StoreTypeOK
  <2>4. \A d \in Events : ~(message'[d] > 0) /\ ~(message'[d] > now')
                          /\ message'[d] <= now' + Retention
    BY <1>0, <2>1
  <2>5. Recorded' /\ ByField' /\ TimelineIsRecent'
    BY <2>1, <2>4 DEF IndexOK, Recorded, ByField, TimelineIsRecent
  <2> QED  BY <2>3, <2>5 DEF IndexOK
<1>6. CASE Tick
  <2>1. /\ now < MaxNow /\ now' = now + 1
        /\ UNCHANGED <<faults, message, members, until, timeline, indexed, lost>>
    BY <1>6 DEF Tick, redisVars
  <2>2. now' \in 0 .. MaxNow /\ now' \in Nat /\ now' > now
    BY <1>0, <2>1
  <2>3. StoreTypeOK'
    BY <2>1, <2>2 DEF StoreTypeOK
  <2>4. \A d \in Events : /\ message[d] > now' => message[d] > now
                          /\ message[d] <= now + Retention => message[d] <= now' + Retention
    BY <1>0, <2>2
  <2>5. Recorded' /\ ByField'
    BY <2>1, <2>4 DEF IndexOK, Recorded, ByField
  <2>6. TimelineIsRecent'
    BY <2>1 DEF IndexOK, TimelineIsRecent, NewerIn
  <2> QED  BY <2>3, <2>5, <2>6 DEF IndexOK
<1> QED  BY <1>1, <1>2, <1>3, <1>4, <1>5, <1>6

-----------------------------------------------------------------------------
(* The search, while events are indexed, expire or are evicted.            *)

\* What happens in Redis between two commands of a search leaves it as it was.
LEMMA AroundTheSearch ==
    ASSUME SearchOK, search' = search, indexed \subseteq indexed', lost \subseteq lost',
           indexed \cap Stored' \subseteq Stored
    PROVE  SearchOK'
<1>1. Reading' /\ Once' /\ InOrder'
  BY DEF SearchOK, Reading, Once, InOrder, Todo
<1>2. Sound'
  BY DEF SearchOK, Sound, Todo
<1>3. search.known \subseteq indexed /\ search.missing \subseteq indexed
  BY DEF SearchOK, Sound
<1>4. Complete'
  BY <1>3 DEF SearchOK, Complete, Todo
<1>5. Gone'
  BY <1>3 DEF SearchOK, Gone
<1> QED  BY <1>1, <1>2, <1>4, <1>5 DEF SearchOK

LEMMA EmptyIs == /\ Elements(<<>>) = {} /\ Distinct(<<>>) /\ Sorted(<<>>)
                 /\ Len(<<>>) = 0 /\ <<>> \in Seq(Events)
  BY DEF Elements, Distinct, Sorted

LEMMA CallKeeps ==
    ASSUME StoreTypeOK, IndexOK, NEW query \in Queries \cup {{}}, NEW limit \in Limits,
           Call(query, limit)
    PROVE  search' \in Search /\ SearchOK'
<1> DEFINE q == Called(query, limit)
<1>1. search' = q /\ UNCHANGED <<now, message, indexed, lost>>
  BY DEF Call, redisVars
<1>2. /\ q \in Search
      /\ q.phase = "called" /\ q.todo = <<>> /\ q.results = <<>> /\ q.known = indexed
      /\ q.held = {} /\ q.missing = {} /\ q.limit \in Int
  BY EmptyIs, IndexAssumption DEF Called, Search, IndexOK, Recorded
<1> HIDE DEF q
<1>3. Reading' /\ Sound' /\ Complete' /\ Gone'
  BY <1>1, <1>2, EmptyIs DEF Reading, Sound, Complete, Gone, Todo
<1>4. Once'
  BY <1>1, <1>2, EmptyIs DEF Once, Todo
<1>5. InOrder'
  BY <1>1, <1>2, EmptyIs DEF InOrder, Todo
<1> QED  BY <1>1, <1>2, <1>3, <1>4, <1>5 DEF SearchOK

\* A slice takes no more than there are, and no more than a positive limit.
LEMMA Slices ==
    ASSUME NEW limit \in Int, NEW n \in Nat
    PROVE  /\ Sliced(limit, n) \in 0 .. n /\ Ranged(limit, n) \in 0 .. n
           /\ limit >= 1 => Sliced(limit, n) <= limit /\ Ranged(limit, n) <= limit
           /\ limit >= n => Sliced(limit, n) = n
  BY DEF Sliced, Ranged, Between

\* What the first command of a search leaves to read, filtered or not.
LEMMA FoundKeeps ==
    ASSUME SearchOK, search \in Search, search.phase = "called",
           NEW ids \in SUBSET (indexed \cap Matching(search.query)),
           NEW todo \in Seq(Events), Found(ids, todo),
           ids \subseteq Events,
           Elements(todo) \subseteq ids, Distinct(todo),
           search.limit >= 1 => Len(todo) <= search.limit,
           search.query = {} =>
             Sorted(todo) /\ \A e \in Elements(todo) : NewerIn(e, ids) \subseteq Elements(todo),
           search.query # {} /\ search.limit >= Cardinality(ids) =>
             /\ ids \subseteq Elements(todo)
             /\ ((search.known \cap Matching(search.query) \cap Stored) \ lost) \subseteq ids,
           UNCHANGED <<now, message, indexed, lost>>
    PROVE  search' \in Search /\ SearchOK'
<1> DEFINE phase == IF todo = <<>> THEN "done" ELSE "reading"
           q == [search EXCEPT !.phase = phase, !.todo = todo, !.held = ids]
<1>1. search' = q
  BY DEF Found
<1>2. phase \in {"reading", "done"} /\ (phase = "reading" <=> todo # <<>>)
  OBVIOUS
<1> HIDE DEF phase
<1>3. /\ q \in Search /\ q.phase = phase /\ q.todo = todo /\ q.held = ids
      /\ q.results = search.results /\ q.missing = search.missing
      /\ q.known = search.known /\ q.query = search.query /\ q.limit = search.limit
      /\ q.failed = search.failed
  BY <1>2 DEF Search
<1>4. search.results = <<>> /\ search.missing = {} /\ search.known \subseteq indexed
  BY DEF SearchOK, Reading, Sound
<1> HIDE DEF q
<1>5. Reading'
  BY <1>1, <1>2, <1>3 DEF Reading
<1>6. Sound'
  BY <1>1, <1>3, <1>4, EmptyIs DEF Sound, Todo
<1>7. Once'
  <2>1. Len(todo) \in Nat /\ 0 + Len(todo) = Len(todo)
    OBVIOUS
  <2> QED  BY <1>1, <1>3, <1>4, <2>1, EmptyIs DEF Once, Todo
<1>8. InOrder'
  BY <1>1, <1>3, <1>4, EmptyIs DEF InOrder, Todo
<1>9. Complete'
  <2>1. Stored' = Stored
    BY DEF Stored
  <2> QED  BY <1>1, <1>3, <2>1 DEF Complete, Todo
<1>10. Gone'
  BY <1>1, <1>3, <1>4 DEF Gone
<1> QED  BY <1>1, <1>3, <1>5, <1>6, <1>7, <1>8, <1>9, <1>10 DEF SearchOK

\* The intersection of the filters: only matching events, and all that are
\* stored and whose entries Redis has not dropped.
LEMMA CandidatesAre ==
    ASSUME StoreTypeOK, IndexOK, NEW query \in Queries, query # {}
    PROVE  /\ Candidates(query) \subseteq indexed \cap Matching(query)
           /\ (indexed \cap Matching(query) \cap Stored) \ lost \subseteq Candidates(query)
<1>1. query \subseteq Fields
  BY IndexAssumption
<1>2. ASSUME NEW e \in Candidates(query)
      PROVE  e \in indexed \cap Matching(query)
  <2>1. e \in Events /\ \A f \in query : e \in members[f]
    BY DEF Candidates, SetOf
  <2>2. \A f \in query : e \in indexed /\ f \in FieldsOf[e]
    BY <1>1, <2>1 DEF IndexOK, ByField
  <2> QED  BY <2>1, <2>2 DEF Matching
<1>3. ASSUME NEW e \in (indexed \cap Matching(query) \cap Stored) \ lost
      PROVE  e \in Candidates(query)
  <2>1. /\ e \in Events /\ message[e] > now /\ message[e] \in Nat /\ now \in Nat
        /\ query \subseteq FieldsOf[e]
    BY Constants DEF Matching, Stored, StoreTypeOK
  <2>2. ASSUME NEW f \in query PROVE e \in SetOf(f)
    <3>1. e \in members[f] /\ until[f] >= message[e] /\ until[f] \in Nat
      BY <1>1, <2>1 DEF IndexOK, ByField, StoreTypeOK
    <3>2. until[f] > now
      BY <2>1, <3>1
    <3> QED  BY <3>1, <3>2 DEF SetOf
  <2> QED  BY <2>1, <2>2 DEF Candidates
<1> QED  BY <1>2, <1>3

LEMMA FindFilteredKeeps ==
    ASSUME StoreTypeOK, IndexOK, SearchOK, search \in Search, FindFiltered
    PROVE  search' \in Search /\ SearchOK'
<1> DEFINE ids == Candidates(search.query)
           n == Sliced(search.limit, Cardinality(ids))
<1>1. /\ search.phase = "called" /\ search.query \in Queries /\ search.query # {}
      /\ search.limit \in Int
      /\ UNCHANGED <<now, message, indexed, lost>>
  BY IndexAssumption DEF FindFiltered, redisVars, Search
<1>2. PICK todo \in Injection(1 .. n, ids) : Found(ids, todo)
  BY DEF FindFiltered
<1>3. /\ ids \in SUBSET (indexed \cap Matching(search.query)) /\ ids \subseteq Events
      /\ (indexed \cap Matching(search.query) \cap Stored) \ lost \subseteq ids
      /\ indexed \subseteq Events /\ search.known \subseteq indexed
  BY <1>1, CandidatesAre DEF IndexOK, Recorded, SearchOK, Sound
<1>4. IsFiniteSet(ids) /\ Cardinality(ids) \in Nat
  BY <1>3, FS_Subset, FS_CardinalityType DEF IndexOK, Recorded
<1>5. /\ n \in Nat
      /\ search.limit >= 1 => n <= search.limit
      /\ search.limit >= Cardinality(ids) => n = Cardinality(ids)
  BY <1>1, <1>4, Slices
<1>6. todo \in [1 .. n -> ids] /\ \A i, j \in 1 .. n : todo[i] = todo[j] => i = j
  BY <1>2 DEF Injection, IsInjective
<1>7. /\ todo \in Seq(Events) /\ Len(todo) = n /\ DOMAIN todo = 1 .. n
      /\ \A i \in 1 .. n : todo[i] \in ids
  <2> HIDE DEF n, ids
  <2>1. todo \in [1 .. n -> Events]
    BY <1>3, <1>6
  <2> QED  BY <1>5, <1>6, <2>1
<1>8. Elements(todo) \subseteq ids /\ Distinct(todo)
  BY <1>6, <1>7 DEF Elements, Distinct
<1>9. ASSUME search.limit >= Cardinality(ids) PROVE ids \subseteq Elements(todo)
  <2>1. IsFiniteSet(Elements(todo)) /\ Cardinality(Elements(todo)) = Cardinality(ids)
    BY <1>5, <1>7, <1>8, <1>9, DistinctCounts
  <2> QED  BY <1>4, <1>8, <2>1, FS_Subset
<1> HIDE DEF ids, n
<1>10. /\ search.limit >= 1 => Len(todo) <= search.limit
       /\ search.query # {} /\ search.limit >= Cardinality(ids) =>
            /\ ids \subseteq Elements(todo)
            /\ ((search.known \cap Matching(search.query) \cap Stored) \ lost) \subseteq ids
  BY <1>3, <1>5, <1>7, <1>9
<1> QED  BY <1>1, <1>2, <1>3, <1>7, <1>8, <1>10, FoundKeeps

LEMMA FindLatestKeeps ==
    ASSUME StoreTypeOK, IndexOK, SearchOK, search \in Search, FindLatest
    PROVE  search' \in Search /\ SearchOK'
<1> DEFINE k == Ranged(search.limit, Cardinality(timeline))
           todo == SubSeq(NewestFirst(timeline), 1, k)
<1>1. /\ search.phase = "called" /\ search.query = {} /\ search.limit \in Int
      /\ Found(timeline, todo)
      /\ UNCHANGED <<now, message, indexed, lost>>
  BY IndexAssumption DEF FindLatest, redisVars, Search
<1>2. timeline \in SUBSET (indexed \cap Matching(search.query)) /\ timeline \in SUBSET Events
  BY <1>1 DEF Matching, StoreTypeOK, IndexOK, Recorded
<1>3. IsFiniteSet(timeline) /\ Cardinality(timeline) \in Nat
  BY FS_Subset, FS_CardinalityType DEF StoreTypeOK, IndexOK, Recorded
<1>4. k \in 0 .. Cardinality(timeline) /\ (search.limit >= 1 => k <= search.limit)
  BY <1>1, <1>3, Slices
<1> HIDE DEF k
<1>5. /\ todo \in Seq(Events) /\ Len(todo) = k
      /\ Elements(todo) \subseteq timeline /\ Distinct(todo) /\ Sorted(todo)
      /\ \A e \in Elements(todo) : NewerIn(e, timeline) \subseteq Elements(todo)
  BY <1>2, <1>3, <1>4, LatestAre
<1> HIDE DEF todo
<1> QED  BY <1>1, <1>2, <1>4, <1>5, FoundKeeps

LEMMA ReadKeeps ==
    ASSUME SearchOK, search \in Search, Read
    PROVE  search' \in Search /\ SearchOK'
<1> DEFINE s == search.todo
           e == Head(s)
           t == Tail(s)
           r == IF e \in Stored THEN Append(search.results, e) ELSE search.results
           gone == IF e \in Stored THEN search.missing ELSE search.missing \cup {e}
           q == [search EXCEPT !.phase = Rest, !.todo = t, !.results = r, !.missing = gone]
<1>1. /\ search.phase = "reading" /\ search' = q
      /\ UNCHANGED <<now, message, indexed, lost>>
  BY DEF Read, redisVars
<1>2. /\ s \in Seq(Events) /\ s # <<>> /\ search.results \in Seq(Events)
      /\ search.missing \subseteq Events /\ search.limit \in Int
  BY <1>1, IndexAssumption DEF SearchOK, Reading, Search
<1>3. /\ t \in Seq(Events) /\ Len(t) = Len(s) - 1 /\ e \in Events
      /\ Elements(s) = {e} \cup Elements(t)
      /\ Distinct(s) /\ Distinct(t) /\ e \notin Elements(t)
      /\ Sorted(s) => Sorted(t) /\ \A d \in Elements(t) : Newer(e, d)
  BY <1>2, TailIs DEF SearchOK, Once
<1>4. /\ Elements(search.results) \cap Elements(s) = {} /\ Distinct(search.results)
      /\ Todo = Elements(s)
  BY DEF SearchOK, Once, Todo
<1>5. /\ Append(search.results, e) \in Seq(Events)
      /\ Len(Append(search.results, e)) = Len(search.results) + 1
      /\ Elements(Append(search.results, e)) = Elements(search.results) \cup {e}
      /\ Distinct(Append(search.results, e))
      /\ Sorted(search.results) /\ (\A d \in Elements(search.results) : Newer(d, e))
           => Sorted(Append(search.results, e))
  <2>1. e \notin Elements(search.results)
    BY <1>3, <1>4
  <2> HIDE DEF e
  <2> QED  BY <1>2, <1>3, <1>4, <2>1, AppendIs
<1>6. /\ r \in Seq(Events) /\ Distinct(r)
      /\ Elements(r) \subseteq Elements(search.results) \cup {e}
      /\ Elements(r) \cup gone = Elements(search.results) \cup search.missing \cup {e}
      /\ Elements(search.results) \subseteq Elements(r)
      /\ Sorted(search.results) /\ (\A d \in Elements(search.results) : Newer(d, e))
           => Sorted(r)
  <2> HIDE DEF e
  <2> QED  BY <1>2, <1>4, <1>5
<1>7. Len(r) \in Nat /\ Len(r) + Len(t) <= Len(search.results) + Len(s)
  <2>1. Len(search.results) \in Nat /\ Len(s) \in Nat /\ Len(t) = Len(s) - 1
    BY <1>2, <1>3
  <2>2. Len(r) \in {Len(search.results), Len(search.results) + 1}
    BY <1>5
  <2> HIDE DEF r, t, s
  <2> QED  BY <2>1, <2>2
<1>8. Rest = IF t = <<>> THEN "done" ELSE "reading"
  <2>1. Len(s) = 1 <=> t = <<>>
    <3> HIDE DEF t, s
    <3> QED  BY <1>2, <1>3
  <2> QED  BY <2>1 DEF Rest
<1>9. /\ gone \subseteq Events /\ gone \subseteq search.missing \cup {e}
      /\ gone \cap Stored \subseteq search.missing
  BY <1>2, <1>3
<1> HIDE DEF s, e, t, r, gone
<1>10. /\ q \in Search /\ q.phase = Rest /\ q.todo = t /\ q.results = r /\ q.missing = gone
       /\ q.held = search.held /\ q.known = search.known /\ q.query = search.query
       /\ q.limit = search.limit /\ q.failed = search.failed
  BY <1>3, <1>6, <1>8, <1>9 DEF Search
<1> HIDE DEF q
<1>11. Reading'
  BY <1>1, <1>8, <1>10 DEF Reading
<1>12. Sound'
  BY <1>1, <1>3, <1>4, <1>6, <1>9, <1>10 DEF SearchOK, Sound, Todo
<1>13. Once'
  <2>1. Distinct(r) /\ Distinct(t) /\ Elements(r) \cap Elements(t) = {}
    BY <1>3, <1>4, <1>6
  <2>2. search.limit >= 1 => Len(r) + Len(t) <= search.limit
    <3>1. search.limit >= 1 => Len(search.results) + Len(s) <= search.limit
      BY DEF SearchOK, Once, s
    <3>2. /\ Len(search.results) \in Nat /\ Len(s) \in Nat /\ Len(t) \in Int
          /\ search.limit \in Int
      BY <1>2, <1>3
    <3> QED  BY <1>7, <3>1, <3>2
  <2> QED  BY <1>1, <1>10, <2>1, <2>2 DEF Once, Todo
<1>14. Elements(search.results) \cup search.missing \cup Todo
         = Elements(r) \cup gone \cup Elements(t)
  BY <1>3, <1>4, <1>6
<1>15. InOrder'
  <2>1. SUFFICES ASSUME search.query = {}
        PROVE  /\ Sorted(r) /\ Sorted(t)
               /\ \A d \in Elements(r), c \in Elements(t) : Newer(d, c)
               /\ \A c \in Elements(r) \cup Elements(t) :
                    NewerIn(c, search.held) \subseteq Elements(r) \cup gone \cup Elements(t)
    BY <1>1, <1>10 DEF InOrder, Todo
  <2>2. /\ Sorted(search.results) /\ Sorted(s)
        /\ \A d \in Elements(search.results), c \in Elements(s) : Newer(d, c)
    BY <1>4, <2>1 DEF SearchOK, InOrder, s
  <2>3. \A c \in Elements(search.results) \cup Todo :
           NewerIn(c, search.held) \subseteq Elements(r) \cup gone \cup Elements(t)
    BY <1>14, <2>1 DEF SearchOK, InOrder
  <2> QED  BY <1>3, <1>4, <1>6, <2>2, <2>3
<1>16. Stored' = Stored
  BY <1>1 DEF Stored
<1>17. Complete'
  BY <1>1, <1>10, <1>14, <1>16 DEF SearchOK, Complete, Todo
<1>18. Gone'
  BY <1>1, <1>9, <1>10, <1>16 DEF SearchOK, Gone
<1> QED  BY <1>1, <1>10, <1>11, <1>12, <1>13, <1>15, <1>17, <1>18 DEF SearchOK

LEMMA FailsKeeps ==
    ASSUME SearchOK, search \in Search, Fails
    PROVE  search' \in Search /\ SearchOK'
<1> DEFINE q == [search EXCEPT !.phase = "done", !.todo = <<>>, !.results = <<>>,
                               !.failed = TRUE]
<1>1. search' = q /\ UNCHANGED <<now, message, indexed, lost>>
  BY DEF Fails, redisVars
<1>2. /\ q \in Search /\ q.phase = "done" /\ q.todo = <<>> /\ q.results = <<>> /\ q.failed
      /\ q.held = search.held /\ q.known = search.known /\ q.missing = search.missing
      /\ q.query = search.query /\ q.limit = search.limit /\ q.limit \in Int
  BY EmptyIs, IndexAssumption DEF Search
<1> HIDE DEF q
<1>3. Stored' = Stored
  BY <1>1 DEF Stored
<1>4. Reading' /\ Sound' /\ Complete' /\ Gone'
  BY <1>1, <1>2, <1>3, EmptyIs DEF SearchOK, Reading, Sound, Complete, Gone, Todo
<1>5. Once' /\ InOrder'
  BY <1>1, <1>2, EmptyIs DEF Once, InOrder, Todo
<1> QED  BY <1>1, <1>2, <1>4, <1>5 DEF SearchOK

-----------------------------------------------------------------------------
LEMMA Typing == TypeOK <=> StoreTypeOK /\ search \in Search
  BY DEF TypeOK, StoreTypeOK

LEMMA InitIInv == Init => IInv
<1> SUFFICES ASSUME Init PROVE IInv
  OBVIOUS
<1> DEFINE limit == CHOOSE l \in Limits : TRUE
           q == [Called({}, limit) EXCEPT !.phase = "idle"]
<1>1. search = q /\ indexed = {} /\ lost = {} /\ timeline = {} /\ now = 0 /\ faults = 0
  BY DEF Init
<1>2. limit \in Limits /\ limit \in Int
  BY IndexAssumption
<1> HIDE DEF limit
<1>3. /\ q \in Search
      /\ q.phase = "idle" /\ q.todo = <<>> /\ q.results = <<>> /\ q.known = {}
      /\ q.held = {} /\ q.missing = {} /\ q.limit \in Int
  BY <1>1, <1>2, EmptyIs DEF Called, Search
<1> HIDE DEF q
<1>4. StoreTypeOK
  <2>1. now \in 0 .. MaxNow /\ faults \in 0 .. MaxFaults
    BY <1>1, Constants
  <2>2. Cardinality(timeline) <= Cap
    BY <1>1, Constants, FS_EmptySet
  <2> QED  BY <1>1, <2>1, <2>2 DEF Init, StoreTypeOK
<1>5. IndexOK
  <2>1. \A e \in Events : message[e] = 0 /\ ~(0 > 0) /\ 0 <= now + Retention
                          /\ ~(message[e] > now)
    BY <1>1, Constants DEF Init
  <2>2. Recorded
    BY <1>1, <2>1, FS_EmptySet DEF Recorded
  <2>3. ByField
    BY <1>1, <2>1 DEF Init, ByField
  <2>4. TimelineIsRecent
    BY <1>1 DEF TimelineIsRecent
  <2> QED  BY <2>2, <2>3, <2>4 DEF IndexOK
<1>6. Reading /\ Sound /\ Complete /\ Gone
  BY <1>1, <1>3, EmptyIs DEF Reading, Sound, Complete, Gone, Todo
<1>7. Once /\ InOrder
  BY <1>1, <1>3, EmptyIs DEF Once, InOrder, Todo
<1> QED  BY <1>1, <1>3, <1>4, <1>5, <1>6, <1>7, Typing DEF IInv, SearchOK

\* A step of the store: what it indexes is new, and it revives no message.
LEMMA StoreStepKeeps ==
    ASSUME IInv,
           \/ \E e \in Events : Index(e) \/ IndexFails(e) \/ EvictMessage(e)
           \/ \E f \in Fields : EvictSet(f)
           \/ EvictTimeline \/ RestartRedis \/ Tick
    PROVE  IInv'
<1>1. StoreTypeOK /\ search \in Search /\ IndexOK /\ SearchOK
  BY Typing DEF IInv
<1>2. StoreTypeOK' /\ IndexOK'
  BY <1>1, IndexKeepsStore, DropsKeepStore
<1>3. /\ search' = search /\ indexed \subseteq indexed'
      /\ lost' \in {lost, indexed} \cup {lost \cup {e} : e \in Events}
  BY DEF Index, IndexFails, EvictMessage, EvictSet, EvictTimeline, RestartRedis, Tick
<1>4. lost \subseteq lost'
  BY <1>1, <1>3 DEF StoreTypeOK
<1>5. indexed \cap Stored' \subseteq Stored
  <2>0. now \in Nat /\ \A e \in Events : message[e] \in Nat
    BY <1>1, Constants DEF StoreTypeOK
  <2>1. now' = now \/ now' = now + 1
    BY DEF Index, IndexFails, EvictMessage, EvictSet, EvictTimeline, RestartRedis, Tick
  <2>2. \A e \in indexed : e \in Events =>
          message'[e] = message[e] \/ message'[e] = 0
    BY <1>1 DEF StoreTypeOK, Index, IndexFails, EvictMessage, EvictSet,
       EvictTimeline, RestartRedis, Tick, redisVars
  <2>3. \A e \in indexed : e \in Events /\ message'[e] > now' => message[e] > now
    BY <2>0, <2>1, <2>2
  <2> QED  BY <2>3 DEF Stored
<1>6. SearchOK'
  BY <1>1, <1>3, <1>4, <1>5, AroundTheSearch
<1>7. TypeOK'
  BY <1>1, <1>2, <1>3 DEF TypeOK, StoreTypeOK
<1> QED  BY <1>2, <1>6, <1>7 DEF IInv

\* A step of the search writes nothing to the store.
LEMMA SearchStepKeeps ==
    ASSUME IInv,
           \/ \E query \in Queries \cup {{}}, limit \in Limits : Call(query, limit)
           \/ FindFiltered \/ FindLatest \/ Read \/ Fails
    PROVE  IInv'
<1>1. StoreTypeOK /\ search \in Search /\ IndexOK /\ SearchOK
  BY Typing DEF IInv
<1>2. search' \in Search /\ SearchOK'
  BY <1>1, CallKeeps, FindFilteredKeeps, FindLatestKeeps, ReadKeeps, FailsKeeps
<1>3. /\ UNCHANGED <<now, message, members, until, timeline, indexed, lost>>
      /\ faults' = faults \/ Drops
  BY DEF Call, FindFiltered, FindLatest, Read, Fails, Drops, redisVars
<1>4. faults' \in 0 .. MaxFaults
  BY <1>1, <1>3, Constants DEF StoreTypeOK, Drops
<1>5. TypeOK'
  BY <1>1, <1>2, <1>3, <1>4 DEF TypeOK, StoreTypeOK
<1>6. IndexOK'
  BY <1>1, <1>3 DEF IndexOK, Recorded, ByField, TimelineIsRecent, NewerIn
<1> QED  BY <1>2, <1>5, <1>6 DEF IInv

LEMMA StepIInv == IInv /\ [Next]_vars => IInv'
<1> SUFFICES ASSUME IInv, [Next]_vars PROVE IInv'
  OBVIOUS
<1>1. CASE Next
  BY <1>1, StoreStepKeeps, SearchStepKeeps DEF Next
<1>2. CASE UNCHANGED vars
  <2>1. UNCHANGED <<now, faults, message, members, until, timeline, indexed, lost, search>>
    BY <1>2 DEF vars, redisVars
  <2>2. TypeOK'
    BY <2>1 DEF IInv, TypeOK
  <2>3. IndexOK'
    BY <2>1 DEF IInv, IndexOK, Recorded, ByField, TimelineIsRecent, NewerIn
  <2>4. Stored' = Stored
    BY <2>1 DEF Stored
  <2>5. SearchOK'
    BY <2>1, <2>4, AroundTheSearch DEF IInv
  <2> QED  BY <2>2, <2>3, <2>5 DEF IInv
<1> QED  BY <1>1, <1>2

\* The store and the search are in the states the invariant describes, whatever
\* index_event, search and Redis do in between.
THEOREM Invariant == Spec => []IInv
<1> QED  BY InitIInv, StepIInv, PTL DEF Spec

\* TypeOK: the variables keep their types, the timeline its cap.
THEOREM TypeCorrect == Spec => []TypeOK
<1>1. IInv => TypeOK
  BY DEF IInv
<1> QED  BY <1>1, Invariant, PTL

\* ResultsMatch: a search shows only indexed events that match, each once, within
\* a positive limit, and without filters the newest first (search).
THEOREM SearchShowsMatches == Spec => []ResultsMatch
<1>1. ASSUME IInv PROVE ResultsMatch
  <2> DEFINE r == search.results
  <2>1. /\ ResultSet = Elements(r) /\ r \in Seq(Events) /\ search.todo \in Seq(Events)
        /\ search.limit \in Int
    BY <1>1, IndexAssumption DEF IInv, TypeOK, Search, ResultSet, Elements
  <2>2. ResultSet \subseteq indexed \cap Matching(search.query)
    BY <1>1, <2>1 DEF IInv, SearchOK, Sound
  <2>3. Cardinality(ResultSet) = Len(r)
    BY <1>1, <2>1, DistinctCounts DEF IInv, SearchOK, Once
  <2>4. search.limit >= 1 => Len(r) <= search.limit
    <3>1. search.limit >= 1 => Len(r) + Len(search.todo) <= search.limit
      BY <1>1 DEF IInv, SearchOK, Once
    <3>2. Len(r) \in Nat /\ Len(search.todo) \in Nat /\ search.limit \in Int
      BY <2>1
    <3>3. \A l \in Int, a, b \in Nat : a + b <= l => a <= l
      OBVIOUS
    <3> QED  BY <3>1, <3>2, <3>3
  <2>5. ASSUME search.query = {}
        PROVE  /\ \A i, j \in DOMAIN r : i < j => Newer(r[i], r[j])
               /\ \A e \in ResultSet :
                    NewerIn(e, search.held) \subseteq ResultSet \cup search.missing
    <3>1. Sorted(r)
      BY <1>1, <2>5 DEF IInv, SearchOK, InOrder
    <3>2. ASSUME NEW e \in ResultSet, NEW d \in NewerIn(e, search.held)
          PROVE  d \in ResultSet \cup search.missing
      <4>1. d \in Elements(r) \cup search.missing \cup Todo
        BY <1>1, <2>1, <2>5 DEF IInv, SearchOK, InOrder
      <4>2. d \in Events /\ e \in Events /\ Newer(d, e)
        BY <1>1, <2>2 DEF IInv, SearchOK, Sound, Matching, NewerIn
      <4>3. d \notin Todo
        BY <1>1, <2>1, <2>5, <4>2, NewerIsTotal DEF IInv, SearchOK, InOrder
      <4> QED  BY <2>1, <4>1, <4>3
    <3> QED  BY <3>1, <3>2 DEF Sorted
  <2> QED  BY <2>2, <2>3, <2>4, <2>5 DEF ResultsMatch
<1> QED  BY <1>1, Invariant, PTL

\* StoredIsFindable: the sets outlive the messages of their events (index_event).
THEOREM MessagesAreFindable == Spec => []StoredIsFindable
<1>1. ASSUME IInv PROVE StoredIsFindable
  <2>1. SUFFICES ASSUME NEW e \in Stored \ lost, NEW f \in FieldsOf[e]
                 PROVE  e \in SetOf(f)
    BY DEF StoredIsFindable
  <2>2. /\ e \in Events /\ f \in Fields /\ message[e] > now
        /\ message[e] \in Nat /\ now \in Nat /\ until[f] \in Nat
    BY <1>1, FieldsAre, Constants DEF IInv, TypeOK, Stored
  <2>3. e \in members[f] /\ until[f] >= message[e]
    BY <1>1, <2>2 DEF IInv, IndexOK, ByField
  <2>4. until[f] > now
    BY <2>2, <2>3
  <2> QED  BY <2>3, <2>4 DEF SetOf
<1> QED  BY <1>1, Invariant, PTL

\* TimelineIsRecent: an event leaves the timeline only for newer ones, in
\* whatever order events are indexed (index_event).
THEOREM TimelineKeepsRecent == Spec => []TimelineIsRecent
<1>1. IInv => TimelineIsRecent
  BY DEF IInv, IndexOK
<1> QED  BY <1>1, Invariant, PTL

\* FilteredIsComplete: no command, expiry or eviction between those of a filtered
\* search hides a stored match from it (search).
THEOREM FilteredFindsAll == Spec => []FilteredIsComplete
<1>1. ASSUME IInv PROVE FilteredIsComplete
  <2>1. SUFFICES ASSUME search.phase = "done", search.query # {}, ~search.failed,
                        search.limit >= Cardinality(search.held)
                 PROVE  ((search.known \cap Matching(search.query) \cap Stored) \ lost)
                          \subseteq ResultSet
    BY DEF FilteredIsComplete
  <2>2. search.todo = <<>>
    BY <1>1, <2>1 DEF IInv, SearchOK, Reading
  <2>3. Todo = {} /\ ResultSet = Elements(search.results)
    BY <2>2, EmptyIs DEF Todo, ResultSet, Elements
  <2> QED  BY <1>1, <2>1, <2>3 DEF IInv, SearchOK, Complete, Gone
<1> QED  BY <1>1, Invariant, PTL
=============================================================================
