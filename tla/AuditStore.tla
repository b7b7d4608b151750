----------------------------- MODULE AuditStore -----------------------------
(***************************************************************************)
(* AuditEventStore (backend/services/audit_store.py): the ring buffer      *)
(* behind /audit-summary.  Every event arrives twice, mirrored by log_event*)
(* and again through Kafka, at any distance and any number of times; the   *)
(* buffer keeps one record of it.  The lock is never held across a         *)
(* suspension, so a call is one step.                                      *)
(***************************************************************************)
EXTENDS Naturals, Sequences, FiniteSets

CONSTANTS Ids,         \* event ids (uuid4, or read from a Kafka message)
          MaxLen,      \* maxlen of the deque (5000)
          SeenFactor,  \* how many buffers of ids are remembered (3)
          MaxArrivals  \* bound: records appended in a behaviour

ASSUME StoreAssumption ==
    /\ MaxLen \in Nat \ {0} /\ SeenFactor \in Nat \ {0}
    /\ MaxArrivals \in Nat

VARIABLES events,   \* _events, oldest first
          seen,     \* _seen_ids
          born,     \* history: the ids log_event has drawn
          arrivals  \* history: the ids of the records appended, in order

storeVars == <<events, seen>>
vars == <<events, seen, born, arrivals>>

Sources == {"local", "kafka"}
Record == [id : Ids, source : Sources, signed : {"none", "valid", "invalid"}]

IdsOf(evs) == {evs[i].id : i \in DOMAIN evs}

-----------------------------------------------------------------------------
\* Faulty variant: a list without a bound.
AppendedUnbounded(evs, rec) == Append(evs, rec)

\* deque(maxlen).append: the oldest record makes room.
Appended(evs, rec) ==
    Append(IF Len(evs) < MaxLen THEN evs ELSE Tail(evs), rec)

\* Faulty variant: the upgraded record moves to the end.
UpgradedAtTheEnd(evs, rec) ==
    LET Other(r) == r.id # rec.id IN
    IF rec.source = "kafka" /\ Len(SelectSeq(evs, Other)) < Len(evs)
    THEN Append(SelectSeq(evs, Other), rec) ELSE evs

\* A repeated id: only a Kafka copy counts, and only if the record is still
\* buffered, where it takes over every field.
Upgraded(evs, rec) ==
    IF rec.source = "kafka"
    THEN [i \in DOMAIN evs |-> IF evs[i].id = rec.id THEN rec ELSE evs[i]]
    ELSE evs

\* Faulty variants: everything is forgotten; the rebuild comes too late.
RememberedNothing(ids, evs) == IF Cardinality(ids) > SeenFactor * MaxLen THEN {} ELSE ids
RememberedLate(ids, evs) ==
    IF Cardinality(ids) > SeenFactor * MaxLen + 1 THEN IdsOf(evs) ELSE ids

\* The seen ids are rebuilt from the buffer when there are too many.
Remembered(ids, evs) ==
    IF Cardinality(ids) > SeenFactor * MaxLen THEN IdsOf(evs) ELSE ids

Fresh(rec) == rec.id \notin seen

\* AuditEventStore.add
Add(rec) ==
    IF Fresh(rec)
    THEN /\ events' = Appended(events, rec)
         /\ seen' = Remembered(seen \cup {rec.id}, events')
    ELSE /\ events' = Upgraded(events, rec)
         /\ UNCHANGED seen

-----------------------------------------------------------------------------
Init == /\ events = <<>>
        /\ seen = {}
        /\ born = {}
        /\ arrivals = <<>>

\* History: what was appended.
Arrive(rec) ==
    IF Fresh(rec)
    THEN Len(arrivals) < MaxArrivals /\ arrivals' = Append(arrivals, rec.id)
    ELSE UNCHANGED arrivals

\* log_event mirrors an event under the id it has just drawn.
AddLocal(id) ==
    LET rec == [id |-> id, source |-> "local", signed |-> "none"] IN
    /\ id \notin born
    /\ born' = born \cup {id}
    /\ Add(rec) /\ Arrive(rec)

\* The consumer adds what it read: a copy of any event, of this process or of
\* an earlier one, with or without a good signature.
AddKafka(id, signed) ==
    LET rec == [id |-> id, source |-> "kafka", signed |-> signed] IN
    /\ born' = born \cup {id}
    /\ Add(rec) /\ Arrive(rec)

Next == \E id \in Ids :
          \/ AddLocal(id)
          \/ \E signed \in {"valid", "invalid"} : AddKafka(id, signed)

Spec == Init /\ [][Next]_vars

-----------------------------------------------------------------------------
TypeOK == /\ events \in Seq(Record)
          /\ Len(events) <= MaxLen
          /\ seen \subseteq Ids
          /\ born \subseteq Ids
          /\ arrivals \in Seq(Ids)

\* An event is shown once, however often and however late its copies arrive,
\* also after the seen ids were rebuilt (AuditEventStore.add).
OneRecordPerEvent ==
    \A i, j \in DOMAIN events : events[i].id = events[j].id => i = j

\* The seen ids cover the buffer, so that no buffered event can be added
\* again, and stay within SeenFactor buffers.
SeenCoversBuffer == IdsOf(events) \subseteq seen /\ Cardinality(seen) <= SeenFactor * MaxLen

\* The buffer holds the most recent arrivals, in order: upgrading a record
\* neither moves it nor costs another its place.
BufferIsRecent ==
    LET gone == Len(arrivals) - Len(events) IN
    /\ gone >= 0
    /\ \A i \in DOMAIN events : events[i].id = arrivals[gone + i]
    /\ gone > 0 => Len(events) = MaxLen
=============================================================================
