---------------------------- MODULE AuditQueries ----------------------------
(***************************************************************************)
(* The reads of the ring buffer (backend/services/audit_store.py): the     *)
(* summary behind /audit-summary, and the list with its filters and pages  *)
(* and the trace of a correlation id, which no endpoint serves yet.  Each  *)
(* read copies the buffer under the lock and computes on the copy, so it   *)
(* is an operator of `events`.                                             *)
(***************************************************************************)
EXTENDS AuditStore

CONSTANTS BodyOf,   \* the event behind an id: its timestamp `ts` (0: none), the
                    \* key it sorts by, actor, action, type and correlation id
          NoCid,    \* an event without a correlation id
          Filters,  \* the filters of the requests
          PageCap,  \* the largest page (2000)
          RecentCap \* how many correlations the summary lists (25)

\* No field has the value that leaves a filter open.
ASSUME QueryAssumption ==
    /\ \A id \in Ids : /\ BodyOf[id].ts \in Nat /\ BodyOf[id].key \in Nat
                       /\ BodyOf[id].ts \in {0, BodyOf[id].key}
                       /\ BodyOf[id].cid # "any"
    /\ PageCap \in Nat \ {0} /\ RecentCap \in Nat

\* The timestamp, or when there is none the time of ingestion; ISO strings
\* compare like the numbers that stand for them here.
Key(rec)  == BodyOf[rec.id].key
Ts(rec)   == BodyOf[rec.id].ts
Type(rec) == BodyOf[rec.id].type
Cid(rec)  == BodyOf[rec.id].cid

-----------------------------------------------------------------------------
\* The elements at some places of s, as the order of these places says.
Arranged(s, at, order) ==
    [n \in 1 .. Cardinality(at) |->
       s[CHOOSE i \in at : Cardinality({k \in at : <<k, i>> \in order}) = n]]

\* A list comprehension keeps the order of the list.
Kept(s, at) == Arranged(s, at, {e \in at \X at : e[1] <= e[2]})

\* list.sort is stable: what Less leaves open keeps the order of the buffer.
StableSort(evs, Less(_, _)) ==
    Arranged(evs, 1 .. Len(evs),
             {e \in (1 .. Len(evs)) \X (1 .. Len(evs)) :
                \/ Less(evs[e[1]], evs[e[2]])
                \/ ~Less(evs[e[2]], evs[e[1]]) /\ e[1] <= e[2]})

\* items.sort(key = timestamp, reverse = True), and without reverse.
NewestFirst(evs) == StableSort(evs, LAMBDA a, b : Key(a) > Key(b))
OldestFirst(evs) == StableSort(evs, LAMBDA a, b : Key(a) < Key(b))

\* A filter names an actor, an action, a type, a correlation id or a source, or
\* leaves it open; the time window (0: no bound) is inclusive and lets events
\* without a timestamp through.  Resource and signature are compared in the same way.
Matches(rec, f) == /\ f.actor \in {"any", BodyOf[rec.id].actor}
                   /\ f.action \in {"any", BodyOf[rec.id].action}
                   /\ f.type \in {"any", Type(rec)}
                   /\ f.cid \in {"any", Cid(rec)}
                   /\ f.source \in {"any", rec.source}
                   /\ Ts(rec) # 0 => /\ f.from <= Ts(rec)
                                      /\ (f.to = 0 \/ Ts(rec) <= f.to)

\* The matches in a sorted copy of the buffer.
Filtered(items, f) == Kept(items, {i \in DOMAIN items : Matches(items[i], f)})

AtLeastZero(n) == IF n < 0 THEN 0 ELSE n
PageSize(limit) == AtLeastZero(IF limit < PageCap THEN limit ELSE PageCap)

\* Faulty variant: the end of the slice is included.
PageInclusive(s, limit, offset) ==
    LET start == AtLeastZero(offset)
        end   == start + PageSize(limit) + 1
    IN SubSeq(s, start + 1, IF end < Len(s) THEN end ELSE Len(s))

\* filtered[start:end], with the limit capped and nothing below zero.
Page(s, limit, offset) ==
    LET start == AtLeastZero(offset)
        end   == start + PageSize(limit)
    IN SubSeq(s, start + 1, IF end < Len(s) THEN end ELSE Len(s))

\* AuditEventStore.list: the page of `limit` events from `offset`, and the number
\* of matches.
List(matching, limit, offset) ==
    [items |-> Page(matching, limit, offset), total |-> Len(matching)]

\* AuditEventStore.trace_by_correlation
TraceByCorrelation(cid) ==
    OldestFirst(Kept(events, {i \in DOMAIN events : Cid(events[i]) = cid}))

\* Faulty variant: the last arrival is taken for the latest event.
CorrelatedByArrival(acc, rec) ==
    IF Cid(rec) = NoCid THEN acc
    ELSE [acc EXCEPT ![Cid(rec)] =
            [events |-> @.events + 1,
             first  |-> IF @.events = 0 \/ Key(rec) < @.first THEN Key(rec) ELSE @.first,
             last   |-> IF Key(rec) > @.last THEN Key(rec) ELSE @.last,
             lastType |-> Type(rec)]]

\* One step of the loop of summary over the buffer, oldest arrival first: the
\* entry of a correlation is opened by its first record, and a later record
\* moves its ends; the last event type follows the newest timestamp.
Correlated(acc, rec) ==
    IF Cid(rec) = NoCid THEN acc
    ELSE IF acc[Cid(rec)].events = 0
         THEN [acc EXCEPT ![Cid(rec)] =
                 [events |-> 1, first |-> Key(rec), last |-> Key(rec),
                  lastType |-> Type(rec)]]
         ELSE [acc EXCEPT ![Cid(rec)] =
                 [events   |-> @.events + 1,
                  first    |-> IF Key(rec) < @.first THEN Key(rec) ELSE @.first,
                  last     |-> IF Key(rec) > @.last THEN Key(rec) ELSE @.last,
                  lastType |-> IF Key(rec) > @.last THEN Type(rec) ELSE @.lastType]]

Cids == {BodyOf[id].cid : id \in Ids} \ {NoCid}

\* What the loop has gathered after n records.
Gathered[n \in 0 .. Len(events)] ==
    IF n = 0 THEN [c \in Cids |-> [events |-> 0, first |-> 0, last |-> 0, lastType |-> "none"]]
    ELSE Correlated(Gathered[n - 1], events[n])

Correlations == Gathered[Len(events)]

\* Where the entries were opened: the order of the dict they are kept in.
Opening == {i \in DOMAIN events :
              /\ Cid(events[i]) # NoCid
              /\ \A k \in 1 .. i - 1 : Cid(events[k]) # Cid(events[i])}

\* sorted by last_seen, in reverse, which keeps the order of equals.
LatestFirst(says) ==
    {e \in Opening \X Opening :
       LET a == says[Cid(events[e[1]])].last
           b == says[Cid(events[e[2]])].last
       IN a > b \/ (a = b /\ e[1] <= e[2])}

\* recent_correlations: the entries so sorted, cut after RecentCap.
RecentCorrelations ==
    LET says   == Correlations
        sorted == Arranged(events, Opening, LatestFirst(says))
    IN [n \in 1 .. (IF Len(sorted) < RecentCap THEN Len(sorted) ELSE RecentCap) |->
          [cid |-> Cid(sorted[n]), says |-> says[Cid(sorted[n])]]]

-----------------------------------------------------------------------------
Open == [actor |-> "any", action |-> "any", type |-> "any", cid |-> "any",
         source |-> "any", from |-> 0, to |-> 0]

\* The n-th page of a buffer that does not change.
NthPage(matching, limit, n) == List(matching, limit, (n - 1) * PageSize(limit)).items

\* What the n-th page shows, line by line.
PageShows(n, page) == {[page |-> n, line |-> i, record |-> page[i]] : i \in DOMAIN page}

\* Reading a still buffer page by page shows every match exactly once, newest
\* first, and nothing else, and counts them right, for every filter and page
\* size, also above the cap (list).
PagesAreRight(f, limit) ==
    LET matching == Filtered(NewestFirst(events), f)
        found    == {k \in DOMAIN events : Matches(events[k], f)}
        shown    == UNION {PageShows(n, NthPage(matching, limit, n)) : n \in 1 .. Len(events)}
    IN /\ \A k \in found : \E x \in shown :
            /\ x.record = events[k]
            /\ \A y \in shown : y.record.id = events[k].id => y = x
       /\ \A x \in shown : \E k \in found : x.record = events[k]
       /\ \A x, y \in shown :
            x.page < y.page \/ (x.page = y.page /\ x.line < y.line) =>
              Key(x.record) >= Key(y.record)
       /\ List(matching, limit, 0).total = Cardinality(found)

\* The trace of a correlation is the list filtered by it the other way round, up
\* to the order of records of one instant (trace_by_correlation).
TraceIsListReversed(c) ==
    LET trace  == TraceByCorrelation(c)
        listed == Filtered(NewestFirst(events), [Open EXCEPT !.cid = c])
    IN /\ Len(trace) = Len(listed)
       /\ \A i \in DOMAIN trace : Key(trace[i]) = Key(listed[Len(listed) + 1 - i])

\* Whatever add left in the buffer, its pages and its traces show the matches.
ReadsShowTheMatches ==
    /\ \A f \in Filters, limit \in 1 .. PageCap + 1 : PagesAreRight(f, limit)
    /\ \A c \in Cids : TraceIsListReversed(c)

\* What an entry must say of the records of its correlation.
EntryIsRight(c, entry) ==
    LET mine == {i \in DOMAIN events : Cid(events[i]) = c}
    IN /\ entry.events = Cardinality(mine)
       /\ \E i \in mine : Key(events[i]) = entry.first
       /\ \E i \in mine : Key(events[i]) = entry.last /\ Type(events[i]) = entry.lastType
       /\ \A i \in mine : entry.first <= Key(events[i]) /\ Key(events[i]) <= entry.last

\* The summary lists the correlations seen last, each once, the latest first,
\* and what it says of each is right, although events arrive out of the order of
\* their timestamps and the buffer is read in arrival order (summary).
SummaryIsRight ==
    LET recent == RecentCorrelations
        listed == {recent[n].cid : n \in DOMAIN recent}
    IN /\ \A n \in DOMAIN recent : EntryIsRight(recent[n].cid, recent[n].says)
       /\ \A m, n \in DOMAIN recent :
            m < n => /\ recent[m].cid # recent[n].cid
                     /\ recent[m].says.last >= recent[n].says.last
       /\ \A i \in DOMAIN events : Cid(events[i]) \notin listed \cup {NoCid} =>
            /\ Len(recent) = RecentCap
            /\ \A n \in DOMAIN recent : recent[n].says.last >= Key(events[i])
=============================================================================
