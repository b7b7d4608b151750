----------------------------- MODULE AuditIndex -----------------------------
(***************************************************************************)
(* The audit index in Redis (backend/services/audit_indexer.py): index_    *)
(* event writes a message hash, two index sets and the timeline in one     *)
(* transaction; search, behind /audit/search and /audit-events, reads them *)
(* with one command per await.  Between two commands events are indexed,   *)
(* keys expire, and Redis evicts keys or restarts empty.                   *)
(***************************************************************************)
EXTENDS Integers, Sequences, FiniteSets, Functions

CONSTANTS Events,     \* event ids
          FieldsOf,   \* the index keys of each event: its actor, its action
          RankOf,     \* the place of an event by timestamp, then id
          Queries,    \* the filters of searches: sets of index keys
          Limits,     \* the limits of searches
          Retention,  \* 2592000 s
          Cap,        \* the timeline keeps as many events (10000)
          MaxNow,     \* bound: the clock stops there
          MaxFaults   \* bound: evictions, restarts and errors of Redis

Fields == UNION {FieldsOf[e] : e \in Events}

ASSUME IndexAssumption ==
    /\ RankOf \in [Events -> Nat]
    /\ \A d, e \in Events : RankOf[d] = RankOf[e] => d = e
    /\ \A query \in Queries : query \subseteq Fields
    /\ Limits \subseteq Int /\ Limits # {}
    /\ {Retention, Cap} \subseteq Nat \ {0} /\ {MaxNow, MaxFaults} \subseteq Nat

VARIABLES now, faults,
          message,  \* audit:msg:<id>: until when the hash is kept, 0: none
          members,  \* audit:idx:<field>: the ids in the set
          until,    \* audit:idx:<field>: until when the set is kept
          timeline, \* audit:timeline: the ids in the sorted set
          indexed,  \* history: the events that index_event has written
          lost,     \* history: those whose entries Redis may have dropped
          search    \* a search

redisVars == <<message, members, until, timeline>>
vars == <<now, faults, redisVars, indexed, lost, search>>

Search == [phase : {"idle", "called", "reading", "done"},
           query : Queries \cup {{}}, limit : Limits,
           todo : Seq(Events),      \* final_ids that are still to be read
           results : Seq(Events),
           failed : BOOLEAN,
           known : SUBSET Events,   \* history: indexed when it was called
           held : SUBSET Events,    \* history: what the first command returned
           missing : SUBSET Events] \* history: messages that were not there

Called(query, limit) ==
    [phase |-> "called", query |-> query, limit |-> limit, todo |-> <<>>,
     results |-> <<>>, failed |-> FALSE, known |-> indexed, held |-> {},
     missing |-> {}]

\* What Redis answers: a key that has expired is not there.
Stored == {e \in Events : message[e] > now}
SetOf(field) == IF until[field] > now THEN members[field] ELSE {}

Newer(d, e) == RankOf[d] > RankOf[e]
NewerIn(e, ids) == {d \in ids : Newer(d, e)}

-----------------------------------------------------------------------------
Init == /\ now = 0 /\ faults = 0
        /\ message = [e \in Events |-> 0]
        /\ members = [f \in Fields |-> {}] /\ until = [f \in Fields |-> 0]
        /\ timeline = {}
        /\ indexed = {} /\ lost = {}
        /\ search = [Called({}, CHOOSE l \in Limits : TRUE) EXCEPT !.phase = "idle"]

\* Faulty variants: the oldest events are kept; nothing is trimmed.
TrimmedNewest(ids) == {e \in ids : Cardinality(ids \ NewerIn(e, ids)) <= Cap}
Untrimmed(ids) == ids

\* zremrangebyrank 0 -10001: the events of the highest scores stay.
Trimmed(ids) == {e \in ids : Cardinality(NewerIn(e, ids)) < Cap}

\* Faulty variant: the life of a set counts from its creation.
ExpiryOnce(field) == IF until[field] > now THEN until[field] ELSE now + Retention

\* expire after each sadd: the set lives as long as its youngest message.
Expiry(field) == now + Retention

\* index_event: one MULTI/EXEC.
Index(e) ==
    /\ e \notin indexed
    /\ indexed' = indexed \cup {e}
    /\ message' = [message EXCEPT ![e] = now + Retention]
    /\ members' = [f \in Fields |-> IF f \in FieldsOf[e] THEN SetOf(f) \cup {e}
                                    ELSE members[f]]
    /\ until' = [f \in Fields |-> IF f \in FieldsOf[e] THEN Expiry(f) ELSE until[f]]
    /\ timeline' = Trimmed(timeline \cup {e})
    /\ UNCHANGED <<now, faults, lost, search>>

-----------------------------------------------------------------------------
(* RedisAuditIndexer.search.                                               *)

\* Bound: one search is made; searches change nothing in Redis.
Call(query, limit) ==
    /\ search.phase = "idle"
    /\ search' = Called(query, limit)
    /\ UNCHANGED <<now, faults, redisVars, indexed, lost>>

Between(low, n, high) == IF n < low THEN low ELSE IF n > high THEN high ELSE n

\* list(ids)[:limit]: a negative limit leaves so many out.
Sliced(limit, n) == Between(0, IF limit < 0 THEN n + limit ELSE limit, n)

\* zrevrange 0 limit-1: so does any limit below 1.
Ranged(limit, n) == Between(0, IF limit < 1 THEN n + limit ELSE limit, n)

\* Faulty variant: any of the filters suffices.
CandidatesOfAny(query) == UNION {SetOf(f) : f \in query}

\* sinter
Candidates(query) == {e \in Events : \A f \in query : e \in SetOf(f)}

NewestFirst(ids) ==
    [n \in 1 .. Cardinality(ids) |->
       CHOOSE e \in ids : Cardinality(NewerIn(e, ids)) = n - 1]

Found(ids, todo) ==
    search' = [search EXCEPT !.phase = IF todo = <<>> THEN "done" ELSE "reading",
                             !.todo = todo, !.held = ids]

\* The intersection of the filters, in the order of a Python set: any.
FindFiltered ==
    /\ search.phase = "called" /\ search.query # {}
    /\ LET ids == Candidates(search.query)
       IN \E todo \in Injection(1 .. Sliced(search.limit, Cardinality(ids)), ids) :
            Found(ids, todo)
    /\ UNCHANGED <<now, faults, redisVars, indexed, lost>>

FindLatest ==
    /\ search.phase = "called" /\ search.query = {}
    /\ Found(timeline, SubSeq(NewestFirst(timeline), 1,
                              Ranged(search.limit, Cardinality(timeline))))
    /\ UNCHANGED <<now, faults, redisVars, indexed, lost>>

Rest == IF Len(search.todo) = 1 THEN "done" ELSE "reading"

\* Faulty variant: the first message that is gone ends the search.
ReadStops ==
    /\ search.phase = "reading"
    /\ LET e == Head(search.todo) IN
       search' = IF e \in Stored
                 THEN [search EXCEPT !.phase = Rest, !.todo = Tail(@),
                                     !.results = Append(@, e)]
                 ELSE [search EXCEPT !.phase = "done", !.todo = <<>>,
                                     !.missing = @ \cup {e}]
    /\ UNCHANGED <<now, faults, redisVars, indexed, lost>>

\* hget of the next id; a message that is gone is passed over.
Read ==
    /\ search.phase = "reading"
    /\ LET e == Head(search.todo) IN
       search' = [search EXCEPT
                    !.phase = Rest, !.todo = Tail(@),
                    !.results = IF e \in Stored THEN Append(@, e) ELSE @,
                    !.missing = IF e \in Stored THEN @ ELSE @ \cup {e}]
    /\ UNCHANGED <<now, faults, redisVars, indexed, lost>>

\* Any command raises: what was read is dropped, the answer is [].
Fails ==
    /\ search.phase \in {"called", "reading"}
    /\ faults < MaxFaults /\ faults' = faults + 1
    /\ search' = [search EXCEPT !.phase = "done", !.todo = <<>>, !.results = <<>>,
                                !.failed = TRUE]
    /\ UNCHANGED <<now, redisVars, indexed, lost>>

-----------------------------------------------------------------------------
(* Redis: maxmemory-policy allkeys-lru, no persistence.                    *)

Drops == faults < MaxFaults /\ faults' = faults + 1

EvictMessage(e) == /\ Drops /\ e \in Stored
                   /\ message' = [message EXCEPT ![e] = 0]
                   /\ UNCHANGED <<now, members, until, timeline, indexed, lost, search>>

EvictSet(f) == /\ Drops /\ SetOf(f) # {}
               /\ until' = [until EXCEPT ![f] = 0]
               /\ members' = [members EXCEPT ![f] = {}]
               /\ lost' = indexed
               /\ UNCHANGED <<now, message, timeline, indexed, search>>

EvictTimeline == /\ Drops /\ timeline # {}
                 /\ timeline' = {}
                 /\ lost' = indexed
                 /\ UNCHANGED <<now, message, members, until, indexed, search>>

RestartRedis == /\ Drops /\ indexed # {}
                /\ message' = [e \in Events |-> 0]
                /\ members' = [f \in Fields |-> {}] /\ until' = [f \in Fields |-> 0]
                /\ timeline' = {}
                /\ lost' = indexed
                /\ UNCHANGED <<now, indexed, search>>

\* index_event gives up on an error: the event is never indexed.
IndexFails(e) == /\ e \notin indexed /\ Drops
                 /\ indexed' = indexed \cup {e}
                 /\ lost' = lost \cup {e}
                 /\ UNCHANGED <<now, redisVars, search>>

Tick == /\ now < MaxNow /\ now' = now + 1
        /\ UNCHANGED <<faults, redisVars, indexed, lost, search>>

Next == \/ \E e \in Events : Index(e) \/ IndexFails(e) \/ EvictMessage(e)
        \/ \E f \in Fields : EvictSet(f)
        \/ EvictTimeline \/ RestartRedis
        \/ \E query \in Queries \cup {{}}, limit \in Limits : Call(query, limit)
        \/ FindFiltered \/ FindLatest \/ Read \/ Fails
        \/ Tick

Spec == Init /\ [][Next]_vars

-----------------------------------------------------------------------------
ResultSet == {search.results[i] : i \in DOMAIN search.results}
Matching(query) == {e \in Events : query \subseteq FieldsOf[e]}

TypeOK == /\ now \in 0 .. MaxNow /\ faults \in 0 .. MaxFaults
          /\ message \in [Events -> Nat]
          /\ members \in [Fields -> SUBSET Events] /\ until \in [Fields -> Nat]
          /\ timeline \subseteq indexed /\ Cardinality(timeline) <= Cap
          /\ lost \subseteq indexed
          /\ search \in Search

\* A search shows only events that were indexed and match every filter, each
\* once, and keeps a positive limit, whatever is indexed, expires or is evicted
\* between its commands.  Without filters it shows them newest first, and leaves
\* out an event of the timeline that is newer than one it shows only if its
\* message was gone (search).
ResultsMatch ==
    /\ ResultSet \subseteq indexed \cap Matching(search.query)
    /\ Cardinality(ResultSet) = Len(search.results)
    /\ search.limit >= 1 => Len(search.results) <= search.limit
    /\ search.query = {} =>
         /\ \A i, j \in DOMAIN search.results :
              i < j => Newer(search.results[i], search.results[j])
         /\ \A e \in ResultSet :
              NewerIn(e, search.held) \subseteq ResultSet \cup search.missing

\* As long as a message is kept it can be found by its fields: the sets live
\* as long as their youngest message, if Redis evicted none (index_event).
StoredIsFindable ==
    \A e \in Stored \ lost : \A f \in FieldsOf[e] : e \in SetOf(f)

\* An event leaves the timeline only for newer ones, also when events are
\* indexed out of the order of their timestamps (index_event).
TimelineIsRecent ==
    \A e \in indexed \ (timeline \cup lost) :
      timeline = NewerIn(e, timeline) /\ Cardinality(timeline) = Cap

\* A filtered search that did not fail and whose candidates fitted the limit
\* shows every matching event that was indexed before the call and is still
\* stored: nothing that happens between its commands hides one (search).
FilteredIsComplete ==
    search.phase = "done" /\ search.query # {} /\ ~search.failed
      /\ search.limit >= Cardinality(search.held)
      => ((search.known \cap Matching(search.query) \cap Stored) \ lost) \subseteq ResultSet
=============================================================================
