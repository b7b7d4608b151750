----------------------------- MODULE Delegation -----------------------------
(***************************************************************************)
(* Delegations (backend/services/delegation.py): POST /delegation adds a   *)
(* delegate to the set of a resource with SADD and then gives the whole    *)
(* set a life with EXPIRE; issue looks the set up.  Two commands are two   *)
(* steps: the process may die or Redis fail between them, time passes, and *)
(* the commands of several backends interleave.  A backend that found no   *)
(* Redis when it was imported keeps the set in its memory.  The sets of    *)
(* two resources do not touch, so the module has the set of one.           *)
(***************************************************************************)
EXTENDS Integers

CONSTANTS Backends,   \* processes of the API (replicaCount)
          Delegates,
          Ttls,       \* DelegationRequest.ttl: any integer
          Never,      \* the set has no life (TTL -1)
          MaxNow,     \* bound: the clock stops there
          MaxFaults   \* bound: crashes, outages, losses and errors of Redis

ASSUME DelegationAssumption ==
    /\ Delegates # {} /\ Ttls \subseteq Int /\ Never \notin Nat
    /\ MaxNow \in Nat /\ MaxFaults \in Nat

VARIABLES now, faults,
          redisUp,  \* Redis answers
          members,  \* delegations:<resource>; Redis keeps no empty set
          expiry,   \* the second at which the set goes, or Never
          backend,  \* the processes, and the request each is serving
          owed,     \* history: until when each acknowledged delegate is due
          last,     \* history: when the longest of the lives given ends
          cut       \* history: an add was cut short and left a set without end

redis == <<redisUp, members, expiry>>
vars == <<now, faults, redis, backend, owed, last, cut>>

Backend == [client : {"down", "redis", "mock"}, mock : SUBSET Delegates,
            pc : {"idle", "added"}, delegate : Delegates, ttl : Ttls \cup {0},
            status : {"none", "delegated", "failed"}]

Down == [client |-> "down", mock |-> {}, pc |-> "idle",
         delegate |-> CHOOSE d \in Delegates : TRUE, ttl |-> 0, status |-> "none"]

Becomes(b, s) == backend' = [backend EXCEPT ![b] = s]
Fault == faults < MaxFaults /\ faults' = faults + 1
Between(b) == backend[b].client = "redis" /\ backend[b].pc = "added"
Endless == members # {} /\ expiry = Never

\* The set is gone, with all that was due and the add that was cut short.
Gone == /\ members' = {} /\ expiry' = Never
        /\ owed' = [d \in Delegates |-> 0] /\ cut' = FALSE

-----------------------------------------------------------------------------
Init == /\ now = 0 /\ faults = 0 /\ redisUp = TRUE
        /\ members = {} /\ expiry = Never
        /\ backend = [b \in Backends |-> Down]
        /\ owed = [d \in Delegates |-> 0] /\ last = 0 /\ cut = FALSE

\* The import of the module: the client is chosen by one ping.
Start(b) ==
    /\ backend[b].client = "down"
    /\ Becomes(b, [Down EXCEPT !.client = IF redisUp THEN "redis" ELSE "mock"])
    /\ UNCHANGED <<now, faults, redis, owed, last, cut>>

Crash(b) ==
    /\ backend[b].client # "down" /\ Fault
    /\ Becomes(b, Down)
    /\ cut' = (cut \/ (Between(b) /\ Endless))
    /\ UNCHANGED <<now, redis, owed, last>>

\* add_delegation in memory: the mock's expire does nothing.
AddToMock(b, d) ==
    /\ backend[b].client = "mock"
    /\ Becomes(b, [backend[b] EXCEPT !.mock = @ \cup {d}, !.status = "delegated"])
    /\ UNCHANGED <<now, faults, redis, owed, last, cut>>

\* Faulty variant: the set is written anew, without the delegates it had.
SAddAnew(b, d, ttl) ==
    /\ backend[b].client = "redis" /\ backend[b].pc = "idle" /\ redisUp
    /\ members' = {d}
    /\ Becomes(b, [backend[b] EXCEPT !.pc = "added", !.delegate = d, !.ttl = ttl,
                                     !.status = "none"])
    /\ UNCHANGED <<now, faults, redisUp, expiry, owed, last, cut>>

\* SADD: a set that exists keeps its life.
SAdd(b, d, ttl) ==
    /\ backend[b].client = "redis" /\ backend[b].pc = "idle" /\ redisUp
    /\ members' = members \cup {d}
    /\ Becomes(b, [backend[b] EXCEPT !.pc = "added", !.delegate = d, !.ttl = ttl,
                                     !.status = "none"])
    /\ UNCHANGED <<now, faults, redisUp, expiry, owed, last, cut>>

\* SADD raises, before Redis ran it or after.
SAddFails(b, d, ttl) ==
    /\ backend[b].client = "redis" /\ backend[b].pc = "idle"
    /\ IF redisUp THEN Fault ELSE UNCHANGED faults
    /\ \/ UNCHANGED <<members, cut>>
       \/ redisUp /\ members' = members \cup {d} /\ cut' = (cut \/ expiry = Never)
    /\ Becomes(b, [backend[b] EXCEPT !.delegate = d, !.ttl = ttl, !.status = "failed"])
    /\ UNCHANGED <<now, redisUp, expiry, owed, last>>

\* Faulty variant: EXPIRE gives a life also to a set that is gone.
LiveAnyway(b) ==
    LET end == now + backend[b].ttl
    IN IF backend[b].ttl <= 0 THEN Gone /\ UNCHANGED last
       ELSE /\ expiry' = end /\ UNCHANGED <<members, owed, last>>
            /\ cut' = FALSE

\* The life EXPIRE gives to the set, which may be gone already; a life of no
\* second deletes it.  What earlier adds were promised is cut to that life, and
\* this one is due if the set still holds its delegate.
Live(b) ==
    LET end == now + backend[b].ttl
        d   == backend[b].delegate
        Due(e) == IF e = d /\ d \in members THEN end
                  ELSE IF owed[e] < end THEN owed[e] ELSE end
    IN IF members = {} \/ backend[b].ttl <= 0 THEN Gone /\ UNCHANGED last
       ELSE /\ expiry' = end /\ UNCHANGED members
            /\ owed' = [e \in Delegates |-> Due(e)]
            /\ last' = IF end > last THEN end ELSE last
            /\ cut' = FALSE

\* Faulty variant: a ttl of zero is taken for none.
ExpireIfAny(b) ==
    /\ Between(b) /\ redisUp
    /\ IF backend[b].ttl = 0 THEN UNCHANGED <<members, expiry, owed, last, cut>> ELSE Live(b)
    /\ Becomes(b, [backend[b] EXCEPT !.pc = "idle", !.status = "delegated"])
    /\ UNCHANGED <<now, faults, redisUp>>

Expire(b) ==
    /\ Between(b) /\ redisUp
    /\ Live(b)
    /\ Becomes(b, [backend[b] EXCEPT !.pc = "idle", !.status = "delegated"])
    /\ UNCHANGED <<now, faults, redisUp>>

\* EXPIRE raises, before Redis ran it or after: the delegate stays added.
ExpireFails(b) ==
    /\ Between(b)
    /\ IF redisUp THEN Fault ELSE UNCHANGED faults
    /\ \/ cut' = (cut \/ Endless) /\ UNCHANGED <<members, expiry, owed, last>>
       \/ redisUp /\ Live(b)
    /\ Becomes(b, [backend[b] EXCEPT !.pc = "idle", !.status = "failed"])
    /\ UNCHANGED <<now, redisUp>>

\* get_delegations_for_resource
LookedUp(b) == IF backend[b].client = "mock" THEN backend[b].mock ELSE members

-----------------------------------------------------------------------------
Outage == /\ Fault /\ redisUp' = ~redisUp
          /\ UNCHANGED <<now, members, expiry, backend, owed, last, cut>>

\* Redis restarts without its data, or evicts the set.
Loss == Fault /\ Gone /\ UNCHANGED <<now, redisUp, backend, last>>

\* The set goes at its expiry; what was due until now is not due any more.
Tick == /\ now < MaxNow /\ now' = now + 1
        /\ IF expiry # Never /\ expiry <= now + 1
           THEN members' = {} /\ expiry' = Never /\ cut' = FALSE
           ELSE UNCHANGED <<members, expiry, cut>>
        /\ owed' = [d \in Delegates |-> IF owed[d] > now + 1 THEN owed[d] ELSE 0]
        /\ UNCHANGED <<faults, redisUp, backend, last>>

Next == \/ \E b \in Backends, d \in Delegates, ttl \in Ttls :
             AddToMock(b, d) \/ SAdd(b, d, ttl) \/ SAddFails(b, d, ttl)
        \/ \E b \in Backends : Start(b) \/ Crash(b) \/ Expire(b) \/ ExpireFails(b)
        \/ Outage \/ Loss \/ Tick

Spec == Init /\ [][Next]_vars

-----------------------------------------------------------------------------
TypeOK == /\ now \in 0 .. MaxNow /\ faults \in 0 .. MaxFaults /\ redisUp \in BOOLEAN
          /\ members \subseteq Delegates
          /\ expiry \in Nat \cup {Never} /\ (members = {} => expiry = Never)
          /\ backend \in [Backends -> Backend]
          /\ owed \in [Delegates -> Nat] /\ last \in Nat /\ cut \in BOOLEAN

\* An acknowledged delegate is listed by every backend that uses Redis for the
\* ttl of its add, unless an add acknowledged later shortened the life of the
\* set, Redis lost it, or the set went between the two commands of the add
\* itself; it does not matter how other adds interleave or fail (add_delegation).
AcknowledgedIsListed ==
    \A b \in Backends, d \in Delegates :
        backend[b].client = "redis" /\ now < owed[d] => d \in LookedUp(b)

\* Nothing is listed longer than the longest life an add has given, except while
\* an add is between its commands, or after one was cut short there and until
\* the next is completed: the set it leaves has no end (add_delegation).
DelegationsEnd ==
    members # {} => now < last \/ cut \/ \E b \in Backends : Between(b)
=============================================================================
