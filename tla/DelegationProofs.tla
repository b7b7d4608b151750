-------------------------- MODULE DelegationProofs --------------------------
(***************************************************************************)
(* Theorems about Delegation for any number of backends and delegates and  *)
(* any lives.  AcknowledgedIsListed has to say until when the set lives:   *)
(* what is due to a delegate never outlives the set that lists it.         *)
(* DelegationsEnd has to say which sets have no end.                       *)
(***************************************************************************)
EXTENDS Delegation, TLAPS

\* What is due is due from a set that has an end, not before that end.
DueIsKept ==
    \A d \in Delegates : now < owed[d] =>
        d \in members /\ expiry # Never /\ owed[d] <= expiry

\* A set with an end has been given it by an add, and it is not over; one
\* without an end has an add to blame.
EndIsGiven ==
    /\ expiry # Never => now < expiry /\ expiry <= last
    /\ members # {} /\ expiry = Never => cut \/ \E b \in Backends : Between(b)

IInv == TypeOK /\ DueIsKept /\ EndIsGiven

-----------------------------------------------------------------------------
\* A backend that is down, or has just started, is a backend.
LEMMA DownIsBackend ==
    /\ Down \in Backend
    /\ \A client \in {"redis", "mock"} : [Down EXCEPT !.client = client] \in Backend
<1>1. (CHOOSE d \in Delegates : TRUE) \in Delegates
  BY DelegationAssumption
<1> QED  BY <1>1 DEF Backend, Down

\* EXPIRE leaves a set with an end that covers what is due from it, or no set.
LEMMA LiveKeeps ==
    ASSUME IInv, NEW b \in Backends, Live(b), now' = now
    PROVE  /\ members' \subseteq Delegates
           /\ owed' \in [Delegates -> Nat] /\ last' \in Nat
           /\ cut' = FALSE
           /\ DueIsKept'
           /\ members' # {} => expiry' \in Nat /\ now < expiry' /\ expiry' <= last'
           /\ members' = {} => expiry' = Never
<1> DEFINE end == now + backend[b].ttl
           d   == backend[b].delegate
<1>1. /\ now \in Nat /\ last \in Nat /\ owed \in [Delegates -> Nat]
      /\ members \subseteq Delegates /\ Never \notin Nat
  BY DelegationAssumption DEF IInv, TypeOK
<1>2. backend[b].ttl \in Int /\ d \in Delegates
  <2>1. backend[b] \in Backend
    BY DEF IInv, TypeOK
  <2>2. backend[b].ttl \in Ttls \cup {0} /\ d \in Delegates
    BY <2>1 DEF Backend
  <2>3. Ttls \cup {0} \subseteq Int
    BY DelegationAssumption
  <2>4. backend[b].ttl \in Int
    BY <2>2, <2>3
  <2> QED  BY <1>1, <2>2, <2>4
<1>3. CASE members = {} \/ backend[b].ttl <= 0
  <2>1. members' = {} /\ expiry' = Never /\ owed' = [e \in Delegates |-> 0]
        /\ cut' = FALSE /\ last' = last
    BY <1>3 DEF Live, Gone
  <2>2. DueIsKept'
    BY <1>1, <2>1 DEF DueIsKept
  <2> QED  BY <1>1, <2>1, <2>2
<1>4. CASE ~(members = {} \/ backend[b].ttl <= 0)
  <2> DEFINE Due(e) == IF e = d /\ d \in members THEN end
                       ELSE IF owed[e] < end THEN owed[e] ELSE end
  <2>1. /\ expiry' = end /\ members' = members
        /\ owed' = [e \in Delegates |-> Due(e)]
        /\ last' = IF end > last THEN end ELSE last
        /\ cut' = FALSE
    BY <1>4 DEF Live
  <2>2. end \in Nat /\ now < end
    BY <1>1, <1>2, <1>4
  <2> HIDE DEF end, d
  <2>3. \A e \in Delegates : Due(e) \in Nat /\ Due(e) <= end
    BY <1>1, <2>2
  <2>4. DueIsKept'
    <3> SUFFICES ASSUME NEW e \in Delegates, now < owed'[e]
                 PROVE  e \in members' /\ expiry' # Never /\ owed'[e] <= expiry'
      BY DEF DueIsKept
    <3>1. owed'[e] = Due(e)
      BY <2>1
    <3>2. e \in members
      BY <1>1, <2>2, <3>1 DEF IInv, DueIsKept
    <3> QED  BY <1>1, <2>1, <2>2, <2>3, <3>1, <3>2
  <2>5. owed' \in [Delegates -> Nat]
    BY <2>1, <2>3
  <2>6. last' \in Nat /\ expiry' \in Nat /\ now < expiry' /\ expiry' <= last'
    BY <1>1, <2>1, <2>2
  <2> QED  BY <1>1, <1>4, <2>1, <2>4, <2>5, <2>6
<1> QED  BY <1>3, <1>4

\* The initial states satisfy the invariant.
LEMMA InitIInv == Init => IInv
<1> SUFFICES ASSUME Init PROVE IInv
  OBVIOUS
<1>1. Down \in Backend
  BY DownIsBackend
<1>2. TypeOK
  <2>1. now \in 0 .. MaxNow /\ faults \in 0 .. MaxFaults
    BY DelegationAssumption DEF Init
  <2>2. redisUp \in BOOLEAN /\ cut \in BOOLEAN
    BY DEF Init
  <2>3. backend \in [Backends -> Backend] /\ owed \in [Delegates -> Nat] /\ last \in Nat
    BY <1>1 DEF Init
  <2>4. members \subseteq Delegates /\ expiry \in Nat \cup {Never} /\ expiry = Never
    BY DEF Init
  <2> QED  BY <2>1, <2>2, <2>3, <2>4 DEF TypeOK
<1>3. DueIsKept /\ EndIsGiven
  BY DEF Init, DueIsKept, EndIsGiven
<1> QED  BY <1>2, <1>3 DEF IInv

\* What all steps but the two commands and the clock do to the set.
SetKept == UNCHANGED <<now, members, expiry, owed, last>>

\* A step that leaves the set alone keeps the invariant if no add between its
\* commands goes away, unless it leaves its mark.
LEMMA KeptKeeps ==
    ASSUME IInv, SetKept,
           faults' \in 0 .. MaxFaults, redisUp' \in BOOLEAN, cut' \in BOOLEAN,
           backend' \in [Backends -> Backend], cut => cut',
           Endless /\ (\E b \in Backends : Between(b)) =>
             cut' \/ (\E b \in Backends : Between(b))'
    PROVE  IInv'
<1>1. TypeOK'
  BY DEF IInv, TypeOK, SetKept
<1>2. DueIsKept'
  BY DEF IInv, DueIsKept, SetKept
<1>3. EndIsGiven'
  BY DEF IInv, EndIsGiven, SetKept, Endless
<1> QED  BY <1>1, <1>2, <1>3 DEF IInv

\* One backend moves: the others are where they were.
LEMMA Others ==
    ASSUME TypeOK, NEW b \in Backends, NEW s \in Backend, Becomes(b, s)
    PROVE  /\ backend' \in [Backends -> Backend] /\ backend'[b] = s
           /\ \A c \in Backends \ {b} : Between(c)' = Between(c)
           /\ Between(b)' = (s.client = "redis" /\ s.pc = "added")
BY DEF TypeOK, Becomes, Between

\* A step of a backend that leaves the set alone.
LEMMA QuietStep ==
    ASSUME IInv, SetKept, NEW b \in Backends, NEW s \in Backend, Becomes(b, s),
           faults' \in 0 .. MaxFaults, redisUp' \in BOOLEAN, cut' \in BOOLEAN, cut => cut',
           Endless /\ Between(b) => cut'
    PROVE  IInv'
<1>1. TypeOK
  BY DEF IInv
<1>2. backend' \in [Backends -> Backend]
  BY <1>1, Others
<1>3. \A c \in Backends \ {b} : Between(c)' = Between(c)
  BY <1>1, Others
<1>4. Endless /\ (\E c \in Backends : Between(c)) =>
        cut' \/ (\E c \in Backends : Between(c))'
  BY <1>3
<1> QED  BY <1>2, <1>4, KeptKeeps

\* A step that adds a delegate to the set and leaves its end alone.
LEMMA AddStep ==
    ASSUME IInv, NEW b \in Backends, NEW d \in Delegates, NEW s \in Backend, Becomes(b, s),
           UNCHANGED <<now, redisUp, expiry, owed, last>>,
           members' = members \cup {d},
           backend[b].pc = "idle", cut' \in BOOLEAN, cut => cut',
           faults' \in 0 .. MaxFaults,
           expiry = Never => cut' \/ (s.client = "redis" /\ s.pc = "added")
    PROVE  IInv'
<1>1. TypeOK /\ Never \notin Nat
  BY DelegationAssumption DEF IInv
<1>2. /\ backend' \in [Backends -> Backend]
      /\ \A c \in Backends \ {b} : Between(c)' = Between(c)
      /\ Between(b)' = (s.client = "redis" /\ s.pc = "added")
  BY <1>1, Others
<1>3. TypeOK'
  BY <1>1, <1>2 DEF TypeOK
<1>4. DueIsKept'
  BY DEF IInv, DueIsKept
<1>5. EndIsGiven'
  BY <1>2 DEF IInv, EndIsGiven
<1> QED  BY <1>3, <1>4, <1>5 DEF IInv

\* The effect of EXPIRE, whatever the backend answers.
LEMMA LiveStep ==
    ASSUME IInv, NEW b \in Backends, NEW s \in Backend, Live(b), Becomes(b, s),
           UNCHANGED <<now, redisUp>>, faults' \in 0 .. MaxFaults
    PROVE  IInv'
<1>1. TypeOK
  BY DEF IInv
<1>2. backend' \in [Backends -> Backend]
  BY <1>1, Others
<1>3. /\ members' \subseteq Delegates
      /\ owed' \in [Delegates -> Nat] /\ last' \in Nat
      /\ cut' = FALSE
      /\ DueIsKept'
      /\ members' # {} => expiry' \in Nat /\ now < expiry' /\ expiry' <= last'
      /\ members' = {} => expiry' = Never
  BY LiveKeeps
<1>4. TypeOK'
  BY <1>1, <1>2, <1>3 DEF TypeOK
<1>5. EndIsGiven'
  BY <1>3, DelegationAssumption DEF EndIsGiven
<1> QED  BY <1>3, <1>4, <1>5 DEF IInv
-----------------------------------------------------------------------------
\* What a fault costs, and what a step without one leaves.
LEMMA FaultCount ==
    ASSUME IInv
    PROVE  /\ Fault => faults' \in 0 .. MaxFaults
           /\ (IF redisUp THEN Fault ELSE UNCHANGED faults) => faults' \in 0 .. MaxFaults
           /\ UNCHANGED faults => faults' \in 0 .. MaxFaults
BY DelegationAssumption DEF IInv, TypeOK, Fault

\* The steps of a backend keep the invariant.
LEMMA BackendStep ==
    ASSUME IInv, NEW b \in Backends,
           \/ Start(b) \/ Crash(b) \/ Expire(b) \/ ExpireFails(b)
           \/ \E d \in Delegates, ttl \in Ttls :
                AddToMock(b, d) \/ SAdd(b, d, ttl) \/ SAddFails(b, d, ttl)
    PROVE  IInv'
<1>1. backend[b] \in Backend /\ redisUp \in BOOLEAN /\ cut \in BOOLEAN
  BY DEF IInv, TypeOK
<1>2. CASE Start(b)
  <2> DEFINE s == [Down EXCEPT !.client = IF redisUp THEN "redis" ELSE "mock"]
  <2>1. s \in Backend
    BY DownIsBackend, <1>1
  <2>2. ~Between(b) /\ Becomes(b, s) /\ SetKept /\ redisUp' = redisUp /\ cut' = cut
        /\ faults' = faults
    BY <1>2 DEF Start, Between, SetKept, redis
  <2> HIDE DEF s
  <2> QED  BY <1>1, <2>1, <2>2, FaultCount, QuietStep
<1>3. CASE Crash(b)
  <2>1. Down \in Backend
    BY DownIsBackend, <1>1
  <2>2. Becomes(b, Down) /\ SetKept /\ redisUp' = redisUp /\ Fault
        /\ cut' = (cut \/ (Between(b) /\ Endless))
    BY <1>3 DEF Crash, SetKept, redis
  <2> QED  BY <1>1, <2>1, <2>2, FaultCount, QuietStep
<1>4. ASSUME NEW d \in Delegates, AddToMock(b, d) PROVE IInv'
  <2> DEFINE s == [backend[b] EXCEPT !.mock = @ \cup {d}, !.status = "delegated"]
  <2>1. s \in Backend
    BY <1>1 DEF Backend
  <2>2. ~Between(b) /\ Becomes(b, s) /\ SetKept /\ redisUp' = redisUp /\ cut' = cut
        /\ faults' = faults
    BY <1>4 DEF AddToMock, Between, SetKept, redis
  <2> HIDE DEF s
  <2> QED  BY <1>1, <2>1, <2>2, FaultCount, QuietStep
<1>5. ASSUME NEW d \in Delegates, NEW ttl \in Ttls, SAdd(b, d, ttl) PROVE IInv'
  <2> DEFINE s == [backend[b] EXCEPT !.pc = "added", !.delegate = d, !.ttl = ttl,
                                     !.status = "none"]
  <2>1. s \in Backend /\ s.client = "redis" /\ s.pc = "added" /\ backend[b].pc = "idle"
    BY <1>1, <1>5 DEF Backend, SAdd
  <2>2. Becomes(b, s) /\ members' = members \cup {d} /\ faults' = faults /\ cut' = cut
        /\ UNCHANGED <<now, redisUp, expiry, owed, last>>
    BY <1>5 DEF SAdd
  <2> HIDE DEF s
  <2> QED  BY <1>1, <2>1, <2>2, FaultCount, AddStep
<1>6. ASSUME NEW d \in Delegates, NEW ttl \in Ttls, SAddFails(b, d, ttl) PROVE IInv'
  <2> DEFINE s == [backend[b] EXCEPT !.delegate = d, !.ttl = ttl, !.status = "failed"]
  <2>1. s \in Backend /\ backend[b].pc = "idle" /\ ~Between(b)
    BY <1>1, <1>6 DEF Backend, SAddFails, Between
  <2>2. Becomes(b, s) /\ faults' \in 0 .. MaxFaults
        /\ UNCHANGED <<now, redisUp, expiry, owed, last>>
    BY <1>6, FaultCount DEF SAddFails
  <2>3. \/ members' = members /\ cut' = cut
        \/ members' = members \cup {d} /\ cut' = (cut \/ expiry = Never)
    BY <1>6 DEF SAddFails
  <2> HIDE DEF s
  <2>4. CASE members' = members /\ cut' = cut
    BY <1>1, <2>1, <2>2, <2>4, QuietStep DEF SetKept
  <2>5. CASE members' = members \cup {d} /\ cut' = (cut \/ expiry = Never)
    BY <1>1, <2>1, <2>2, <2>5, AddStep
  <2> QED  BY <2>3, <2>4, <2>5
<1>7. CASE Expire(b)
  <2> DEFINE s == [backend[b] EXCEPT !.pc = "idle", !.status = "delegated"]
  <2>1. s \in Backend
    BY <1>1 DEF Backend
  <2>2. Live(b) /\ Becomes(b, s) /\ UNCHANGED <<now, redisUp>> /\ faults' = faults
    BY <1>7 DEF Expire
  <2> HIDE DEF s
  <2> QED  BY <2>1, <2>2, FaultCount, LiveStep
<1>8. CASE ExpireFails(b)
  <2> DEFINE s == [backend[b] EXCEPT !.pc = "idle", !.status = "failed"]
  <2>1. s \in Backend
    BY <1>1 DEF Backend
  <2>2. Becomes(b, s) /\ UNCHANGED <<now, redisUp>> /\ faults' \in 0 .. MaxFaults
    BY <1>8, FaultCount DEF ExpireFails
  <2>3. \/ cut' = (cut \/ Endless) /\ SetKept
        \/ Live(b)
    BY <1>8 DEF ExpireFails, SetKept
  <2> HIDE DEF s
  <2>4. CASE cut' = (cut \/ Endless) /\ SetKept
    BY <1>1, <2>1, <2>2, <2>4, QuietStep
  <2>5. CASE Live(b)
    BY <2>1, <2>2, <2>5, LiveStep
  <2> QED  BY <2>3, <2>4, <2>5
<1> QED  BY <1>2, <1>3, <1>4, <1>5, <1>6, <1>7, <1>8

\* The steps of Redis and of the clock keep the invariant.
LEMMA RedisStep ==
    ASSUME IInv, Outage \/ Loss \/ Tick
    PROVE  IInv'
<1>1. TypeOK /\ DueIsKept /\ EndIsGiven /\ Never \notin Nat
  BY DelegationAssumption DEF IInv
<1>2. CASE Outage
  BY <1>1, <1>2, FaultCount, KeptKeeps DEF Outage, SetKept, TypeOK, Between
<1>3. CASE Loss
  <2>1. /\ members' = {} /\ expiry' = Never /\ owed' = [d \in Delegates |-> 0]
        /\ cut' = FALSE /\ faults' \in 0 .. MaxFaults
        /\ UNCHANGED <<now, redisUp, backend, last>>
    BY <1>3, FaultCount DEF Loss, Gone
  <2>2. TypeOK'
    BY <1>1, <2>1 DEF TypeOK
  <2>3. DueIsKept' /\ EndIsGiven'
    BY <1>1, <2>1 DEF DueIsKept, EndIsGiven, TypeOK
  <2> QED  BY <2>2, <2>3 DEF IInv
<1>4. CASE Tick
  <2>1. /\ now' = now + 1 /\ now' \in 0 .. MaxNow /\ now \in Nat
        /\ owed' = [d \in Delegates |-> IF owed[d] > now + 1 THEN owed[d] ELSE 0]
        /\ UNCHANGED <<faults, redisUp, backend, last>>
    BY <1>1, <1>4, DelegationAssumption DEF Tick, TypeOK
  <2>2. owed \in [Delegates -> Nat] /\ owed' \in [Delegates -> Nat]
        /\ \A d \in Delegates : now' < owed'[d] => owed'[d] = owed[d] /\ now < owed[d]
    BY <1>1, <2>1 DEF TypeOK
  <2>3. CASE expiry # Never /\ expiry <= now + 1
    <3>1. members' = {} /\ expiry' = Never /\ cut' = FALSE
      BY <1>4, <2>3 DEF Tick
    <3>2. TypeOK'
      BY <1>1, <2>1, <2>2, <3>1 DEF TypeOK
    <3>3. \A d \in Delegates : ~(now' < owed'[d])
      <4> SUFFICES ASSUME NEW d \in Delegates, now' < owed'[d] PROVE FALSE
        OBVIOUS
      <4>1. owed[d] <= expiry /\ expiry \in Nat
        BY <1>1, <2>2, <2>3 DEF DueIsKept, TypeOK
      <4> QED  BY <2>1, <2>2, <2>3, <4>1
    <3>4. DueIsKept' /\ EndIsGiven'
      BY <3>1, <3>3 DEF DueIsKept, EndIsGiven
    <3> QED  BY <3>2, <3>4 DEF IInv
  <2>4. CASE ~(expiry # Never /\ expiry <= now + 1)
    <3>1. UNCHANGED <<members, expiry, cut>>
      BY <1>4, <2>4 DEF Tick
    <3>2. TypeOK'
      BY <1>1, <2>1, <2>2, <3>1 DEF TypeOK
    <3>3. DueIsKept'
      BY <1>1, <2>2, <3>1 DEF DueIsKept
    <3>4. EndIsGiven'
      <4>1. (\E b \in Backends : Between(b))' = (\E b \in Backends : Between(b))
        BY <2>1 DEF Between
      <4>2. expiry \in Nat \cup {Never}
        BY <1>1 DEF TypeOK
      <4> QED  BY <1>1, <2>1, <2>4, <3>1, <4>1, <4>2 DEF EndIsGiven
    <3> QED  BY <3>2, <3>3, <3>4 DEF IInv
  <2> QED  BY <2>3, <2>4
<1> QED  BY <1>2, <1>3, <1>4

\* The invariant holds in every reachable state.
THEOREM Invariant == Spec => []IInv
<1>1. IInv /\ [Next]_vars => IInv'
  <2> SUFFICES ASSUME IInv, [Next]_vars PROVE IInv'
    OBVIOUS
  <2>1. CASE Next
    BY <2>1, BackendStep, RedisStep DEF Next
  <2>2. CASE UNCHANGED vars
    BY <2>2 DEF vars, redis, IInv, TypeOK, DueIsKept, EndIsGiven, Between
  <2> QED  BY <2>1, <2>2
<1> QED  BY <1>1, InitIInv, PTL DEF Spec

\* The set, its end and the requests are well formed in every state.
THEOREM TypeCorrect == Spec => []TypeOK
<1>1. IInv => TypeOK
  BY DEF IInv
<1> QED  BY <1>1, Invariant, PTL

\* A delegate that was acknowledged is listed for as long as its add promised
\* and later adds left it, however the commands of the backends interleave and
\* wherever they fail (add_delegation).
THEOREM ListedWhileDue == Spec => []AcknowledgedIsListed
<1>1. IInv => AcknowledgedIsListed
  BY DEF IInv, DueIsKept, AcknowledgedIsListed, LookedUp
<1> QED  BY <1>1, Invariant, PTL

\* A set without an end is the work of an add between its commands or cut short
\* there, with any number of backends (add_delegation).
THEOREM EndedOrExplained == Spec => []DelegationsEnd
<1>1. IInv => DelegationsEnd
  <2> SUFFICES ASSUME IInv PROVE DelegationsEnd
    OBVIOUS
  <2>1. now \in Nat /\ last \in Nat /\ expiry \in Nat \cup {Never}
    BY DelegationAssumption DEF IInv, TypeOK
  <2> QED  BY <2>1 DEF IInv, EndIsGiven, DelegationsEnd
<1> QED  BY <1>1, Invariant, PTL
=============================================================================
