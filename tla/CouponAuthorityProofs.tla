----------------------- MODULE CouponAuthorityProofs -----------------------
(***************************************************************************)
(* Theorems about CouponAuthority, for every set of clients and coupons,   *)
(* every time to live and every number of faults.                          *)
(*                                                                         *)
(* RevocationEnforced is not inductive: between the SETEX and the answer   *)
(* of POST /revoke nothing is promised yet, the entry may be lost in that  *)
(* window, and a second SETEX must not shorten what the first promised.    *)
(* The invariant adds what holds of calls that are still being served.     *)
(***************************************************************************)
EXTENDS CouponAuthority, TLAPS

\* The store the process reads holds the revocation of j at least until t.
Held(st, rev, mock, j, t) == IF st = "redis" THEN rev[j] >= t ELSE j \in mock
Holds(j, t) == Held(store, redisRev, mockRev, j, t)

\* What is promised, and what a revoke in progress is about to promise, is in
\* the store.
Enforced ==
    /\ \A j \in Jtis : promised[j] > 0 => Holds(j, promised[j])
    /\ \A p \in Clients :
         call[p].phase = "logging" /\ call[p].op = "revoke" /\ call[p].until > 0
           => Holds(call[p].jti, call[p].until)

\* No promise reaches further than a SETEX made now would.
NotAhead ==
    /\ \A j \in Jtis : promised[j] <= now + RevokeTtl
    /\ \A p \in Clients : call[p].until <= now + RevokeTtl

\* Calls that revoke name a minted coupon; only a live process has
\* calls in log_event, and none of them is a verification.
CallsNamed ==
    \A p \in Clients :
       /\ call[p].op = "revoke" => call[p].jti \in Minted
       /\ call[p].op = "verify" => call[p].jti \in Minted \cup {NoJti}
       /\ call[p].phase = "logging" =>
            /\ proc = "up"
            /\ call[p].result \in {"ok", "denied"}

IInv == TypeOK /\ Enforced /\ NotAhead /\ CallsNamed

-----------------------------------------------------------------------------
\* The initial states are well typed.
LEMMA InitTypeOK == Init => TypeOK
BY AuthorityAssumption DEF Init, TypeOK, IdleCall, Call, Phases, Ops, Results,
   Subjects, Coupon

\* Records of a call stay records of a call under the updates the model makes.
LEMMA CallUpdate ==
    ASSUME NEW c \in Call, NEW ph \in Phases, NEW r \in Results,
           NEW j \in Jtis \cup {NoJti}, NEW t \in Nat
    PROVE  /\ [c EXCEPT !.phase = ph, !.result = r] \in Call
           /\ [c EXCEPT !.phase = ph, !.result = r, !.jti = j, !.until = t] \in Call
BY DEF Call

\* A fresh call is a call, whatever the client asks.
LEMMA IdleUpdate ==
    /\ IdleCall \in Call
    /\ \A sub \in Subjects, ttl \in Ttls \cup {NoTtl}, res \in BOOLEAN :
         [IdleCall EXCEPT !.phase = "sent", !.op = "issue", !.sub = sub,
                          !.ttl = ttl, !.resource = res] \in Call
    /\ \A j \in Jtis \cup {NoJti}, op \in Ops :
         [IdleCall EXCEPT !.phase = "sent", !.op = op, !.jti = j] \in Call
BY DEF IdleCall, Call, Phases, Ops, Results, Subjects

\* Every step of the callers, the handlers and the environment keeps the types.
LEMMA StepTypeOK == TypeOK /\ CallsNamed /\ [Next]_vars => TypeOK'
<1> USE AuthorityAssumption, CouponAssumption
    DEF TypeOK, envVars, keyVars
<1> SUFFICES ASSUME TypeOK, CallsNamed, [Next]_vars PROVE TypeOK'
  OBVIOUS
<1>0. "sent" \in Phases /\ "logging" \in Phases /\ "answered" \in Phases
      /\ "verify" \in Ops /\ "revoke" \in Ops
  BY DEF Phases, Ops
<1>1. ASSUME NEW p \in Clients, NEW sub \in Subjects, NEW ttl \in Ttls \cup {NoTtl},
             NEW res \in BOOLEAN, SendIssue(p, sub, ttl, res)
      PROVE  TypeOK'
  BY <1>1, IdleUpdate DEF SendIssue, Send
<1>2. ASSUME NEW p \in Clients, NEW j \in Jtis \cup {NoJti},
             SendVerify(p, j) \/ (j \in Jtis /\ SendRevoke(p, j))
      PROVE  TypeOK'
  <2>1. [IdleCall EXCEPT !.phase = "sent", !.op = "verify", !.jti = j] \in Call
        /\ [IdleCall EXCEPT !.phase = "sent", !.op = "revoke", !.jti = j] \in Call
    BY <1>0, IdleUpdate
  <2>2. call' \in [Clients -> Call]
    BY <1>2, <2>1 DEF SendVerify, SendRevoke, Send
  <2> QED  BY <1>2, <2>2 DEF SendVerify, SendRevoke
<1>3. ASSUME NEW p \in Clients, Receive(p)
      PROVE  TypeOK'
  BY <1>3, IdleUpdate DEF Receive
<1>4. ASSUME NEW p \in Clients, NEW r \in Results, Answer(p, r)
      PROVE  call' \in [Clients -> Call]
  <2>1. [call[p] EXCEPT !.phase = "answered", !.result = r] \in Call
    BY <1>0, CallUpdate
  <2> QED  BY <1>4, <2>1 DEF Answer
<1>5. ASSUME NEW p \in Clients, NEW r \in Results, NEW j \in Jtis \cup {NoJti},
             NEW t \in Nat, Park(p, r, j, t)
      PROVE  call' \in [Clients -> Call]
  <2>1. [call[p] EXCEPT !.phase = "logging", !.result = r, !.jti = j, !.until = t]
          \in Call
    BY <1>0, CallUpdate
  <2> QED  BY <1>5, <2>1 DEF Park
<1>6. ASSUME NEW p \in Clients, Handle(p)
      PROVE  TypeOK'
  <2>1. CASE IssueLimited(p) \/ IssueLookupFails(p) \/ IssueFails(p) \/ RevokeFails(p)
             \/ Refused(p)
    <3>1. "limited" \in Results /\ "error" \in Results /\ "unreachable" \in Results
      BY DEF Results
    <3>2. call' \in [Clients -> Call]
      BY <2>1, <3>1, <1>4 DEF IssueLimited, IssueLookupFails, IssueFails,
         RevokeFails, Refused
    <3> QED  BY <2>1, <3>2 DEF IssueLimited, IssueLookupFails, IssueFails,
                RevokeFails, Refused
  <2>2. CASE IssueDenied(p)
    <3>1. "denied" \in Results
      BY DEF Results
    <3> QED  BY <2>2, <3>1, <1>5 DEF IssueDenied
  <2>3. ASSUME NEW j \in Jtis, IssueMint(p, j)
        PROVE  TypeOK'
    <3>1. call[p].sub \in Subjects /\ call[p].ttl \in Nat
      BY <2>3 DEF IssueMint, Call
    <3>2. [sub |-> call[p].sub, exp |-> now + call[p].ttl, gen |-> gen] \in Coupon
      BY <3>1 DEF Coupon
    <3>3. coupon' \in [Jtis -> Coupon \cup {NoCoupon}]
      BY <2>3, <3>2 DEF IssueMint
    <3>4. "ok" \in Results
      BY DEF Results
    <3>5. call' \in [Clients -> Call]
      BY <2>3, <3>4, <1>5 DEF IssueMint
    <3> QED  BY <2>3, <3>3, <3>5 DEF IssueMint
  <2>4. CASE Verify(p)
    <3>1. (IF Accepts(call[p].jti) THEN "valid" ELSE "invalid") \in Results
      BY DEF Results
    <3> QED  BY <2>4, <3>1, <1>4 DEF Verify
  <2>5. CASE Revoke(p)
    <3>1. "ok" \in Results /\ call[p].jti \in Jtis \cup {NoJti}
      BY DEF Results, Call
    <3>2. call' \in [Clients -> Call]
      BY <2>5, <3>1, <1>5 DEF Revoke
    <3>3. redisRev' \in [Jtis -> Nat]
      BY <2>5 DEF Revoke
    <3>4. call[p].jti \in Jtis
      BY <2>5 DEF Revoke, Serving, CallsNamed, Minted
    <3>5. mockRev' \subseteq Jtis
      BY <2>5, <3>4 DEF Revoke
    <3> QED  BY <2>5, <3>2, <3>3, <3>5 DEF Revoke
  <2> QED  BY <1>6, <2>1, <2>2, <2>3, <2>4, <2>5 DEF Handle
<1>7. ASSUME NEW p \in Clients, Logged(p)
      PROVE  TypeOK'
  <2>1. call[p].result \in Results /\ call[p].until \in Nat
    BY DEF Call
  <2>2. call' \in [Clients -> Call]
    BY <1>7, <2>1, <1>4 DEF Logged
  <2>3. promised' \in [Jtis -> Nat]
    BY <1>7, <2>1 DEF Logged
  <2> QED  BY <1>7, <2>2, <2>3 DEF Logged
<1>8. CASE Tick \/ RedisOutage \/ OpaOutage
  <2>1. opaUp' \in BOOLEAN /\ redisUp' \in BOOLEAN
    BY <1>8, Zenon DEF Tick, RedisOutage, OpaOutage
  <2>2. now' \in Nat /\ faults' \in Nat
    BY <1>8 DEF Tick, RedisOutage, OpaOutage, Fault
  <2>3. UNCHANGED <<redisRev, proc, store, mockRev, keyVars, coupon, call, promised>>
    BY <1>8 DEF Tick, RedisOutage, OpaOutage
  <2> QED  BY <2>1, <2>2, <2>3
<1>9. ASSUME NEW j \in Jtis, RedisLoses(j)
      PROVE  TypeOK'
  <2>1. \A p \in Clients : [call[p] EXCEPT !.until = 0] \in Call
    BY DEF Call
  <2>2. call' \in [Clients -> Call]
    BY <1>9, <2>1 DEF RedisLoses
  <2> QED  BY <1>9, <2>2 DEF RedisLoses, Fault
<1>10. CASE Crash
  <2>1. "unreachable" \in Results
    BY DEF Results
  <2>2. \A p \in Clients :
          [call[p] EXCEPT !.phase = "answered", !.result = "unreachable"] \in Call
    BY <1>0, <2>1, CallUpdate
  <2>3. call' \in [Clients -> Call]
    BY <1>10, <2>2 DEF Crash
  <2>4. UNCHANGED <<now, opaUp, redisUp, redisRev, store, mockRev, keyVars,
                    coupon, promised>>
    BY <1>10, Zenon DEF Crash
  <2>5. opaUp' \in BOOLEAN /\ redisUp' \in BOOLEAN
    BY <2>4, Zenon
  <2>6. coupon' \in [Jtis -> Coupon \cup {NoCoupon}]
    BY <2>4, Zenon
  <2>7. faults' = faults + 1 /\ proc' = "down"
    BY <1>10, Zenon DEF Crash, Fault
  <2> QED  BY <2>3, <2>4, <2>5, <2>6, <2>7
<1>11. CASE Start
  BY <1>11 DEF Start, LoadOrGenerateKeys
<1>12. CASE UNCHANGED vars
  BY <1>12 DEF vars
<1> QED  BY <1>1, <1>2, <1>3, <1>6, <1>7, <1>8, <1>9, <1>10, <1>11, <1>12 DEF Next

\* Calls keep naming minted coupons: coupons are never unminted.
LEMMA StepCallsNamed == TypeOK /\ CallsNamed /\ [Next]_vars => CallsNamed'
<1> USE DEF CallsNamed, TypeOK, envVars, keyVars
<1> SUFFICES ASSUME TypeOK, CallsNamed, [Next]_vars PROVE CallsNamed'
  OBVIOUS
<1>1. Minted \subseteq Minted'
  <2>1. ASSUME NEW p \in Clients, NEW j \in Jtis, IssueMint(p, j)
        PROVE  Minted \subseteq Minted'
    BY <2>1 DEF IssueMint, Minted
  <2>2. CASE UNCHANGED coupon
    BY <2>2 DEF Minted
  <2> QED
    BY <2>1, <2>2 DEF Next, vars, SendIssue, SendVerify, SendRevoke, Receive,
       Handle, IssueLimited, IssueLookupFails, IssueDenied, IssueFails, Verify,
       Revoke, RevokeFails, Refused, Logged, Tick, RedisOutage, OpaOutage, Crash,
       Start, RedisLoses
<1>2. ASSUME NEW p \in Clients, NEW sub \in Subjects, NEW ttl \in Ttls \cup {NoTtl},
             NEW res \in BOOLEAN, SendIssue(p, sub, ttl, res)
      PROVE  CallsNamed'
  BY <1>1, <1>2 DEF SendIssue, Send, IdleCall
<1>3. ASSUME NEW p \in Clients, NEW j \in Jtis \cup {NoJti}, SendVerify(p, j)
      PROVE  CallsNamed'
  BY <1>1, <1>3 DEF SendVerify, Send, IdleCall
<1>14. ASSUME NEW p \in Clients, NEW j \in Jtis, SendRevoke(p, j)
      PROVE  CallsNamed'
  BY <1>1, <1>14 DEF SendRevoke, Send, IdleCall
<1>4. ASSUME NEW p \in Clients, Receive(p)
      PROVE  CallsNamed'
  BY <1>1, <1>4 DEF Receive, IdleCall
<1>5. ASSUME NEW p \in Clients, NEW r, Answer(p, r), proc' = proc
      PROVE  CallsNamed'
  BY <1>1, <1>5 DEF Answer, Call
<1>6. ASSUME NEW p \in Clients, Handle(p)
      PROVE  CallsNamed'
  <2>1. CASE IssueLimited(p) \/ IssueLookupFails(p) \/ IssueFails(p) \/ RevokeFails(p)
             \/ Refused(p) \/ Verify(p)
    BY <2>1, <1>5 DEF IssueLimited, IssueLookupFails, IssueFails, RevokeFails,
       Refused, Verify
  <2>2. CASE IssueDenied(p)
    BY <2>2, <1>1 DEF IssueDenied, Looked, Serving, Park, Call
  <2>3. ASSUME NEW j \in Jtis, IssueMint(p, j)
        PROVE  CallsNamed'
    BY <2>3, <1>1 DEF IssueMint, Looked, Serving, Park, Call
  <2>4. CASE Revoke(p)
    BY <2>4, <1>1 DEF Revoke, Serving, Park, Call
  <2> QED  BY <1>6, <2>1, <2>2, <2>3, <2>4 DEF Handle
<1>7. ASSUME NEW p \in Clients, Logged(p)
      PROVE  CallsNamed'
  BY <1>5, <1>7 DEF Logged
<1>8. ASSUME NEW j \in Jtis, RedisLoses(j)
      PROVE  CallsNamed'
  BY <1>1, <1>8 DEF RedisLoses, Call
<1>9. CASE Crash
  BY <1>1, <1>9 DEF Crash, Call, Phases
<1>10. CASE Start
  BY <1>1, <1>10 DEF Start
<1>11. CASE Tick \/ RedisOutage \/ OpaOutage \/ UNCHANGED vars
  BY <1>1, <1>11 DEF Tick, RedisOutage, OpaOutage, vars
<1> QED  BY <1>2, <1>3, <1>14, <1>4, <1>6, <1>7, <1>8, <1>9, <1>10, <1>11 DEF Next

\* No step moves a promise beyond what a SETEX made now would reach.
LEMMA StepNotAhead == TypeOK /\ NotAhead /\ [Next]_vars => NotAhead'
<1> USE AuthorityAssumption DEF NotAhead, TypeOK, envVars, keyVars
<1> SUFFICES ASSUME TypeOK, NotAhead, [Next]_vars PROVE NotAhead'
  OBVIOUS
<1>1. ASSUME NEW p \in Clients,
             \/ \E sub \in Subjects, ttl \in Ttls \cup {NoTtl}, res \in BOOLEAN :
                  SendIssue(p, sub, ttl, res)
             \/ \E j \in Jtis \cup {NoJti} :
                  SendVerify(p, j) \/ (j \in Jtis /\ SendRevoke(p, j))
             \/ Receive(p)
      PROVE  NotAhead'
  <2>1. ASSUME NEW c, c.until = 0, call' = [call EXCEPT ![p] = c],
               UNCHANGED <<now, promised>>
        PROVE  NotAhead'
    BY <2>1 DEF Call
  <2>2. \A sub, ttl, res :
          [IdleCall EXCEPT !.phase = "sent", !.op = "issue", !.sub = sub,
                           !.ttl = ttl, !.resource = res].until = 0
    BY DEF IdleCall
  <2>3. \A j, op : [IdleCall EXCEPT !.phase = "sent", !.op = op, !.jti = j].until = 0
    BY DEF IdleCall
  <2>4. IdleCall.until = 0
    BY DEF IdleCall
  <2>5. ASSUME NEW sub \in Subjects, NEW ttl \in Ttls \cup {NoTtl}, NEW res \in BOOLEAN,
               SendIssue(p, sub, ttl, res)
        PROVE  NotAhead'
    BY <2>1, <2>2, <2>5 DEF SendIssue, Send
  <2>6. ASSUME NEW j \in Jtis \cup {NoJti},
             SendVerify(p, j) \/ (j \in Jtis /\ SendRevoke(p, j))
        PROVE  NotAhead'
    BY <2>1, <2>3, <2>6 DEF SendVerify, SendRevoke, Send
  <2>7. CASE Receive(p)
    BY <2>1, <2>4, <2>7 DEF Receive
  <2> QED  BY <1>1, <2>5, <2>6, <2>7
<1>2. ASSUME NEW p \in Clients, NEW r, Answer(p, r), UNCHANGED <<now, promised>>
      PROVE  NotAhead'
  BY <1>2 DEF Answer, Call
<1>3. ASSUME NEW p \in Clients, Handle(p)
      PROVE  NotAhead'
  <2>1. CASE IssueLimited(p) \/ IssueLookupFails(p) \/ IssueFails(p) \/ RevokeFails(p)
             \/ Refused(p) \/ Verify(p)
    BY <2>1, <1>2 DEF IssueLimited, IssueLookupFails, IssueFails, RevokeFails,
       Refused, Verify
  <2>2. ASSUME NEW r, NEW j, NEW t \in Nat, t <= now + RevokeTtl, Park(p, r, j, t),
               UNCHANGED <<now, promised>>
        PROVE  NotAhead'
    BY <2>2 DEF Park, Call
  <2>3. CASE IssueDenied(p) \/ (\E j \in Jtis : IssueMint(p, j)) \/ Revoke(p)
    <3>1. 0 <= now + RevokeTtl /\ now + RevokeTtl \in Nat
      OBVIOUS
    <3> QED  BY <2>2, <2>3, <3>1 DEF IssueDenied, IssueMint, Revoke
  <2> QED  BY <1>3, <2>1, <2>3 DEF Handle
<1>4. ASSUME NEW p \in Clients, Logged(p)
      PROVE  NotAhead'
  BY <1>4 DEF Logged, Answer, Call
<1>5. ASSUME NEW j \in Jtis, RedisLoses(j)
      PROVE  NotAhead'
  BY <1>5 DEF RedisLoses, Call
<1>6. CASE Crash
  BY <1>6 DEF Crash, Call
<1>7. CASE Start
  BY <1>7 DEF Start
<1>8. CASE Tick \/ RedisOutage \/ OpaOutage \/ UNCHANGED vars
  BY <1>8 DEF Tick, RedisOutage, OpaOutage, vars, Call
<1> QED  BY <1>1, <1>3, <1>4, <1>5, <1>6, <1>7, <1>8 DEF Next

\* What is promised, or about to be, stays in the store the process reads.
LEMMA StepEnforced == IInv /\ [Next]_vars => Enforced'
<1> USE AuthorityAssumption DEF TypeOK, envVars, keyVars
<1> DEFINE Keeps(j, t) == Held(store', redisRev', mockRev', j, t)
<1> SUFFICES ASSUME TypeOK, Enforced, NotAhead, CallsNamed, [Next]_vars
             PROVE  Enforced'
  BY DEF IInv
\* Most steps leave the stores and the promises alone and park no revoke.
<1>1. ASSUME UNCHANGED <<redisRev, store, mockRev, promised>>,
             \A q \in Clients :
               call'[q].phase = "logging" /\ call'[q].op = "revoke" /\ call'[q].until > 0
                 => call'[q] = call[q]
      PROVE  Enforced'
  BY <1>1 DEF Enforced, Holds, Held
<1>2. ASSUME NEW p \in Clients, NEW c, c.phase # "logging",
             call' = [call EXCEPT ![p] = c],
             UNCHANGED <<redisRev, store, mockRev, promised>>
      PROVE  Enforced'
  <2>1. \A q \in Clients : call'[q].phase = "logging" => call'[q] = call[q]
    BY <1>2
  <2> QED  BY <1>1, <1>2, <2>1
<1>3. ASSUME NEW p \in Clients, NEW sub \in Subjects, NEW ttl \in Ttls \cup {NoTtl},
             NEW res \in BOOLEAN, SendIssue(p, sub, ttl, res)
      PROVE  Enforced'
  BY <1>2, <1>3 DEF SendIssue, Send, IdleCall
<1>4. ASSUME NEW p \in Clients, NEW j \in Jtis \cup {NoJti},
             SendVerify(p, j) \/ (j \in Jtis /\ SendRevoke(p, j))
      PROVE  Enforced'
  BY <1>2, <1>4 DEF SendVerify, SendRevoke, Send, IdleCall
<1>5. ASSUME NEW p \in Clients, Receive(p)
      PROVE  Enforced'
  BY <1>2, <1>5 DEF Receive, IdleCall
<1>6. ASSUME NEW p \in Clients, NEW r, Answer(p, r),
             UNCHANGED <<redisRev, store, mockRev, promised>>
      PROVE  Enforced'
  <2>1. [call[p] EXCEPT !.phase = "answered", !.result = r].phase # "logging"
    BY DEF Call
  <2> QED  BY <1>2, <1>6, <2>1 DEF Answer
<1>7. ASSUME NEW p \in Clients, Handle(p)
      PROVE  Enforced'
  <2>1. CASE IssueLimited(p) \/ IssueLookupFails(p) \/ IssueFails(p) \/ RevokeFails(p)
             \/ Refused(p) \/ Verify(p)
    BY <2>1, <1>6 DEF IssueLimited, IssueLookupFails, IssueFails, RevokeFails,
       Refused, Verify
  <2>2. CASE IssueDenied(p) \/ (\E j \in Jtis : IssueMint(p, j))
    <3>1. call[p].op = "issue"
          /\ UNCHANGED <<redisRev, store, mockRev, promised>>
          /\ \E r, j, t : Park(p, r, j, t)
      BY <2>2 DEF IssueDenied, IssueMint, Looked, Serving
    <3>2. call'[p].op = "issue" /\ \A q \in Clients \ {p} : call'[q] = call[q]
      BY <3>1 DEF Park, Call
    <3> QED  BY <3>1, <3>2, <1>1
  <2>3. CASE Revoke(p)
    <3>1. PICK j \in Jtis : j = call[p].jti
      BY <2>3 DEF Revoke, Serving, CallsNamed, Minted
    <3>2. \A t \in Nat, k \in Jtis :
            t <= now + RevokeTtl /\ t > 0 /\ Holds(k, t) => Keeps(k, t)
      BY <2>3, <3>1 DEF Revoke, Holds, Held
    <3>3. Keeps(j, now + RevokeTtl)
      BY <2>3, <3>1 DEF Revoke, Holds, Held
    <3>4. \A k \in Jtis : promised'[k] > 0 => Keeps(k, promised'[k])
      BY <2>3, <3>2 DEF Revoke, Enforced, NotAhead
    <3>5. \A q \in Clients \ {p} : call'[q] = call[q]
      BY <2>3 DEF Revoke, Park
    <3>6. call'[p].jti = j /\ call'[p].until = now + RevokeTtl
      BY <2>3, <3>1 DEF Revoke, Park, Call
    <3>7. ASSUME NEW q \in Clients, q # p, call[q].phase = "logging",
                 call[q].op = "revoke", call[q].until > 0
          PROVE  Keeps(call'[q].jti, call'[q].until)
      <4>1. call[q].jti \in Jtis /\ call[q].until \in Nat
        BY <3>7 DEF CallsNamed, Minted, Call
      <4>2. Holds(call[q].jti, call[q].until)
        BY <3>7 DEF Enforced
      <4>3. call[q].until <= now + RevokeTtl
        BY DEF NotAhead
      <4>4. call'[q] = call[q]
        BY <3>5, <3>7
      <4> QED  BY <3>2, <3>7, <4>1, <4>2, <4>3, <4>4 DEF Holds, Held
    <3>8. ASSUME NEW q \in Clients, call'[q].phase = "logging",
                 call'[q].op = "revoke", call'[q].until > 0
          PROVE  Keeps(call'[q].jti, call'[q].until)
      <4>1. CASE q = p
        BY <3>3, <3>6, <4>1 DEF Holds, Held
      <4>2. CASE q # p
        BY <3>5, <3>7, <3>8, <4>2 DEF Holds, Held
      <4> QED  BY <4>1, <4>2
    <3> QED  BY <3>4, <3>8 DEF Enforced, Holds, Held
  <2> QED  BY <1>7, <2>1, <2>2, <2>3 DEF Handle
<1>8. ASSUME NEW p \in Clients, Logged(p)
      PROVE  Enforced'
  <2>1. UNCHANGED <<redisRev, store, mockRev>>
        /\ \A q \in Clients : call'[q].phase = "logging" => call'[q] = call[q]
    BY <1>8 DEF Logged, Answer, Call
  <2>2. \A j \in Jtis : promised'[j] > 0 => Keeps(j, promised'[j])
    <3>1. CASE call[p].op = "revoke" /\ call[p].until > promised[call[p].jti]
      <4>1. PICK k \in Jtis : k = call[p].jti
        BY <3>1 DEF CallsNamed, Minted
      <4>2. promised' = [promised EXCEPT ![k] = call[p].until]
        BY <1>8, <3>1, <4>1 DEF Logged
      <4>3. call[p].until > 0 /\ call[p].until \in Nat
        BY <3>1, <4>1 DEF Call
      <4>4. Holds(k, call[p].until)
        BY <1>8, <3>1, <4>1, <4>3 DEF Logged, Enforced
      <4> QED  BY <2>1, <4>2, <4>4 DEF Enforced, Holds
    <3>2. CASE ~(call[p].op = "revoke" /\ call[p].until > promised[call[p].jti])
      BY <1>8, <2>1, <3>2 DEF Logged, Enforced, Holds
    <3> QED  BY <3>1, <3>2
  <2> QED  BY <2>1, <2>2 DEF Enforced, Holds, Held
<1>9. ASSUME NEW j \in Jtis, RedisLoses(j)
      PROVE  Enforced'
  <2>1. CASE store = "redis"
    <3>1. \A k \in Jtis : promised'[k] > 0 => k # j /\ promised'[k] = promised[k]
      BY <1>9, <2>1 DEF RedisLoses
    <3>2. \A q \in Clients :
            call'[q].until > 0 => call'[q] = call[q] /\ call[q].jti # j
      BY <1>9, <2>1 DEF RedisLoses, Call
    <3>3. \A k \in Jtis : k # j => redisRev'[k] = redisRev[k]
      BY <1>9 DEF RedisLoses
    <3>4. store' = store /\ mockRev' = mockRev
      BY <1>9 DEF RedisLoses
    <3>5. \A k \in Jtis : promised'[k] > 0 => Keeps(k, promised'[k])
      BY <2>1, <3>1, <3>3, <3>4 DEF Enforced, Holds, Held
    <3>6. ASSUME NEW q \in Clients, call'[q].phase = "logging",
                 call'[q].op = "revoke", call'[q].until > 0
          PROVE  Keeps(call'[q].jti, call'[q].until)
      BY <2>1, <3>2, <3>3, <3>4, <3>6 DEF Enforced, Holds, Held, CallsNamed, Minted
    <3> QED  BY <3>5, <3>6 DEF Enforced, Holds, Held
  <2>2. CASE store # "redis"
    BY <1>9, <2>2 DEF RedisLoses, Enforced, Holds, Held
  <2> QED  BY <2>1, <2>2
<1>10. CASE Crash
  <2>1. \A q \in Clients : call'[q].phase # "logging"
    BY <1>10 DEF Crash, Call
  <2> QED  BY <1>1, <1>10, <2>1 DEF Crash
<1>11. CASE Start
  <2>1. \A q \in Clients : call'[q].phase # "logging"
    BY <1>11 DEF Start, CallsNamed
  <2>2. \A j \in Jtis : promised'[j] > 0 => Keeps(j, promised'[j])
    <3>1. CASE store = "redis" /\ redisUp
      <4>1. /\ store = "redis" /\ store' = "redis"
            /\ redisRev' = redisRev /\ promised' = promised
        BY <1>11, <3>1, Zenon DEF Start
      <4> QED  BY <4>1 DEF Enforced, Holds, Held
    <3>2. CASE ~(store = "redis" /\ redisUp)
      <4>1. promised' = [j \in Jtis |-> 0]
        BY <1>11, <3>2, Zenon DEF Start
      <4> QED  BY <4>1
    <3> QED  BY <3>1, <3>2
  <2> QED  BY <2>1, <2>2 DEF Enforced, Holds, Held
<1>12. CASE Tick \/ RedisOutage \/ OpaOutage \/ UNCHANGED vars
  BY <1>1, <1>12 DEF Tick, RedisOutage, OpaOutage, vars
<1> QED  BY <1>3, <1>4, <1>5, <1>7, <1>8, <1>9, <1>10, <1>11, <1>12 DEF Next

\* The invariant holds initially.
LEMMA InitIInv == Init => IInv
<1> SUFFICES ASSUME Init PROVE IInv
  OBVIOUS
<1>1. TypeOK
  BY InitTypeOK
<1>2. /\ now = 0 /\ \A j \in Jtis : promised[j] = 0
      /\ \A p \in Clients : call[p].phase = "idle" /\ call[p].op = "none"
                            /\ call[p].until = 0
  BY DEF Init, IdleCall
<1>3. Enforced /\ NotAhead /\ CallsNamed
  BY <1>2, AuthorityAssumption DEF Enforced, NotAhead, CallsNamed
<1> QED  BY <1>1, <1>3 DEF IInv

\* The invariant holds in every reachable state.
THEOREM Invariant == Spec => []IInv
<1>1. IInv /\ [Next]_vars => IInv'
  BY StepTypeOK, StepEnforced, StepNotAhead, StepCallsNamed DEF IInv
<1> QED  BY InitIInv, <1>1, PTL DEF Spec

\* Type correctness of the Coupon Authority.
THEOREM TypeCorrect == Spec => []TypeOK
<1>1. IInv => TypeOK
  BY DEF IInv
<1> QED  BY Invariant, <1>1, PTL

\* An acknowledged revocation is enforced until its time to live is over or its
\* store has lost it (POST /revoke and POST /verify, services/revocation.py).
LEMMA EnforcedBars == IInv => RevocationEnforced
BY DEF IInv, TypeOK, Enforced, Holds, Held, RevocationEnforced, Accepts, IsRevoked

\* RevocationEnforced is an invariant for every number of clients and coupons.
THEOREM RevocationSafe == Spec => []RevocationEnforced
BY Invariant, EnforcedBars, PTL

-----------------------------------------------------------------------------
\* A step mints one coupon, with the key in use and for a subject the policy
\* check let through, or changes no coupon.
LEMMA MintOrKeep ==
    ASSUME TypeOK, [Next]_vars
    PROVE  \/ UNCHANGED coupon
           \/ /\ UNCHANGED <<gen, generated>>
              /\ \E p \in Clients, j \in Jtis :
                   /\ j \notin Minted
                   /\ CheckPermission(call[p].sub)
                   /\ coupon' = [coupon EXCEPT ![j] =
                        [sub |-> call[p].sub, exp |-> now + call[p].ttl, gen |-> gen]]
<1>1. ASSUME NEW p \in Clients, NEW j \in Jtis, IssueMint(p, j)
      PROVE  /\ UNCHANGED <<gen, generated>>
             /\ j \notin Minted
             /\ CheckPermission(call[p].sub)
             /\ coupon' = [coupon EXCEPT ![j] =
                  [sub |-> call[p].sub, exp |-> now + call[p].ttl, gen |-> gen]]
  BY <1>1, Zenon DEF IssueMint, keyVars
<1> QED
  BY <1>1, Zenon DEF Next, vars, SendIssue, SendVerify, SendRevoke, Receive, Handle,
     IssueLimited, IssueLookupFails, IssueDenied, IssueFails, Verify, Revoke,
     RevokeFails, Refused, Logged, Tick, RedisOutage, OpaOutage, Crash, Start,
     RedisLoses

\* Outside DEV_MODE the policy check lets no anonymous subject through.
LEMMA CheckRefusesAnonymous ==
    ASSUME TypeOK, ~DevMode, NEW sub, CheckPermission(sub)
    PROVE  sub # Anonymous
BY Zenon DEF CheckPermission, PolicyAllows

\* Outside DEV_MODE no coupon names the anonymous subject (POST /issue and
\* PolicyEngine.check_permission).
THEOREM AnonymousSafe == Spec => []NoAnonymousCoupon
<1>1. Init => NoAnonymousCoupon
  BY DEF Init, NoAnonymousCoupon, Minted
<1>2. TypeOK /\ NoAnonymousCoupon /\ [Next]_vars => NoAnonymousCoupon'
  <2> SUFFICES ASSUME TypeOK, NoAnonymousCoupon, [Next]_vars, ~DevMode,
                      NEW k \in Jtis, coupon'[k] # NoCoupon
               PROVE  coupon'[k].sub # Anonymous
    BY DEF NoAnonymousCoupon, Minted
  <2>1. CASE UNCHANGED coupon
    BY <2>1 DEF NoAnonymousCoupon, Minted
  <2>2. ASSUME NEW p \in Clients, NEW j \in Jtis, CheckPermission(call[p].sub),
               coupon' = [coupon EXCEPT ![j] =
                  [sub |-> call[p].sub, exp |-> now + call[p].ttl, gen |-> gen]]
        PROVE  coupon'[k].sub # Anonymous
    <3>1. call[p].sub # Anonymous
      BY <2>2, CheckRefusesAnonymous
    <3>2. CASE k = j
      BY <2>2, <3>1, <3>2 DEF TypeOK
    <3>3. CASE k # j
      BY <2>2, <3>3 DEF TypeOK, NoAnonymousCoupon, Minted
    <3> QED  BY <3>2, <3>3
  <2> QED  BY <2>1, <2>2, MintOrKeep
<1> QED  BY <1>1, <1>2, TypeCorrect, PTL DEF Spec

-----------------------------------------------------------------------------
\* The refinement mapping of ImplementsRegistry, by name.
Barred == {j \in Jtis : promised[j] > now}
Accepted == [p \in Clients |->
               IF call[p].phase = "answered" /\ call[p].result = "valid"
               THEN {call[p].jti} ELSE {}]

\* A step that leaves coupons, clock and promises alone and gives no client an
\* accepting answer changes nothing a caller of the registry sees.
LEMMA Unseen ==
    ASSUME TypeOK, UNCHANGED <<coupon, now, promised>>,
           \A p \in Clients :
             IF call'[p].phase = "answered" /\ call'[p].result = "valid"
             THEN call[p].phase = "answered" /\ call[p].result = "valid"
                  /\ call'[p].jti = call[p].jti
             ELSE ~(call[p].phase = "answered" /\ call[p].result = "valid")
    PROVE  UNCHANGED <<Minted, Barred, Accepted>>
BY DEF Minted, Barred, Accepted

\* Every step of the Coupon Authority is a step of the registry or is unseen.
LEMMA StepRefines ==
    IInv /\ [Next]_vars => [Registry!Next]_(Registry!abstractVars)
<1> SUFFICES ASSUME IInv, [Next]_vars
             PROVE  Registry!Next \/ UNCHANGED <<Minted, Barred, Accepted>>
  BY DEF Registry!abstractVars, Barred, Accepted
<1> USE DEF IInv, TypeOK, envVars, keyVars
<1>1. ASSUME NEW p \in Clients, NEW c, c.phase = "sent", Send(p, c),
             UNCHANGED <<coupon, now, promised>>
      PROVE  UNCHANGED <<Minted, Barred, Accepted>>
  BY <1>1, Unseen DEF Send
<1>2. ASSUME NEW p \in Clients, NEW sub \in Subjects, NEW ttl \in Ttls \cup {NoTtl},
             NEW res \in BOOLEAN, SendIssue(p, sub, ttl, res)
      PROVE  UNCHANGED <<Minted, Barred, Accepted>>
  BY <1>1, <1>2 DEF SendIssue, IdleCall
<1>3. ASSUME NEW p \in Clients, NEW j \in Jtis \cup {NoJti}, SendVerify(p, j)
      PROVE  UNCHANGED <<Minted, Barred, Accepted>>
  BY <1>1, <1>3 DEF SendVerify, IdleCall
<1>14. ASSUME NEW p \in Clients, NEW j \in Jtis, SendRevoke(p, j)
      PROVE  UNCHANGED <<Minted, Barred, Accepted>>
  BY <1>1, <1>14 DEF SendRevoke, IdleCall
<1>4. ASSUME NEW p \in Clients, Receive(p)
      PROVE  Registry!Next
  <2>1. /\ Minted' = Minted /\ Barred' = Barred
        /\ Accepted' = [Accepted EXCEPT ![p] = {}]
    BY <1>4 DEF Receive, IdleCall, Minted, Barred, Accepted
  <2>2. Registry!Consume(p)
    BY <2>1 DEF Registry!Consume, Barred, Accepted
  <2> QED  BY <2>2 DEF Registry!Next
<1>5. ASSUME NEW p \in Clients, NEW r, r # "valid", Answer(p, r),
             call[p].phase \in {"sent", "logging"}, UNCHANGED <<coupon, now, promised>>
      PROVE  UNCHANGED <<Minted, Barred, Accepted>>
  BY <1>5, Unseen DEF Answer, Call
<1>6. ASSUME NEW p \in Clients, Handle(p)
      PROVE  Registry!Next \/ UNCHANGED <<Minted, Barred, Accepted>>
  <2>1. CASE IssueLimited(p) \/ IssueLookupFails(p) \/ IssueFails(p) \/ RevokeFails(p)
             \/ Refused(p)
    BY <2>1, <1>5 DEF IssueLimited, IssueLookupFails, IssueFails, RevokeFails,
       Refused, Looked, Serving
  <2>2. ASSUME NEW r, NEW j, NEW t, call[p].phase = "sent", Park(p, r, j, t)
        PROVE  /\ \A q \in Clients \ {p} : call'[q] = call[q]
               /\ call'[p].phase = "logging"
    BY <2>2 DEF Park, Call
  <2>3. CASE IssueDenied(p) \/ Revoke(p)
    <3>1. call[p].phase = "sent" /\ (\E r, j, t : Park(p, r, j, t))
          /\ UNCHANGED <<coupon, now, promised>>
      BY <2>3 DEF IssueDenied, Revoke, Looked, Serving
    <3> QED  BY <2>2, <3>1, Unseen
  <2>4. ASSUME NEW j \in Jtis, IssueMint(p, j)
        PROVE  Registry!Next
    <3>1. call[p].sub \in Subjects /\ call[p].ttl \in Nat
      BY <2>4, AuthorityAssumption DEF IssueMint, Call
    <3>2. [sub |-> call[p].sub, exp |-> now + call[p].ttl, gen |-> gen] # NoCoupon
      <4>1. [sub |-> call[p].sub, exp |-> now + call[p].ttl, gen |-> gen] \in Coupon
        BY <3>1 DEF Coupon
      <4> QED  BY <4>1, CouponAssumption
    <3>3. j \notin Minted /\ Minted' = Minted \cup {j}
      BY <2>4, <3>2 DEF IssueMint, Minted
    <3>4. call[p].phase = "sent" /\ Park(p, "ok", j, 0) /\ UNCHANGED <<now, promised>>
      BY <2>4 DEF IssueMint, Looked, Serving
    <3>5. Accepted' = Accepted /\ Barred' = Barred
      BY <2>2, <3>4 DEF Accepted, Barred
    <3>6. Registry!Mint(j)
      BY <3>3, <3>5 DEF Registry!Mint, Accepted, Barred
    <3> QED  BY <3>6 DEF Registry!Next
  <2>5. CASE Verify(p)
    <3>1. PICK j : j = call[p].jti
      OBVIOUS
    <3>2. CASE Accepts(j)
      <4>1. j \in Minted \ Barred
        BY <2>5, <3>2, EnforcedBars DEF Verify, Serving, RevocationEnforced,
           Accepts, VerifyCoupon, Minted, Barred
      <4>2. Answer(p, "valid") /\ UNCHANGED <<coupon, now, promised>>
        BY <2>5, <3>1, <3>2 DEF Verify
      <4>3. Accepted' = [Accepted EXCEPT ![p] = {j}]
        BY <3>1, <4>2 DEF Answer, Accepted, Call
      <4>4. Minted' = Minted /\ Barred' = Barred
        BY <4>2 DEF Minted, Barred
      <4>5. Registry!Accept(p, j)
        BY <4>1, <4>3, <4>4 DEF Registry!Accept, Accepted, Barred
      <4>6. j \in Jtis
        BY <4>1 DEF Minted
      <4> QED  BY <4>5, <4>6 DEF Registry!Next
    <3>3. CASE ~Accepts(j)
      <4>1. Answer(p, "invalid") /\ UNCHANGED <<coupon, now, promised>>
            /\ call[p].phase = "sent"
        BY <2>5, <3>1, <3>3 DEF Verify, Serving
      <4> QED  BY <1>5, <4>1
    <3> QED  BY <3>2, <3>3
  <2> QED  BY <1>6, <2>1, <2>3, <2>4, <2>5 DEF Handle
<1>7. ASSUME NEW p \in Clients, Logged(p)
      PROVE  Registry!Next \/ UNCHANGED <<Minted, Barred, Accepted>>
  <2>1. /\ call[p].result \in {"ok", "denied"} /\ call[p].phase = "logging"
        /\ Answer(p, call[p].result) /\ UNCHANGED <<coupon, now>>
    BY <1>7 DEF Logged, CallsNamed
  <2>2. Minted' = Minted /\ Accepted' = Accepted
    BY <2>1 DEF Answer, Call, Minted, Accepted
  <2>3. CASE UNCHANGED promised
    BY <2>1, <2>2, <2>3 DEF Barred
  <2>4. CASE call[p].op = "revoke" /\ call[p].until > promised[call[p].jti]
    <3>1. PICK j \in Minted : j = call[p].jti
      BY <2>4 DEF CallsNamed
    <3>2. promised' = [promised EXCEPT ![j] = call[p].until] /\ j \in Jtis
      BY <1>7, <2>4, <3>1 DEF Logged, Minted
    <3>3. call[p].until \in Nat
      BY DEF Call
    <3>4. CASE call[p].until > now
      <4>1. Barred' = Barred \cup {j}
        BY <2>1, <3>2, <3>3, <3>4 DEF Barred
      <4>2. Registry!Bar(j)
        BY <2>2, <3>1, <4>1 DEF Registry!Bar, Accepted, Barred
      <4> QED  BY <3>2, <4>2 DEF Registry!Next
    <3>5. CASE ~(call[p].until > now)
      <4>1. Barred' = Barred
        BY <2>1, <2>4, <3>1, <3>2, <3>3, <3>5 DEF Barred
      <4> QED  BY <2>2, <4>1
    <3> QED  BY <3>4, <3>5
  <2> QED  BY <1>7, <2>3, <2>4 DEF Logged
\* Time passes, a store forgets, a process starts: revocations lapse.
<1>8. ASSUME Barred' \subseteq Barred, Minted' = Minted, Accepted' = Accepted
      PROVE  Registry!Next
  <2>1. Registry!Lapse
    BY <1>8 DEF Registry!Lapse, Barred, Accepted
  <2> QED  BY <2>1 DEF Registry!Next
<1>9. CASE Tick
  <2>1. now' = now + 1 /\ UNCHANGED <<coupon, call, promised>>
    BY <1>9 DEF Tick
  <2> QED  BY <1>8, <2>1 DEF Barred, Minted, Accepted
<1>10. ASSUME NEW j \in Jtis, RedisLoses(j)
       PROVE  Registry!Next
  <2>1. UNCHANGED <<coupon, now>>
    BY <1>10 DEF RedisLoses
  <2>2. \A k \in Jtis : promised'[k] = promised[k] \/ promised'[k] = 0
    BY <1>10 DEF RedisLoses
  <2>3. \A p \in Clients : /\ call'[p].phase = call[p].phase
                            /\ call'[p].result = call[p].result
                            /\ call'[p].jti = call[p].jti
    BY <1>10 DEF RedisLoses, Call
  <2>4. Barred' \subseteq Barred
    BY <2>1, <2>2 DEF Barred
  <2>5. Minted' = Minted
    BY <2>1 DEF Minted
  <2>6. Accepted' = Accepted
    BY <2>3, Zenon DEF Accepted
  <2> QED  BY <1>8, <2>4, <2>5, <2>6
<1>11. CASE Crash
  <2>1. UNCHANGED <<coupon, now, promised>>
    BY <1>11, Zenon DEF Crash
  <2>2. \A p \in Clients :
          \/ call'[p] = call[p]
          \/ /\ call[p].phase \in {"sent", "logging"}
             /\ call'[p].result = "unreachable"
    BY <1>11 DEF Crash, Call
  <2> QED  BY <2>1, <2>2, Unseen
<1>12. CASE Start
  <2>1. UNCHANGED <<coupon, now, call>>
    BY <1>12, Zenon DEF Start
  <2>2. promised' = promised \/ promised' = [j \in Jtis |-> 0]
    BY <1>12, Zenon DEF Start
  <2> QED  BY <1>8, <2>1, <2>2 DEF Barred, Minted, Accepted
<1>13. CASE RedisOutage \/ OpaOutage \/ UNCHANGED vars
  <2>1. UNCHANGED <<coupon, now, promised, call>>
    BY <1>13, Zenon DEF RedisOutage, OpaOutage, vars
  <2> QED  BY <2>1 DEF Barred, Minted, Accepted
<1> QED
  BY <1>2, <1>3, <1>14, <1>4, <1>6, <1>7, <1>9, <1>10, <1>11, <1>12, <1>13 DEF Next

\* The Coupon Authority implements the registry its API promises: a coupon is
\* accepted only while it is minted and no acknowledged revocation bars it.
THEOREM Refinement == Spec => ImplementsRegistry
<1>1. Init => Registry!Init
  BY AuthorityAssumption DEF Init, Registry!Init, Minted, IdleCall
<1> QED  BY <1>1, StepRefines, Invariant, PTL DEF Spec, ImplementsRegistry, Registry!Spec
=============================================================================
