-------------------------- MODULE CouponAuthority --------------------------
(***************************************************************************)
(* The Coupon Authority (backend/): issuing, verifying and revoking        *)
(* coupons, with the signing key, the revocation store and the policy      *)
(* engine it depends on.                                                   *)
(*                                                                         *)
(* The handlers are coroutines of one event loop, and everything they call *)
(* before the first await that really suspends is blocking code, so each   *)
(* runs atomically up to `await audit_service.log_event(...)`: there the   *)
(* handler is parked ("logging") while others run.  The process may crash  *)
(* between any two steps; Redis and OPA come and go.                       *)
(***************************************************************************)
EXTENDS Naturals, FiniteSets

CONSTANTS Jtis,          \* coupon identifiers (uuid4 values)
          Clients,       \* callers with at most one request each in flight
          Users,         \* subjects an authenticated request may carry
          Anonymous,     \* the subject of a request with no usable token
          Ttls,          \* values of ttl_seconds a request may ask for
          NoTtl,         \* ttl_seconds sent as null
          NoCoupon,      \* "not minted yet"
          NoJti,         \* "this call names no coupon of this authority"
          RevokeTtl,     \* time to live of a revocation entry (3600 s)
          KeysConfigured, \* TRUE when a PASETO_PRIVATE_KEY_* is configured
          DevMode,       \* settings.DEV_MODE
          MaxNow,        \* bound: the clock stops there
          MaxFaults      \* bound: outages, losses and crashes in a behaviour

ASSUME AuthorityAssumption ==
    /\ Anonymous \notin Users
    /\ Ttls \subseteq Nat /\ NoTtl \notin Ttls
    /\ NoJti \notin Jtis
    /\ RevokeTtl \in Nat /\ MaxNow \in Nat /\ MaxFaults \in Nat
    /\ KeysConfigured \in BOOLEAN /\ DevMode \in BOOLEAN

VARIABLES
    now,      \* the clock
    faults,   \* how many faults have happened
    opaUp,    \* OPA answers
    redisUp,  \* Redis answers
    redisRev, \* Redis: for each jti the expiry of its key `revoked:<jti>`, 0: none
    proc,     \* the backend process: "up" or "down"
    store,    \* the revocation client chosen at import: "redis" or "mock"
    mockRev,  \* keys of MockRedisRevoke
    gen,      \* the signing key in use: 0 the configured one, n the n-th generated
    generated, \* how many keys the processes so far have generated
    coupon,   \* the coupons minted: subject, expiry and key generation
    call,     \* the request of each client and the handler that serves it
    promised  \* history: until when the acknowledged revocation of a jti holds

vars == <<now, faults, opaUp, redisUp, redisRev, proc, store, mockRev, gen,
          generated, coupon, call, promised>>
envVars == <<now, faults, opaUp, redisUp>>
keyVars == <<gen, generated>>

Subjects == Users \cup {Anonymous}
Phases   == {"idle", "sent", "logging", "answered"}
Ops      == {"none", "issue", "verify", "revoke"}
Results  == {"none", "ok", "denied", "error", "valid", "invalid", "limited",
             "unreachable"}

Coupon == [sub : Subjects, exp : Nat, gen : Nat]

ASSUME CouponAssumption == NoCoupon \notin Coupon

\* `until` is history: how long the revocation written by this call lasts.
Call == [phase : Phases, op : Ops, jti : Jtis \cup {NoJti}, sub : Subjects,
         ttl : Ttls \cup {NoTtl}, resource : BOOLEAN, result : Results,
         until : Nat]

IdleCall == [phase |-> "idle", op |-> "none", jti |-> NoJti, sub |-> Anonymous,
             ttl |-> NoTtl, resource |-> FALSE, result |-> "none", until |-> 0]

Minted == {j \in Jtis : coupon[j] # NoCoupon}

-----------------------------------------------------------------------------
(* Pieces of the code the handlers share.                                  *)

\* The rule policies/main.rego gives path /issue: any subject but anonymous.
\* The delegations of the input are not read by it.
PolicyAllows(sub) == sub # Anonymous

\* Faulty variant: fails open outside DEV_MODE too.
CheckPermissionOpen(sub) == opaUp => PolicyAllows(sub)

\* PolicyEngine.check_permission: OPA's answer, or on any exception DEV_MODE.
CheckPermission(sub) == IF opaUp THEN PolicyAllows(sub) ELSE DevMode

\* A call to the revocation (or delegation) client raises exactly when the
\* client is the real one and Redis does not answer.
StoreRaises == store = "redis" /\ ~redisUp

\* is_jti_revoked, when it does not raise.  The mock has no expiry.
IsRevoked(j) == IF store = "redis" THEN redisRev[j] > now ELSE j \in mockRev

\* verify_coupon: the signature under the key in use, and nothing else of the
\* claims: `exp` is decoded and returned, never compared with the clock.
VerifyCoupon(j) == j \in Minted /\ coupon[j].gen = gen

\* Faulty variant: a store that does not answer counts as "not revoked".
AcceptsUnchecked(j) == VerifyCoupon(j) /\ (StoreRaises \/ ~IsRevoked(j))

\* The answer of POST /verify; every exception is an invalid coupon.
Accepts(j) == VerifyCoupon(j) /\ ~StoreRaises /\ ~IsRevoked(j)

\* The handler of p is done, or is parked in log_event.
Answer(p, r) ==
    call' = [call EXCEPT ![p] = [@ EXCEPT !.phase = "answered", !.result = r]]
Park(p, r, j, until) ==
    call' = [call EXCEPT ![p] = [@ EXCEPT !.phase = "logging", !.result = r,
                                          !.jti = j, !.until = until]]
Send(p, c) == call[p].phase = "idle" /\ call' = [call EXCEPT ![p] = c]

-----------------------------------------------------------------------------
Init ==
    /\ now = 0
    /\ faults = 0
    /\ opaUp = TRUE
    /\ redisUp \in BOOLEAN
    /\ redisRev = [j \in Jtis |-> 0]
    /\ proc = "up"
    /\ store = IF redisUp THEN "redis" ELSE "mock"
    /\ mockRev = {}
    /\ \/ KeysConfigured /\ gen = 0 /\ generated = 0
       \/ gen = 1 /\ generated = 1
    /\ coupon = [j \in Jtis |-> NoCoupon]
    /\ call = [p \in Clients |-> IdleCall]
    /\ promised = [j \in Jtis |-> 0]

-----------------------------------------------------------------------------
(* The callers.                                                            *)

\* POST /issue; a header that is absent or does not decode leaves the caller
\* anonymous, and the mTLS fallback finds no certificate hash in a Request.
SendIssue(p, sub, ttl, res) ==
    /\ Minted # Jtis
    /\ Send(p, [IdleCall EXCEPT !.phase = "sent", !.op = "issue", !.sub = sub,
                                !.ttl = ttl, !.resource = res])
    /\ UNCHANGED <<envVars, redisRev, proc, store, mockRev, keyVars, coupon, promised>>

\* POST /verify with any text: a coupon, or one that no key here has signed.
SendVerify(p, j) ==
    /\ j \in Minted \cup {NoJti}
    /\ Send(p, [IdleCall EXCEPT !.phase = "sent", !.op = "verify", !.jti = j])
    /\ UNCHANGED <<envVars, redisRev, proc, store, mockRev, keyVars, coupon, promised>>

SendRevoke(p, j) ==
    /\ j \in Minted
    /\ Send(p, [IdleCall EXCEPT !.phase = "sent", !.op = "revoke", !.jti = j])
    /\ UNCHANGED <<envVars, redisRev, proc, store, mockRev, keyVars, coupon, promised>>

\* The caller reads its answer, or the answer is lost on the way.
Receive(p) ==
    /\ call[p].phase = "answered"
    /\ call' = [call EXCEPT ![p] = IdleCall]
    /\ UNCHANGED <<envVars, redisRev, proc, store, mockRev, keyVars, coupon, promised>>

\* The connection is refused: there is no process to serve the request.
Refused(p) ==
    /\ proc = "down"
    /\ call[p].phase = "sent"
    /\ Answer(p, "unreachable")
    /\ UNCHANGED <<envVars, redisRev, proc, store, mockRev, keyVars, coupon, promised>>

-----------------------------------------------------------------------------
(* The handlers.                                                           *)

\* The request is being handled by the live process and not parked yet.
Serving(p, op) == proc = "up" /\ call[p].phase = "sent" /\ call[p].op = op

\* slowapi answers 429 before the handler; its fixed window is not modelled.
IssueLimited(p) ==
    /\ Serving(p, "issue")
    /\ Answer(p, "limited")
    /\ UNCHANGED <<envVars, redisRev, proc, store, mockRev, keyVars, coupon, promised>>

\* get_delegations_for_resource raises outside any try: a 500, before OPA.
IssueLookupFails(p) ==
    /\ Serving(p, "issue")
    /\ call[p].resource /\ StoreRaises
    /\ Answer(p, "error")
    /\ UNCHANGED <<envVars, redisRev, proc, store, mockRev, keyVars, coupon, promised>>

\* The delegations lookup, made only for a named resource, has returned.
Looked(p) == Serving(p, "issue") /\ ~(call[p].resource /\ StoreRaises)

\* Denied: audited, then 403.
IssueDenied(p) ==
    /\ Looked(p)
    /\ ~CheckPermission(call[p].sub)
    /\ Park(p, "denied", NoJti, 0)
    /\ UNCHANGED <<envVars, redisRev, proc, store, mockRev, keyVars, coupon, promised>>

\* timedelta(seconds=None) raises inside the try: a 500, nothing minted.
IssueFails(p) ==
    /\ Looked(p)
    /\ CheckPermission(call[p].sub)
    /\ call[p].ttl = NoTtl
    /\ Answer(p, "error")
    /\ UNCHANGED <<envVars, redisRev, proc, store, mockRev, keyVars, coupon, promised>>

\* create_coupon with a fresh jti, then the audit event.
IssueMint(p, j) ==
    /\ Looked(p)
    /\ CheckPermission(call[p].sub)
    /\ call[p].ttl # NoTtl
    /\ j \notin Minted
    /\ coupon' = [coupon EXCEPT ![j] =
                    [sub |-> call[p].sub, exp |-> now + call[p].ttl, gen |-> gen]]
    /\ Park(p, "ok", j, 0)
    /\ UNCHANGED <<envVars, redisRev, proc, store, mockRev, keyVars, promised>>

Verify(p) ==
    /\ Serving(p, "verify")
    /\ Answer(p, IF Accepts(call[p].jti) THEN "valid" ELSE "invalid")
    /\ UNCHANGED <<envVars, redisRev, proc, store, mockRev, keyVars, coupon, promised>>

\* Faulty variants: a key that exists is not written again; the record is
\* listed instead of its jti.
RevokeUnlessListed(p) ==
    /\ Serving(p, "revoke")
    /\ ~StoreRaises
    /\ IF store = "redis"
       THEN /\ redisRev' = [redisRev EXCEPT ![call[p].jti] =
                              IF @ > now THEN @ ELSE now + RevokeTtl]
            /\ UNCHANGED mockRev
       ELSE /\ mockRev' = mockRev \cup {call[p].jti}
            /\ UNCHANGED redisRev
    /\ Park(p, "ok", call[p].jti, now + RevokeTtl)
    /\ UNCHANGED <<envVars, proc, store, keyVars, coupon, promised>>
RevokeRecord(p) ==
    /\ Serving(p, "revoke")
    /\ store = "mock"
    /\ mockRev' = mockRev \cup {coupon[call[p].jti]}
    /\ Park(p, "ok", call[p].jti, now + RevokeTtl)
    /\ UNCHANGED <<envVars, redisRev, proc, store, keyVars, coupon, promised>>

\* revoke_jti (SETEX with a fixed time to live, overwriting), then the audit
\* event.
Revoke(p) ==
    /\ Serving(p, "revoke")
    /\ ~StoreRaises
    /\ IF store = "redis"
       THEN /\ redisRev' = [redisRev EXCEPT ![call[p].jti] = now + RevokeTtl]
            /\ UNCHANGED mockRev
       ELSE /\ mockRev' = mockRev \cup {call[p].jti}
            /\ UNCHANGED redisRev
    /\ Park(p, "ok", call[p].jti, now + RevokeTtl)
    /\ UNCHANGED <<envVars, proc, store, keyVars, coupon, promised>>

\* Redis is away: revoke_jti raises, a 500, and nothing is audited.
RevokeFails(p) ==
    /\ Serving(p, "revoke")
    /\ StoreRaises
    /\ Answer(p, "error")
    /\ UNCHANGED <<envVars, redisRev, proc, store, mockRev, keyVars, coupon, promised>>

\* log_event returns (it never raises) and the handler answers.
Logged(p) ==
    /\ proc = "up"
    /\ call[p].phase = "logging"
    /\ Answer(p, call[p].result)
    /\ IF call[p].op = "revoke" /\ call[p].until > promised[call[p].jti]
       THEN promised' = [promised EXCEPT ![call[p].jti] = call[p].until]
       ELSE UNCHANGED promised
    /\ UNCHANGED <<envVars, redisRev, proc, store, mockRev, keyVars, coupon>>

-----------------------------------------------------------------------------
(* The environment.                                                        *)

Tick == /\ now < MaxNow
        /\ now' = now + 1
        /\ UNCHANGED <<faults, opaUp, redisUp, redisRev, proc, store, mockRev,
                       keyVars, coupon, call, promised>>

Fault == faults < MaxFaults /\ faults' = faults + 1

RedisOutage == /\ Fault
               /\ redisUp' = ~redisUp
               /\ UNCHANGED <<now, opaUp, redisRev, proc, store, mockRev, keyVars,
                              coupon, call, promised>>

OpaOutage == /\ Fault
             /\ opaUp' = ~opaUp
             /\ UNCHANGED <<now, redisUp, redisRev, proc, store, mockRev, keyVars,
                            coupon, call, promised>>

\* Redis drops a key before its time: it runs with allkeys-lru and without
\* persistence.  Nothing is promised of a revocation that was dropped.
RedisLoses(j) ==
    /\ Fault
    /\ redisRev[j] > now
    /\ redisRev' = [redisRev EXCEPT ![j] = 0]
    /\ IF store = "redis"
       THEN /\ promised' = [promised EXCEPT ![j] = 0]
            /\ call' = [p \in Clients |-> IF call[p].jti = j
                                          THEN [call[p] EXCEPT !.until = 0]
                                          ELSE call[p]]
       ELSE UNCHANGED <<promised, call>>
    /\ UNCHANGED <<now, opaUp, redisUp, proc, store, mockRev, keyVars, coupon>>

\* The process dies; the requests it was serving are cut.
Crash ==
    /\ proc = "up"
    /\ Fault
    /\ proc' = "down"
    /\ call' = [p \in Clients |->
                  IF call[p].phase \in {"sent", "logging"}
                  THEN [call[p] EXCEPT !.phase = "answered", !.result = "unreachable"]
                  ELSE call[p]]
    /\ UNCHANGED <<now, opaUp, redisUp, redisRev, store, mockRev, keyVars, coupon,
                   promised>>

\* The configured key pair; or new keys, when none is configured and when the
\* file is not there or does not load at this start.
LoadOrGenerateKeys ==
    \/ KeysConfigured /\ gen' = 0 /\ UNCHANGED generated
    \/ generated' = generated + 1 /\ gen' = generated + 1

\* A new process: the modules are imported again, so the keys are loaded or
\* generated, and the revocation client is Redis if it answers the ping, else
\* an empty mock for the life of this process.  What the previous process
\* promised is kept only when both use Redis.
Start ==
    /\ proc = "down"
    /\ proc' = "up"
    /\ store' = IF redisUp THEN "redis" ELSE "mock"
    /\ mockRev' = {}
    /\ LoadOrGenerateKeys
    /\ promised' = IF store = "redis" /\ redisUp
                   THEN promised ELSE [j \in Jtis |-> 0]
    /\ UNCHANGED <<envVars, redisRev, coupon, call>>

-----------------------------------------------------------------------------
Handle(p) ==
    \/ IssueLimited(p) \/ IssueLookupFails(p) \/ IssueDenied(p) \/ IssueFails(p)
    \/ \E j \in Jtis : IssueMint(p, j)
    \/ Verify(p) \/ Revoke(p) \/ RevokeFails(p) \/ Refused(p)

Next ==
    \/ \E p \in Clients :
         \/ \E sub \in Subjects, ttl \in Ttls \cup {NoTtl}, res \in BOOLEAN :
              SendIssue(p, sub, ttl, res)
         \/ \E j \in Jtis \cup {NoJti} : SendVerify(p, j)
         \/ \E j \in Jtis : SendRevoke(p, j)
         \/ Receive(p)
         \/ Handle(p)
         \/ Logged(p)
    \/ Tick \/ RedisOutage \/ OpaOutage \/ Crash \/ Start
    \/ \E j \in Jtis : RedisLoses(j)

Spec == Init /\ [][Next]_vars

-----------------------------------------------------------------------------
TypeOK ==
    /\ now \in Nat /\ faults \in Nat
    /\ opaUp \in BOOLEAN /\ redisUp \in BOOLEAN
    /\ redisRev \in [Jtis -> Nat]
    /\ proc \in {"up", "down"}
    /\ store \in {"redis", "mock"}
    /\ mockRev \subseteq Jtis
    /\ gen \in Nat /\ generated \in Nat
    /\ coupon \in [Jtis -> Coupon \cup {NoCoupon}]
    /\ call \in [Clients -> Call]
    /\ promised \in [Jtis -> Nat]

\* A revocation that was answered 200 is enforced by every verification that
\* takes effect in the RevokeTtl that follows the SETEX, in whatever order the
\* handlers interleave, also while Redis is away (verify fails closed) and
\* across restarts that find Redis again (endpoints.py verify and revoke).
RevocationEnforced ==
    \A j \in Jtis : proc = "up" /\ promised[j] > now => ~Accepts(j)

\* Outside DEV_MODE no coupon ever names the anonymous subject: neither an OPA
\* outage, nor a failed delegation lookup, nor a bad token leads to a mint
\* (policy.py check_permission answers False on every exception).
NoAnonymousCoupon ==
    ~DevMode => \A j \in Minted : coupon[j].sub # Anonymous

\* The promise of the API, with the acknowledged revocations as `barred`.
Registry == INSTANCE CouponRegistry WITH
    minted   <- Minted,
    barred   <- {j \in Jtis : promised[j] > now},
    accepted <- [p \in Clients |->
                   IF call[p].phase = "answered" /\ call[p].result = "valid"
                   THEN {call[p].jti} ELSE {}]

\* The Coupon Authority implements CouponRegistry: a verification is accepted
\* only at an instant where its coupon is minted and not barred.
ImplementsRegistry == Registry!Spec

-----------------------------------------------------------------------------
(* What the documents say, compared with what the code does.               *)

\* README.md: /verify "Checks if a coupon is valid, not expired, and not
\* revoked".
ExpiredCouponsRejected ==
    \A j \in Minted : coupon[j].exp < now => ~Accepts(j)
=============================================================================
