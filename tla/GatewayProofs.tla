--------------------------- MODULE GatewayProofs ---------------------------
(***************************************************************************)
(* Theorems about Gateway for any requests, coupons, scopes and settings,  *)
(* and any number of retries and faults.  That a request that passed was   *)
(* checked has to be known before it passes: the invariant says of each    *)
(* request how far its plugins are, what its answer is worth and what it   *)
(* has cost, and of the cache that every entry was once accepted.  Then    *)
(* theorems about PurposeBinding for scopes of any length, and what the    *)
(* two together promise.                                                   *)
(***************************************************************************)
EXTENDS Gateway, PurposeBinding, WellFoundedInduction, TLAPS

InFlight(r) == req[r].phase \in {"asking", "replied", "sleeping"}
Importable == \A i \in DOMAIN setting : setting[i] \in {"verify", "purpose"}

\* The process that is up runs the plugins of its setting, one that is down
\* serves no request, and nothing goes wrong without a fault.
ProcessInv ==
    /\ accepted \in [Requests -> SUBSET Coupons]
    /\ IF up THEN plugins = setting /\ Importable
       ELSE \A r \in Requests : req[r].phase \in {"new", "done"}
    /\ faults = 0 => caUp

\* Every cached token was accepted for a request that carried it.
CacheEarned ==
    \A c \in cache : \E q \in Requests :
        req[q].phase # "new" /\ req[q].token = c /\ accepted[q] # {}

\* A request that has not come is as it was; one under way whose token is minted
\* and not barred now has a history of carrying a good one.
Arrived(r) ==
    /\ req[r].phase = "new" => req[r] = NewReq
    /\ req[r].phase # "done" => req[r].status = "none"
    /\ req[r].phase # "new" =>
         /\ req[r].token \in Coupons => req[r].token \in minted
         /\ req[r].fresh => req[r].token \in minted
    /\ req[r].phase \notin {"new", "done"} =>
         (req[r].token \in minted \ barred => req[r].fresh)

\* A verification at work is the first plugin of a protected request, and has
\* made as many calls as attempts.
Verifying(r) ==
    InFlight(r) =>
      /\ req[r].target \notin Open
      /\ req[r].next = 1 /\ setting # <<>> /\ setting[1] = "verify"
      /\ req[r].by = "none"
      /\ req[r].token # NoToken
      /\ req[r].attempt <= Retries /\ req[r].asks = req[r].attempt + 1
      /\ req[r].phase = "sleeping" => req[r].attempt < Retries

\* A valid answer was earned; without faults an invalid one was, too, and no
\* other is given.
AnswerEarned(r) ==
    /\ req[r].phase = "replied" /\ req[r].reply = "valid" =>
         req[r].fresh /\ accepted[r] # {}
    /\ faults = 0 =>
         /\ req[r].phase # "sleeping"
         /\ req[r].phase = "replied" =>
              \/ req[r].reply = "valid"
              \/ req[r].reply = "invalid" /\ ~(req[r].fresh /\ req[r].token \notin barred)

\* OnlyGoodCouponsPass and RefusedForCause, of one request.
PassedWell(r) ==
    Passed(r) /\ req[r].target \notin Open =>
      /\ Named("verify") \/ Named("purpose") =>
           req[r].fresh \/ (OfflineCache /\ req[r].by = "cache")
      /\ Named("purpose") => <<req[r].token, req[r].target>> \in Permits
      /\ Importable

VerifiesFirst == setting \in {<<"verify", "purpose">>, <<"verify">>, <<>>}

RefusedWell(r) ==
    req[r].phase = "done" =>
      /\ req[r].status = "authority_unavailable" => req[r].asks = Retries + 1
      /\ /\ faults = 0 /\ req[r].fresh /\ req[r].token \notin barred
         /\ <<req[r].token, req[r].target>> \in Permits
         /\ VerifiesFirst
         => Passed(r)

Good(r) == Arrived(r) /\ Verifying(r) /\ AnswerEarned(r) /\ PassedWell(r) /\ RefusedWell(r)

IInv == TypeOK /\ ProcessInv /\ CacheEarned /\ \A r \in Requests : Good(r)

-----------------------------------------------------------------------------
(* The pipeline.                                                           *)

\* A request as it is while, and after, the plugins run.
Forwarded(q) == [q EXCEPT !.phase = "forwarding", !.by = IF @ = "none" THEN "nobody" ELSE @]
Mismatched(q) == [q EXCEPT !.phase = "done", !.status = "purpose_mismatch"]
Unfilled(q) == [q EXCEPT !.phase = "done", !.status = "missing_coupon"]
Asked(q) == [q EXCEPT !.phase = "asking", !.next = 1, !.asks = 1]

\* What a loaded list of plugins is.
LEMMA PluginsAre ==
    ASSUME TypeOK, ProcessInv, up
    PROVE  /\ plugins = setting /\ Len(setting) \in Nat /\ DOMAIN setting = 1 .. Len(setting)
           /\ \A i, j \in 1 .. Len(setting) : setting[i] = "verify" /\ setting[j] = "verify" => i = j
           /\ \A i \in 1 .. Len(setting) : setting[i] \in {"verify", "purpose"}
<1>1. setting \in Settings /\ plugins = setting /\ Importable
  BY DEF TypeOK, ProcessInv
<1>2. setting \in Seq(STRING)
  BY <1>1, GatewayAssumption
<1>3. Len(setting) \in Nat /\ DOMAIN setting = 1 .. Len(setting)
  BY <1>2
<1> QED  BY <1>1, <1>3, GatewayAssumption DEF Importable

\* The index at which Pipeline finds the next verification.
NextVerify(q) == CHOOSE i \in q.next + 1 .. Len(plugins) + 1 :
                    /\ i > Len(plugins) \/ plugins[i] = "verify"
                    /\ \A k \in q.next + 1 .. i - 1 : plugins[k] # "verify"

\* A request that arrives: without plugins it passes, purpose binding first
\* finds no claims, a verification first needs a token.
LEMMA PipelineStarts ==
    ASSUME TypeOK, ProcessInv, up, NEW q \in Req, q.next = 0, ~q.claims
    PROVE  Pipeline(q) = IF setting = <<>> THEN Forwarded(q)
                         ELSE IF setting[1] # "verify" THEN Mismatched(q)
                         ELSE IF q.token = NoToken THEN Unfilled(q)
                         ELSE Asked(q)
<1> DEFINE n == Len(setting)
           Is(i) == /\ i > n \/ setting[i] = "verify"
                    /\ \A k \in 1 .. i - 1 : setting[k] # "verify"
<1>1. plugins = setting /\ n \in Nat /\ DOMAIN setting = 1 .. n
      /\ \A i, j \in 1 .. n : setting[i] = "verify" /\ setting[j] = "verify" => i = j
  BY PluginsAre
<1>2. (setting = <<>>) = (n = 0)
  <2>1. setting \in Seq(STRING)
    BY GatewayAssumption DEF TypeOK
  <2> QED  BY <2>1
<1>3. NextVerify(q) = CHOOSE i \in 1 .. n + 1 : Is(i)
  BY <1>1 DEF NextVerify
<1>4. \E i \in 1 .. n + 1 : Is(i)
  <2>1. CASE \E j \in 1 .. n : setting[j] = "verify"
    <3>1. PICK j \in 1 .. n : setting[j] = "verify"
      BY <2>1
    <3>2. Is(j)
      BY <1>1, <3>1
    <3> QED  BY <1>1, <3>2
  <2>2. CASE ~\E j \in 1 .. n : setting[j] = "verify"
    <3>1. Is(n + 1)
      BY <1>1, <2>2
    <3> QED  BY <1>1, <3>1
  <2> QED  BY <2>1, <2>2
<1> DEFINE v == NextVerify(q)
<1>5. v \in 1 .. n + 1 /\ Is(v)
  BY <1>3, <1>4
<1>6. (v = 1) = (n = 0 \/ setting[1] = "verify")
  BY <1>1, <1>5
<1>7. n = 0 => v > n
  BY <1>1, <1>5
<1>8. n # 0 /\ v = 1 => ~(v > n)
  BY <1>1
<1>9. Pipeline(q) =
        IF ~(v = 1) THEN Mismatched(q)
        ELSE IF v > n THEN Forwarded(q)
        ELSE IF q.token = NoToken THEN Unfilled(q)
        ELSE [q EXCEPT !.phase = "asking", !.next = v, !.asks = 1]
  BY <1>1 DEF Pipeline, NextVerify, Mismatched, Forwarded, Unfilled
<1> HIDE DEF v, n, Is
<1> QED  BY <1>2, <1>6, <1>7, <1>8, <1>9 DEF Asked

\* A request that the verification lets pass: only purpose binding is left.
LEMMA PipelineEnds ==
    ASSUME TypeOK, ProcessInv, up, NEW q \in Req, q.next = 1, q.claims,
           setting # <<>>, setting[1] = "verify"
    PROVE  Pipeline(q) = IF Len(setting) = 1 \/ <<q.token, q.target>> \in Permits
                         THEN Forwarded(q) ELSE Mismatched(q)
<1> DEFINE n == Len(setting)
           v == NextVerify(q)
<1>1. plugins = setting /\ n \in Nat /\ DOMAIN setting = 1 .. n
      /\ \A i, j \in 1 .. n : setting[i] = "verify" /\ setting[j] = "verify" => i = j
  BY PluginsAre
<1>2. n # 0
  <2>1. setting \in Seq(STRING)
    BY GatewayAssumption DEF TypeOK
  <2> QED  BY <2>1
<1>3. \A i \in 2 .. n : setting[i] # "verify"
  BY <1>1, <1>2
<1>4. v = n + 1
  <2>1. \A i \in 2 .. n + 1 :
          (/\ i > n \/ setting[i] = "verify"
           /\ \A k \in 2 .. i - 1 : setting[k] # "verify") <=> i = n + 1
    BY <1>1, <1>2, <1>3
  <2>2. v = CHOOSE i \in 2 .. n + 1 : i = n + 1
    BY <1>1, <2>1 DEF NextVerify
  <2>3. n + 1 \in 2 .. n + 1
    BY <1>1, <1>2
  <2> QED  BY <2>2, <2>3
<1>5. Pipeline(q) =
        IF ~(v = 2 \/ <<q.token, q.target>> \in Permits) THEN Mismatched(q)
        ELSE IF v > n THEN Forwarded(q)
        ELSE IF q.token = NoToken THEN Unfilled(q)
        ELSE [q EXCEPT !.phase = "asking", !.next = v, !.asks = 1]
  BY <1>1 DEF Pipeline, NextVerify, Mismatched, Forwarded, Unfilled
<1>6. v > n /\ ((v = 2) = (n = 1))
  BY <1>1, <1>4
<1> HIDE DEF v
<1> QED  BY <1>5, <1>6

-----------------------------------------------------------------------------
(* What a step leaves of a request that it does not serve.                 *)

\* The authority only mints, bars and accepts more, and faults only add up.
Onwards == /\ minted \subseteq minted' /\ minted' \subseteq Coupons
           /\ barred \subseteq barred'
           /\ \A p \in Requests : accepted[p] # {} => accepted'[p] # {}
           /\ faults' \in Nat /\ faults <= faults'

LEMMA OthersKeep ==
    ASSUME IInv, Onwards, setting' = setting, NEW p \in Requests, req'[p] = req[p]
    PROVE  Good(p)'
<1>1. Good(p) /\ faults \in Nat
  BY GatewayAssumption DEF IInv, TypeOK
<1>2. faults' = 0 => faults = 0
  BY <1>1 DEF Onwards
<1>3. Arrived(p)'
  BY <1>1 DEF Good, Arrived, Onwards
<1>4. Verifying(p)'
  BY <1>1 DEF Good, Verifying, InFlight
<1>5. AnswerEarned(p)'
  BY <1>1, <1>2 DEF Good, AnswerEarned, Onwards
<1>6. PassedWell(p)'
  BY <1>1 DEF Good, PassedWell, Passed, Named, Importable
<1>7. RefusedWell(p)'
  BY <1>1, <1>2 DEF Good, RefusedWell, Passed, VerifiesFirst, Onwards
<1> QED  BY <1>3, <1>4, <1>5, <1>6, <1>7 DEF Good

\* A step that serves one request of a process that is up.
LEMMA RequestStep ==
    ASSUME IInv, NEW r \in Requests, NEW q \in Req, Set(r, q), up,
           UNCHANGED <<now, gateway, caUp, minted, barred>>,
           faults' \in 0 .. MaxFaults, faults <= faults',
           accepted' \in [Requests -> SUBSET Coupons],
           \A p \in Requests : accepted[p] # {} => accepted'[p] # {},
           q.phase # "new", req[r].phase # "new" => q.token = req[r].token,
           \/ cache' = cache
           \/ cache' = cache \cup {q.token} /\ q.token \in minted /\ accepted'[r] # {},
           Good(r)'
    PROVE  IInv'
<1>1. TypeOK /\ ProcessInv /\ CacheEarned
  BY DEF IInv
<1>2. /\ req' \in [Requests -> Req] /\ req'[r] = q
      /\ \A p \in Requests \ {r} : req'[p] = req[p]
  BY <1>1 DEF TypeOK, Set
<1>3. setting' = setting /\ up' = up /\ plugins' = plugins
  BY DEF gateway
<1>4. TypeOK'
  BY <1>1, <1>2, <1>3 DEF TypeOK
<1>5. faults \in Nat /\ faults' \in Nat
  BY <1>1, GatewayAssumption DEF TypeOK
<1>6. ProcessInv'
  BY <1>1, <1>3, <1>5 DEF ProcessInv, Importable
<1>7. CacheEarned'
  <2> SUFFICES ASSUME NEW c \in cache'
               PROVE  \E p \in Requests : req'[p].phase # "new" /\ req'[p].token = c
                                          /\ accepted'[p] # {}
    BY DEF CacheEarned
  <2>1. CASE c \in cache
    <3>1. PICK p \in Requests : req[p].phase # "new" /\ req[p].token = c /\ accepted[p] # {}
      BY <1>1, <2>1 DEF CacheEarned
    <3>2. req'[p].phase # "new" /\ req'[p].token = c /\ accepted'[p] # {}
      BY <1>2, <3>1
    <3> QED  BY <3>2
  <2>2. CASE c \notin cache
    BY <1>2, <2>2
  <2> QED  BY <2>1, <2>2
<1>8. Onwards
  BY <1>1, <1>5 DEF Onwards, TypeOK
<1>9. \A p \in Requests \ {r} : Good(p)'
  BY <1>2, <1>3, <1>8, OthersKeep
<1> QED  BY <1>4, <1>6, <1>7, <1>9 DEF IInv

\* The initial states satisfy the invariant.
LEMMA InitIInv == Init => IInv
<1> SUFFICES ASSUME Init PROVE IInv
  OBVIOUS
<1>1. NewReq \in Req
  <2>1. (CHOOSE t \in Targets : TRUE) \in Targets
    BY GatewayAssumption
  <2> QED  BY <2>1 DEF NewReq, Req, Phases, Replies, Statuses
<1>2. TypeOK
  <2>1. now \in Nat /\ faults \in 0 .. MaxFaults
    BY GatewayAssumption DEF Init
  <2>2. caUp \in BOOLEAN /\ up \in BOOLEAN
    BY DEF Init
  <2>3. setting \in Settings /\ plugins \in {setting, <<>>}
    BY DEF Init
  <2>4. minted \subseteq Coupons /\ barred \subseteq minted /\ cache \subseteq minted
    BY DEF Init, CA!Init
  <2>5. req \in [Requests -> Req]
    BY <1>1 DEF Init
  <2> QED  BY <2>1, <2>2, <2>3, <2>4, <2>5 DEF TypeOK
<1>3. \A r \in Requests : req[r] = NewReq
  BY DEF Init
<1>4. ProcessInv /\ CacheEarned
  BY <1>3 DEF Init, CA!Init, ProcessInv, CacheEarned, NewReq
<1>5. \A r \in Requests : Good(r)
  BY <1>3 DEF Good, Arrived, Verifying, InFlight, AnswerEarned, PassedWell, RefusedWell,
              Passed, NewReq
<1> QED  BY <1>2, <1>4, <1>5 DEF IInv
\* A request comes in.
LEMMA ArriveStep ==
    ASSUME IInv, NEW r \in Requests, NEW token \in Coupons \cup {Garbage, NoToken},
           NEW target \in Targets, Arrive(r, token, target)
    PROVE  IInv'
<1> DEFINE q0 == [req[r] EXCEPT !.token = token, !.target = target,
                                !.fresh = token \in minted \ barred]
           q  == IF target \in Open THEN [q0 EXCEPT !.phase = "forwarding", !.by = "nobody"]
                 ELSE Pipeline(q0)
<1>1. TypeOK /\ ProcessInv /\ up /\ req[r].phase = "new" /\ token \in minted \cup {Garbage, NoToken}
      /\ UNCHANGED <<now, faults, gateway, caUp, caVars, cache>> /\ Set(r, q)
  BY DEF IInv, Arrive
<1>2. req[r] \in Req /\ req[r] = NewReq
  BY <1>1 DEF TypeOK, IInv, Good, Arrived
<1>3. /\ q0 \in Req /\ q0.next = 0 /\ q0.claims = FALSE /\ q0.phase = "new"
      /\ q0.status = "none" /\ q0.by = "none" /\ q0.attempt = 0
      /\ q0.token = token /\ q0.target = target /\ q0.fresh = (token \in minted \ barred)
  <2> DEFINE fresh == token \in minted \ barred
             new   == req[r]
  <2>1. fresh \in BOOLEAN /\ token \in Coupons \cup {Garbage, NoToken} /\ target \in Targets
    OBVIOUS
  <2>2. /\ new \in Req /\ new.next = 0 /\ new.claims = FALSE /\ new.phase = "new"
        /\ new.status = "none" /\ new.by = "none" /\ new.attempt = 0
    BY <1>2 DEF NewReq
  <2> HIDE DEF fresh, new
  <2>3. LET q1 == [new EXCEPT !.token = token, !.target = target, !.fresh = fresh] IN
        /\ q1 \in Req /\ q1.next = 0 /\ q1.claims = FALSE /\ q1.phase = "new"
        /\ q1.status = "none" /\ q1.by = "none" /\ q1.attempt = 0
        /\ q1.token = token /\ q1.target = target /\ q1.fresh = fresh
    BY <2>1, <2>2 DEF Req
  <2> QED  BY <2>3 DEF fresh, new
<1>4. faults \in 0 .. MaxFaults /\ faults \in Nat /\ minted \subseteq Coupons
      /\ Garbage \notin Coupons /\ NoToken \notin Coupons
      /\ accepted \in [Requests -> SUBSET Coupons]
  BY <1>1, GatewayAssumption DEF TypeOK, ProcessInv
<1>5. req'[r] = q
  BY <1>1 DEF Set, TypeOK
<1>6. q \in Req /\ q.phase # "new" /\ Good(r)'
  <2>1. CASE target \in Open
    <3>1. /\ q \in Req /\ q.phase = "forwarding" /\ q.status = "none"
          /\ q.token = token /\ q.target = target /\ q.fresh = (token \in minted \ barred)
      BY <1>3, <2>1 DEF Req, Phases
    <3> HIDE DEF q
    <3> QED  BY <1>1, <1>4, <1>5, <2>1, <3>1 DEF Good, Arrived, Verifying, InFlight,
                AnswerEarned, PassedWell, RefusedWell, Passed, caVars
  <2>2. CASE target \notin Open
    <3>0. q = IF setting = <<>> THEN Forwarded(q0)
              ELSE IF setting[1] # "verify" THEN Mismatched(q0)
              ELSE IF q0.token = NoToken THEN Unfilled(q0)
              ELSE Asked(q0)
      BY <1>1, <1>3, <2>2, PipelineStarts
    <3> HIDE DEF q, q0
    <3>1. CASE setting = <<>>
      <4>1. /\ q \in Req /\ q.phase = "forwarding" /\ q.status = "none"
            /\ q.token = token /\ q.target = target /\ q.fresh = (token \in minted \ barred)
        BY <1>3, <3>0, <3>1 DEF Forwarded, Req, Phases
      <4>2. ~Named("verify") /\ ~Named("purpose") /\ Importable
        BY <3>1 DEF Named, Importable
      <4>3. setting' = setting
        BY <1>1 DEF gateway
      <4> QED  BY <1>1, <1>4, <1>5, <4>1, <4>2, <4>3 DEF Good, Arrived, Verifying, InFlight,
                  AnswerEarned, PassedWell, RefusedWell, Passed, caVars, Named, Importable
    <3>2. CASE setting # <<>> /\ setting[1] # "verify"
      <4>1. /\ q \in Req /\ q.phase = "done" /\ q.status = "purpose_mismatch"
            /\ q.token = token /\ q.target = target /\ q.fresh = (token \in minted \ barred)
        BY <1>3, <3>0, <3>2 DEF Mismatched, Req, Phases, Statuses
      <4>2. ~VerifiesFirst /\ setting' = setting
        BY <1>1, <3>2 DEF VerifiesFirst, gateway
      <4> QED  BY <1>1, <1>4, <1>5, <4>1, <4>2 DEF Good, Arrived, Verifying, InFlight,
                  AnswerEarned, PassedWell, RefusedWell, Passed, caVars, VerifiesFirst
    <3>3. CASE setting # <<>> /\ setting[1] = "verify" /\ token = NoToken
      <4>1. /\ q \in Req /\ q.phase = "done" /\ q.status = "missing_coupon"
            /\ q.token = NoToken /\ q.target = target /\ q.fresh = FALSE
        BY <1>3, <1>4, <3>0, <3>3 DEF Unfilled, Req, Phases, Statuses
      <4> QED  BY <1>1, <1>4, <1>5, <4>1 DEF Good, Arrived, Verifying, InFlight,
                  AnswerEarned, PassedWell, RefusedWell, Passed, caVars
    <3>4. CASE setting # <<>> /\ setting[1] = "verify" /\ token # NoToken
      <4>1. /\ q \in Req /\ q.phase = "asking" /\ q.status = "none" /\ q.by = "none"
            /\ q.next = 1 /\ q.asks = 1 /\ q.attempt = 0
            /\ q.token = token /\ q.target = target /\ q.fresh = (token \in minted \ barred)
        BY <1>3, <3>0, <3>4 DEF Asked, Req, Phases
      <4>2. setting' = setting /\ Retries \in Nat
        BY <1>1, GatewayAssumption DEF gateway
      <4>3. Verifying(r)'
        BY <1>5, <2>2, <3>4, <4>1, <4>2 DEF Verifying
      <4>4. Arrived(r)'
        BY <1>1, <1>4, <1>5, <4>1 DEF Arrived, caVars
      <4>5. AnswerEarned(r)' /\ PassedWell(r)' /\ RefusedWell(r)'
        BY <1>5, <4>1 DEF AnswerEarned, PassedWell, RefusedWell, Passed
      <4> QED  BY <4>1, <4>3, <4>4, <4>5 DEF Good
    <3> QED  BY <3>1, <3>2, <3>3, <3>4
  <2> QED  BY <2>1, <2>2
<1> HIDE DEF q
<1> QED  BY <1>1, <1>4, <1>6, RequestStep DEF caVars
-----------------------------------------------------------------------------
(* The steps that serve a request.                                         *)

\* What is known of a request that is being served.
LEMMA Serving ==
    ASSUME IInv, NEW r \in Requests, req[r].phase \notin {"new", "done"}
    PROVE  /\ up /\ TypeOK /\ ProcessInv /\ Good(r)
           /\ req[r] \in Req /\ req[r].status = "none"
           /\ faults \in Nat /\ MaxFaults \in Nat /\ faults \in 0 .. MaxFaults
           /\ accepted \in [Requests -> SUBSET Coupons]
           /\ minted \subseteq Coupons
           /\ \A q : Set(r, q) => req'[r] = q
<1>1. TypeOK /\ ProcessInv /\ Good(r)
  BY DEF IInv
<1>2. up
  BY <1>1 DEF ProcessInv
<1>3. req[r] \in Req /\ req[r].status = "none"
  BY <1>1 DEF TypeOK, Good, Arrived
<1>4. \A q : Set(r, q) => req'[r] = q
  BY <1>1 DEF TypeOK, Set
<1> QED  BY <1>1, <1>2, <1>3, <1>4, GatewayAssumption DEF TypeOK, ProcessInv

\* What identifies a request stays as it is.
Kept(q, p) == /\ q.token = p.token /\ q.target = p.target /\ q.fresh = p.fresh
              /\ q.next = p.next /\ q.by = p.by

\* The authority answers.
LEMMA ReplyStep ==
    ASSUME IInv, NEW r \in Requests, NEW reply \in {"valid", "invalid", "busy", "broken"},
           req[r].phase = "asking", Replied(r, reply),
           UNCHANGED <<now, gateway, caUp, minted, barred, cache>>,
           faults' \in 0 .. MaxFaults, faults <= faults',
           accepted' \in [Requests -> SUBSET Coupons],
           \A p \in Requests : accepted[p] # {} => accepted'[p] # {},
           reply = "valid" => req[r].token \in minted \ barred /\ accepted'[r] # {},
           faults' = 0 => \/ reply = "valid"
                          \/ reply = "invalid" /\ req[r].token \notin minted \ barred
    PROVE  IInv'
<1> DEFINE q == [req[r] EXCEPT !.phase = "replied", !.reply = reply]
<1>1. up /\ Good(r) /\ req[r] \in Req /\ req[r].status = "none" /\ Set(r, q) /\ req'[r] = q
      /\ faults \in Nat /\ faults' \in Nat
  BY Serving, GatewayAssumption DEF Replied
<1>2. /\ q \in Req /\ q.phase = "replied" /\ q.reply = reply /\ q.status = "none"
      /\ Kept(q, req[r]) /\ q.attempt = req[r].attempt /\ q.asks = req[r].asks
  BY <1>1 DEF Req, Phases, Replies, Kept
<1> HIDE DEF q
<1>3. Arrived(r)'
  BY <1>1, <1>2 DEF Good, Arrived, Kept
<1>4. Verifying(r)'
  BY <1>1, <1>2 DEF Good, Verifying, InFlight, Kept, gateway
<1>5. AnswerEarned(r)'
  <2>1. req[r].token \in minted \ barred => req[r].fresh
    BY <1>1 DEF Good, Arrived
  <2>2. req[r].fresh /\ req[r].token \notin barred => req[r].token \in minted \ barred
    BY <1>1 DEF Good, Arrived
  <2> QED  BY <1>1, <1>2, <2>1, <2>2 DEF AnswerEarned, Kept
<1>6. PassedWell(r)' /\ RefusedWell(r)'
  BY <1>1, <1>2 DEF PassedWell, RefusedWell, Passed
<1>7. Good(r)'
  BY <1>3, <1>4, <1>5, <1>6 DEF Good
<1> QED  BY <1>1, <1>2, <1>7, RequestStep DEF Kept

\* A request ends without passing.
LEMMA FinishStep ==
    ASSUME IInv, NEW r \in Requests, InFlight(r),
           NEW status \in {"invalid_coupon", "authority_unavailable", "authority_error"},
           Finish(r, status),
           UNCHANGED <<now, gateway, caUp, caVars, cache>>,
           faults' \in 0 .. MaxFaults, faults <= faults',
           status = "authority_unavailable" => req[r].attempt = Retries,
           faults' = 0 => ~(req[r].fresh /\ req[r].token \notin barred)
    PROVE  IInv'
<1> DEFINE q == [req[r] EXCEPT !.phase = "done", !.status = status]
<1>1. /\ up /\ Good(r) /\ req[r] \in Req /\ Set(r, q) /\ req'[r] = q
      /\ faults \in Nat /\ faults' \in Nat
      /\ accepted \in [Requests -> SUBSET Coupons]
      /\ accepted' = accepted /\ minted' = minted /\ barred' = barred
  BY Serving, GatewayAssumption DEF InFlight, Finish, caVars
<1>2. /\ q \in Req /\ q.phase = "done" /\ q.status = status
      /\ Kept(q, req[r]) /\ q.asks = req[r].asks
  BY <1>1 DEF Req, Phases, Statuses, Kept
<1> HIDE DEF q
<1>3. Arrived(r)'
  BY <1>1, <1>2 DEF Good, Arrived, InFlight, Kept
<1>4. Verifying(r)' /\ AnswerEarned(r)' /\ PassedWell(r)'
  BY <1>1, <1>2 DEF Verifying, InFlight, AnswerEarned, PassedWell, Passed
<1>5. RefusedWell(r)'
  BY <1>1, <1>2, GatewayAssumption DEF Good, Verifying, RefusedWell, Kept
<1>6. Good(r)'
  BY <1>3, <1>4, <1>5 DEF Good
<1> QED  BY <1>1, <1>2, <1>6, RequestStep DEF Kept, InFlight

\* The verification backs off, or tries again.
LEMMA AttemptStep ==
    ASSUME IInv, NEW r \in Requests, InFlight(r), NEW q \in Req, Set(r, q),
           UNCHANGED <<now, gateway, caUp, caVars, cache>>,
           faults' \in 0 .. MaxFaults, faults <= faults',
           Kept(q, req[r]), q.status = "none",
           \/ /\ q.phase = "sleeping" /\ q.attempt = req[r].attempt /\ q.asks = req[r].asks
              /\ req[r].attempt < Retries /\ faults' # 0
           \/ /\ q.phase = "asking" /\ q.attempt = req[r].attempt + 1
              /\ q.asks = req[r].asks + 1 /\ req[r].attempt < Retries
    PROVE  IInv'
<1>1. /\ up /\ Good(r) /\ req[r] \in Req /\ req'[r] = q
      /\ faults \in Nat /\ faults' \in Nat
      /\ accepted \in [Requests -> SUBSET Coupons]
      /\ accepted' = accepted /\ minted' = minted /\ barred' = barred
  BY Serving, GatewayAssumption DEF InFlight, caVars
<1>2. req[r].attempt \in Nat /\ req[r].asks \in Nat /\ Retries \in Nat
  BY <1>1, GatewayAssumption DEF Req
<1>3. Arrived(r)'
  BY <1>1 DEF Good, Arrived, InFlight, Kept
<1>4. Verifying(r)'
  BY <1>1, <1>2 DEF Good, Verifying, InFlight, Kept, gateway
<1>5. AnswerEarned(r)' /\ PassedWell(r)' /\ RefusedWell(r)'
  BY <1>1 DEF AnswerEarned, PassedWell, Passed, RefusedWell
<1>6. Good(r)'
  BY <1>3, <1>4, <1>5 DEF Good
<1> QED  BY <1>1, <1>6, RequestStep DEF Kept, InFlight

\* The verification lets the request pass: what is left of the pipeline.
LEMMA AdmitStep ==
    ASSUME IInv, NEW r \in Requests, InFlight(r), NEW by \in {"ca", "cache"}, Admit(r, by),
           UNCHANGED <<now, gateway, caUp, caVars>>,
           \/ cache' = cache
           \/ cache' = cache \cup {req[r].token} /\ req[r].token \in minted /\ accepted[r] # {},
           faults' \in 0 .. MaxFaults, faults <= faults',
           by = "ca" => req[r].fresh,
           by = "cache" => OfflineCache
    PROVE  IInv'
<1> DEFINE q0 == [req[r] EXCEPT !.claims = TRUE, !.by = by]
           q  == Pipeline(q0)
<1>1. /\ up /\ TypeOK /\ ProcessInv /\ Good(r) /\ req[r] \in Req /\ Set(r, q) /\ req'[r] = q
      /\ faults \in Nat /\ faults' \in Nat /\ req[r].status = "none"
      /\ accepted \in [Requests -> SUBSET Coupons]
      /\ accepted' = accepted /\ minted' = minted /\ barred' = barred /\ setting' = setting
  BY Serving, GatewayAssumption DEF InFlight, Admit, caVars, gateway
<1>2. req[r].next = 1 /\ setting # <<>> /\ setting[1] = "verify"
  BY <1>1 DEF Good, Verifying
<1>3. /\ q0 \in Req /\ q0.next = 1 /\ q0.claims /\ q0.by = by /\ q0.status = "none"
      /\ q0.token = req[r].token /\ q0.target = req[r].target /\ q0.fresh = req[r].fresh
      /\ q0.asks = req[r].asks
  BY <1>1, <1>2 DEF Req
<1>4. q = IF Len(setting) = 1 \/ <<q0.token, q0.target>> \in Permits
          THEN Forwarded(q0) ELSE Mismatched(q0)
  BY <1>1, <1>2, <1>3, PipelineEnds
<1> HIDE DEF q, q0
<1>5. /\ q \in Req /\ q.phase \in {"forwarding", "done"}
      /\ q.token = req[r].token /\ q.target = req[r].target /\ q.fresh = req[r].fresh
      /\ q.status \in {"none", "purpose_mismatch"} /\ q.by = by
      /\ q.phase = "forwarding" =>
           q.status = "none" /\ (Len(setting) = 1 \/ <<q.token, q.target>> \in Permits)
      /\ q.phase = "done" => Len(setting) # 1 /\ <<q.token, q.target>> \notin Permits
  BY <1>3, <1>4 DEF Forwarded, Mismatched, Req, Phases, Statuses
<1>6. Arrived(r)'
  BY <1>1, <1>5 DEF Good, Arrived, InFlight
<1>7. Verifying(r)' /\ AnswerEarned(r)'
  BY <1>1, <1>5 DEF Verifying, InFlight, AnswerEarned
<1>8. PassedWell(r)'
  <2>1. Importable /\ (Named("purpose") => Len(setting) # 1)
    BY <1>1, <1>2, PluginsAre DEF ProcessInv, Named
  <2> QED  BY <1>1, <1>5, <2>1 DEF PassedWell, Passed, Named, Importable
<1>9. RefusedWell(r)'
  BY <1>1, <1>5 DEF RefusedWell, Passed
<1>10. Good(r)'
  BY <1>6, <1>7, <1>8, <1>9 DEF Good
<1> QED  BY <1>1, <1>5, <1>10, RequestStep DEF InFlight
\* Every step that serves a request keeps the invariant.
LEMMA ServeStep ==
    ASSUME IInv, NEW r \in Requests, Serve(r)
    PROVE  IInv'
<1>1. req[r].phase \notin {"new", "done"}
  BY DEF Serve, DecideValid, DecideInvalid, DecideError, CallFails, Busy, Broken, Invalid,
         Valid, Retry, Proxy
<1>2. /\ up /\ TypeOK /\ ProcessInv /\ Good(r) /\ req[r] \in Req /\ req[r].status = "none"
      /\ faults \in Nat /\ MaxFaults \in Nat /\ faults \in 0 .. MaxFaults
      /\ accepted \in [Requests -> SUBSET Coupons] /\ minted \subseteq Coupons
  BY <1>1, Serving
<1>3. req[r].attempt \in Nat /\ Retries \in Nat
  BY <1>2, GatewayAssumption DEF Req
<1>4. faults' = faults \/ (faults < MaxFaults /\ faults' = faults + 1) =>
        faults' \in 0 .. MaxFaults /\ faults <= faults'
  BY <1>2
<1>5. CASE DecideValid(r)
  <2>1. /\ req[r].phase = "asking" /\ Replied(r, "valid")
        /\ req[r].token \in minted \ barred
        /\ accepted' = [accepted EXCEPT ![r] = {req[r].token}]
        /\ UNCHANGED <<now, faults, gateway, caUp, minted, barred, cache>>
    BY <1>5 DEF DecideValid, CA!Accept
  <2>2. accepted' \in [Requests -> SUBSET Coupons] /\ accepted'[r] # {}
        /\ \A p \in Requests : accepted[p] # {} => accepted'[p] # {}
    BY <1>2, <2>1
  <2> QED  BY <1>4, <2>1, <2>2, ReplyStep
<1>6. CASE DecideInvalid(r)
  <2>1. /\ req[r].phase = "asking" /\ Replied(r, "invalid")
        /\ UNCHANGED <<now, gateway, caUp, caVars, cache>>
        /\ IF req[r].token \in minted \ barred
           THEN faults < MaxFaults /\ faults' = faults + 1 ELSE faults' = faults
    BY <1>6 DEF DecideInvalid
  <2>2. faults' = 0 => req[r].token \notin minted \ barred
    BY <1>2, <2>1
  <2> QED  BY <1>2, <1>4, <2>1, <2>2, ReplyStep DEF caVars
<1>7. CASE DecideError(r)
  <2>1. /\ req[r].phase = "asking"
        /\ UNCHANGED <<now, gateway, caUp, caVars, cache>>
        /\ faults < MaxFaults /\ faults' = faults + 1
    BY <1>7 DEF DecideError
  <2>2. PICK reply \in {"busy", "broken"} : Replied(r, reply)
    BY <1>7 DEF DecideError
  <2> QED  BY <1>2, <1>4, <2>1, <2>2, ReplyStep DEF caVars
<1>8. CASE CallFails(r)
  <2>1. /\ InFlight(r) /\ UNCHANGED <<now, gateway, caUp, caVars, cache>>
        /\ IF caUp THEN faults < MaxFaults /\ faults' = faults + 1 ELSE faults' = faults
    BY <1>8 DEF CallFails, InFlight
  <2>2. faults' \in 0 .. MaxFaults /\ faults <= faults' /\ faults' # 0
    BY <1>2, <1>4, <2>1 DEF ProcessInv
  <2>3. CASE MayRetry(r)
    <3> DEFINE q == [req[r] EXCEPT !.phase = "sleeping", !.reply = "none"]
    <3>1. Set(r, q)
      BY <1>8, <2>3 DEF CallFails, BackOff
    <3>2. /\ q \in Req /\ q.phase = "sleeping" /\ q.attempt = req[r].attempt
          /\ q.asks = req[r].asks /\ Kept(q, req[r]) /\ q.status = "none"
      BY <1>2 DEF Req, Phases, Replies, Kept
    <3> HIDE DEF q
    <3> QED  BY <2>1, <2>2, <2>3, <3>1, <3>2, AttemptStep DEF MayRetry
  <2>4. CASE ~MayRetry(r) /\ OfflineCache /\ req[r].token \in cache /\ ExpOf[req[r].token] > now
    <3>1. Admit(r, "cache")
      BY <1>8, <2>4 DEF CallFails
    <3> QED  BY <2>1, <2>2, <2>4, <3>1, AdmitStep
  <2>5. CASE ~MayRetry(r) /\ ~(OfflineCache /\ req[r].token \in cache /\ ExpOf[req[r].token] > now)
    <3>1. Finish(r, "authority_unavailable")
      BY <1>8, <2>5 DEF CallFails
    <3>2. req[r].attempt = Retries
      BY <1>2, <1>3, <2>1, <2>5 DEF MayRetry, Good, Verifying
    <3> QED  BY <2>1, <2>2, <3>1, <3>2, FinishStep
  <2> QED  BY <2>3, <2>4, <2>5
<1>9. CASE Busy(r)
  <2>1. /\ InFlight(r) /\ UNCHANGED <<now, faults, gateway, caUp, caVars, cache>>
        /\ faults' # 0
    BY <1>2, <1>9 DEF Busy, InFlight, Good, AnswerEarned
  <2>2. CASE MayRetry(r)
    <3> DEFINE q == [req[r] EXCEPT !.phase = "sleeping", !.reply = "none"]
    <3>1. Set(r, q)
      BY <1>9, <2>2 DEF Busy, BackOff
    <3>2. /\ q \in Req /\ q.phase = "sleeping" /\ q.attempt = req[r].attempt
          /\ q.asks = req[r].asks /\ Kept(q, req[r]) /\ q.status = "none"
      BY <1>2 DEF Req, Phases, Replies, Kept
    <3> HIDE DEF q
    <3> QED  BY <1>4, <2>1, <2>2, <3>1, <3>2, AttemptStep DEF MayRetry
  <2>3. CASE ~MayRetry(r)
    <3>1. Finish(r, "authority_error")
      BY <1>9, <2>3 DEF Busy
    <3> QED  BY <1>4, <2>1, <3>1, FinishStep
  <2> QED  BY <2>2, <2>3
<1>10. CASE Broken(r)
  <2>1. /\ InFlight(r) /\ UNCHANGED <<now, faults, gateway, caUp, caVars, cache>>
        /\ faults' # 0 /\ Finish(r, "authority_error")
    BY <1>2, <1>10 DEF Broken, InFlight, Good, AnswerEarned
  <2> QED  BY <1>4, <2>1, FinishStep
<1>11. CASE Invalid(r)
  <2>1. /\ InFlight(r) /\ UNCHANGED <<now, faults, gateway, caUp, caVars, cache>>
        /\ Finish(r, "invalid_coupon")
        /\ faults' = 0 => ~(req[r].fresh /\ req[r].token \notin barred)
    BY <1>2, <1>11 DEF Invalid, InFlight, Good, AnswerEarned
  <2> QED  BY <1>4, <2>1, FinishStep
<1>12. CASE Valid(r)
  <2>1. /\ InFlight(r) /\ Admit(r, "ca") /\ req[r].fresh /\ accepted[r] # {}
        /\ cache' = (IF OfflineCache THEN cache \cup {req[r].token} ELSE cache)
        /\ UNCHANGED <<now, faults, gateway, caUp, caVars>>
    BY <1>2, <1>12 DEF Valid, InFlight, Good, AnswerEarned
  <2>2. req[r].token \in minted
    BY <1>1, <1>2, <2>1 DEF Good, Arrived
  <2> QED  BY <1>4, <2>1, <2>2, AdmitStep
<1>13. CASE Retry(r)
  <2> DEFINE q == [req[r] EXCEPT !.phase = "asking", !.attempt = @ + 1, !.asks = @ + 1]
  <2>1. Set(r, q) /\ InFlight(r) /\ UNCHANGED <<now, faults, gateway, caUp, caVars, cache>>
        /\ req[r].attempt < Retries
    BY <1>2, <1>13 DEF Retry, InFlight, Good, Verifying
  <2>2. /\ q \in Req /\ q.phase = "asking" /\ q.attempt = req[r].attempt + 1
        /\ q.asks = req[r].asks + 1 /\ Kept(q, req[r]) /\ q.status = "none"
    <3>1. req[r].attempt + 1 \in Nat /\ req[r].asks + 1 \in Nat
      BY <1>2 DEF Req
    <3> DEFINE a == req[r].attempt + 1
               n == req[r].asks + 1
    <3>2. q = [req[r] EXCEPT !.phase = "asking", !.attempt = a, !.asks = n]
      OBVIOUS
    <3> HIDE DEF q, a, n
    <3>3. /\ q \in Req /\ q.phase = "asking" /\ q.attempt = a /\ q.asks = n
          /\ Kept(q, req[r]) /\ q.status = "none"
      BY <1>2, <3>1, <3>2 DEF a, n, Req, Phases, Kept
    <3> QED  BY <3>3 DEF a, n
  <2> HIDE DEF q
  <2> QED  BY <1>4, <2>1, <2>2, AttemptStep
<1>14. CASE Proxy(r)
  <2>1. UNCHANGED <<now, faults, gateway, caUp, caVars, cache>> /\ req[r].phase = "forwarding"
    BY <1>14 DEF Proxy
  <2>2. PICK status \in {"proxied", "upstream_unavailable"} : Finish(r, status)
    BY <1>14 DEF Proxy
  <2> DEFINE q == [req[r] EXCEPT !.phase = "done", !.status = status]
  <2>3. /\ q \in Req /\ q.phase = "done" /\ q.status \in {"proxied", "upstream_unavailable"}
        /\ Kept(q, req[r])
    BY <1>2 DEF Req, Phases, Statuses, Kept
  <2>4. Set(r, q) /\ req'[r] = q
    BY <1>1, <2>2, Serving DEF Finish
  <2>5. setting' = setting /\ minted' = minted /\ barred' = barred /\ accepted' = accepted
    BY <2>1 DEF gateway, caVars
  <2> HIDE DEF q
  <2>6. Arrived(r)' /\ Verifying(r)' /\ AnswerEarned(r)'
    BY <1>2, <2>1, <2>3, <2>4, <2>5 DEF Good, Arrived, Verifying, InFlight, AnswerEarned, Kept
  <2>7. PassedWell(r)'
    BY <1>2, <2>1, <2>3, <2>4, <2>5 DEF Good, PassedWell, Passed, Named, Importable, Kept
  <2>8. RefusedWell(r)'
    BY <2>3, <2>4 DEF RefusedWell, Passed
  <2>9. Good(r)'
    BY <2>6, <2>7, <2>8 DEF Good
  <2> QED  BY <1>1, <1>2, <1>4, <2>1, <2>3, <2>4, <2>5, <2>9, RequestStep DEF Kept
<1> QED  BY <1>5, <1>6, <1>7, <1>8, <1>9, <1>10, <1>11, <1>12, <1>13, <1>14 DEF Serve
-----------------------------------------------------------------------------
(* The steps around the requests.                                          *)

\* load_plugins.
LEMMA LoadStep == ASSUME IInv, Load PROVE IInv'
<1>1. TypeOK /\ ProcessInv /\ CacheEarned /\ faults \in Nat
  BY GatewayAssumption DEF IInv, TypeOK
<1>2. /\ up' /\ up' \in BOOLEAN /\ plugins' = setting /\ Importable
      /\ UNCHANGED <<now, faults, setting, caUp, caVars, cache, req>>
  BY DEF Load, Importable
<1>3. TypeOK'
  BY <1>1, <1>2 DEF TypeOK, caVars
<1>4. ProcessInv' /\ CacheEarned'
  BY <1>1, <1>2 DEF ProcessInv, CacheEarned, Importable, caVars
<1>5. Onwards
  BY <1>1, <1>2 DEF Onwards, caVars, TypeOK
<1>6. \A r \in Requests : Good(r)'
  BY <1>2, <1>5, OthersKeep
<1> QED  BY <1>3, <1>4, <1>6 DEF IInv

\* The process dies: what it was serving is cut, what it had decided stands.
LEMMA CrashStep == ASSUME IInv, Crash PROVE IInv'
<1> DEFINE Cut(r) == [req[r] EXCEPT !.phase = "done", !.status = "cut"]
<1>1. TypeOK /\ ProcessInv /\ CacheEarned /\ faults \in Nat /\ MaxFaults \in Nat
  BY GatewayAssumption DEF IInv, TypeOK
<1>2. /\ faults' = faults + 1 /\ faults' \in 0 .. MaxFaults /\ faults' # 0
      /\ up' = FALSE /\ plugins' = <<>> /\ cache' = {}
      /\ req' = [r \in Requests |-> IF req[r].phase \in {"new", "done"} THEN req[r] ELSE Cut(r)]
      /\ UNCHANGED <<now, setting, caUp, caVars>>
  <2>1. faults < MaxFaults /\ faults' = faults + 1
    BY DEF Crash
  <2>2. faults' \in 0 .. MaxFaults /\ faults' # 0
    BY <1>1, <2>1
  <2> QED  BY <2>1, <2>2 DEF Crash
<1>3. \A r \in Requests :
        /\ Cut(r) \in Req /\ Cut(r).phase = "done" /\ Cut(r).status = "cut"
        /\ Kept(Cut(r), req[r])
  <2> TAKE r \in Requests
  <2>1. req[r] \in Req
    BY <1>1 DEF TypeOK
  <2> QED  BY <2>1 DEF Req, Phases, Statuses, Kept
<1> HIDE DEF Cut
<1>4. TypeOK'
  <2>1. req' \in [Requests -> Req]
    BY <1>1, <1>2, <1>3 DEF TypeOK
  <2>2. up' \in BOOLEAN /\ plugins' \in {setting, <<>>}
    BY <1>2
  <2> QED  BY <1>1, <1>2, <2>1, <2>2 DEF TypeOK, caVars
<1>5. ProcessInv' /\ CacheEarned'
  <2>1. \A r \in Requests : req'[r].phase \in {"new", "done"}
    BY <1>2, <1>3
  <2> QED  BY <1>1, <1>2, <2>1 DEF ProcessInv, CacheEarned, caVars
<1>6. Onwards
  BY <1>1, <1>2 DEF Onwards, caVars, TypeOK
<1>7. ASSUME NEW r \in Requests PROVE Good(r)'
  <2>1. CASE req[r].phase \in {"new", "done"}
    <3>1. req'[r] = req[r]
      BY <1>2, <2>1
    <3> QED  BY <1>2, <1>6, <3>1, OthersKeep
  <2>2. CASE req[r].phase \notin {"new", "done"}
    <3>1. Good(r) /\ req'[r] = Cut(r)
      BY <1>2, <2>2 DEF IInv
    <3>2. Arrived(r)'
      BY <1>2, <1>3, <2>2, <3>1 DEF Good, Arrived, Kept, caVars
    <3>3. Verifying(r)' /\ AnswerEarned(r)' /\ PassedWell(r)' /\ RefusedWell(r)'
      BY <1>2, <1>3, <3>1 DEF Verifying, InFlight, AnswerEarned, PassedWell, RefusedWell,
                              Passed
    <3> QED  BY <3>2, <3>3 DEF Good
  <2> QED  BY <2>1, <2>2
<1> QED  BY <1>4, <1>5, <1>7 DEF IInv

\* Mints, revocations, outages and the clock.
LEMMA OuterStep == ASSUME IInv, Authority \/ Outage \/ Tick PROVE IInv'
<1>1. /\ TypeOK /\ ProcessInv /\ CacheEarned
      /\ faults \in Nat /\ MaxFaults \in Nat /\ now \in Nat /\ cache \subseteq minted
  BY GatewayAssumption DEF IInv, TypeOK
<1>2. UNCHANGED <<gateway, accepted, cache, req>>
  BY DEF Authority, Outage, Tick, CA!Mint, CA!Bar, caVars
<1>3. /\ minted \subseteq minted' /\ minted' \subseteq Coupons
      /\ barred \subseteq barred' /\ barred' \subseteq minted'
  <2>1. CASE Authority
    BY <1>1, <2>1 DEF Authority, CA!Mint, CA!Bar, TypeOK
  <2>2. CASE Outage \/ Tick
    BY <1>1, <2>2 DEF Outage, Tick, caVars, TypeOK
  <2> QED  BY <2>1, <2>2
<1>4. faults' \in 0 .. MaxFaults /\ faults <= faults' /\ now' \in Nat
      /\ (faults' = 0 => caUp' = caUp) /\ caUp' \in BOOLEAN
  <2>1. faults \in 0 .. MaxFaults /\ caUp \in BOOLEAN
    BY <1>1 DEF TypeOK
  <2>2. CASE Authority \/ Tick
    <3>1. faults' = faults /\ caUp' = caUp /\ (now' = now \/ now' = now + 1)
      BY <2>2 DEF Authority, Tick
    <3> QED  BY <1>1, <2>1, <3>1
  <2>3. CASE Outage
    <3>1. faults < MaxFaults /\ faults' = faults + 1 /\ now' = now
      BY <2>3 DEF Outage
    <3>2. caUp' \in BOOLEAN
      BY <2>3 DEF Outage
    <3> QED  BY <1>1, <2>1, <3>1, <3>2
  <2> QED  BY <2>2, <2>3
<1>5. TypeOK'
  BY <1>1, <1>2, <1>3, <1>4 DEF TypeOK, gateway
<1>6. ProcessInv'
  BY <1>1, <1>2, <1>4 DEF ProcessInv, Importable, gateway
<1>7. CacheEarned'
  BY <1>1, <1>2 DEF CacheEarned
<1>8. Onwards
  BY <1>1, <1>2, <1>3, <1>4 DEF Onwards
<1>9. \A r \in Requests : Good(r)'
  BY <1>2, <1>8, OthersKeep DEF gateway
<1> QED  BY <1>5, <1>6, <1>7, <1>9 DEF IInv

\* A request that is given a new history is the same in all else.
LEMMA Refreshed ==
    ASSUME NEW q \in Req, NEW b \in BOOLEAN, NEW p, p = [q EXCEPT !.fresh = b]
    PROVE  /\ p \in Req /\ p.fresh = b
           /\ \A f \in {"phase", "token", "target", "next", "claims", "attempt", "reply",
                      "status", "asks", "by"} : p[f] = q[f]
BY DEF Req

\* A lapse of revocations makes coupons good again: a request under way gets a
\* history of it, and an answer refused before it has cost a fault.
LEMMA LapseStep == ASSUME IInv, Lapse PROVE IInv'
<1>1. /\ TypeOK /\ ProcessInv /\ CacheEarned
      /\ faults \in Nat /\ MaxFaults \in Nat /\ faults < MaxFaults
      /\ req \in [Requests -> Req] /\ barred \subseteq minted
  BY GatewayAssumption DEF IInv, TypeOK, Lapse
<1>2. /\ UNCHANGED <<now, setting, up, plugins, caUp, minted, accepted, cache>>
      /\ faults' = faults + 1 /\ faults' # 0 /\ barred' \subseteq barred
  BY <1>1 DEF Lapse, CA!Lapse, gateway
<1>3. ASSUME NEW r \in Requests
      PROVE  /\ req'[r] \in Req
             /\ \A f \in {"phase", "token", "target", "next", "claims", "attempt", "reply",
                          "status", "asks", "by"} : req'[r][f] = req[r][f]
             /\ IF req[r].phase \in {"new", "done"} THEN req'[r] = req[r]
                ELSE req'[r].fresh = (req[r].fresh \/ req[r].token \in minted \ barred')
  <2> DEFINE q == req[r]
             good == q.token \in minted \ barred'
  <2>1. q \in Req
    BY <1>1
  <2>2. req'[r] = IF q.phase \in {"new", "done"} THEN q
                  ELSE [q EXCEPT !.fresh = @ \/ good]
    BY DEF Lapse
  <2> DEFINE fresh == q.fresh \/ good
  <2>3. fresh \in BOOLEAN
    OBVIOUS
  <2> HIDE DEF q, fresh
  <2>4. CASE q.phase \in {"new", "done"}
    BY <2>1, <2>2, <2>4 DEF q, Req
  <2>5. CASE q.phase \notin {"new", "done"}
    <3>1. req'[r] = [q EXCEPT !.fresh = fresh]
      BY <2>2, <2>5 DEF fresh
    <3>2. /\ req'[r] \in Req /\ req'[r].fresh = fresh
          /\ \A f \in {"phase", "token", "target", "next", "claims", "attempt", "reply",
                     "status", "asks", "by"} : req'[r][f] = q[f]
      BY <2>1, <2>3, <3>1, Refreshed
    <3> QED  BY <2>5, <3>2 DEF q, fresh
  <2> QED  BY <2>4, <2>5
<1>4. TypeOK'
  <2>1. req' \in [Requests -> Req]
    BY <1>3 DEF Lapse
  <2> QED  BY <1>1, <1>2, <2>1 DEF TypeOK
<1>5. ProcessInv' /\ CacheEarned'
  <2>1. \A r \in Requests : req'[r].phase = req[r].phase /\ req'[r].token = req[r].token
    BY <1>3
  <2>2. ProcessInv'
    BY <1>1, <1>2, <2>1 DEF ProcessInv, Importable
  <2>3. CacheEarned'
    BY <1>1, <1>2, <2>1 DEF CacheEarned
  <2> QED  BY <2>2, <2>3
<1>6. ASSUME NEW r \in Requests PROVE Good(r)'
  <2>1. Good(r)
    BY DEF IInv
  <2>2. /\ req'[r].phase = req[r].phase /\ req'[r].token = req[r].token
        /\ req'[r].target = req[r].target /\ req'[r].next = req[r].next
        /\ req'[r].attempt = req[r].attempt /\ req'[r].reply = req[r].reply
        /\ req'[r].status = req[r].status /\ req'[r].asks = req[r].asks
        /\ req'[r].by = req[r].by /\ (req[r].fresh => req'[r].fresh)
        /\ req[r].phase \in {"new", "done"} => req'[r] = req[r]
        /\ req[r].phase \notin {"new", "done"} =>
             req'[r].fresh = (req[r].fresh \/ req[r].token \in minted \ barred')
    BY <1>3
  <2>3. Arrived(r)'
    BY <1>2, <2>1, <2>2 DEF Good, Arrived
  <2>4. Verifying(r)'
    BY <1>2, <2>1, <2>2 DEF Good, Verifying, InFlight
  <2>5. AnswerEarned(r)'
    BY <1>2, <2>1, <2>2 DEF Good, AnswerEarned
  <2>6. PassedWell(r)'
    BY <1>2, <2>1, <2>2 DEF Good, PassedWell, Passed, Named, Importable
  <2>7. RefusedWell(r)'
    BY <1>2, <2>1, <2>2 DEF Good, RefusedWell, Passed, VerifiesFirst
  <2> QED  BY <2>3, <2>4, <2>5, <2>6, <2>7 DEF Good
<1> QED  BY <1>4, <1>5, <1>6 DEF IInv

\* The invariant holds in every reachable state.
THEOREM Invariant == Spec => []IInv
<1>1. IInv /\ [Next]_vars => IInv'
  <2> SUFFICES ASSUME IInv, [Next]_vars PROVE IInv'
    OBVIOUS
  <2>1. CASE Next
    BY <2>1, ArriveStep, ServeStep, LoadStep, CrashStep, LapseStep, OuterStep DEF Next
  <2>2. CASE UNCHANGED vars
    <3>1. TypeOK /\ ProcessInv /\ CacheEarned /\ faults \in Nat
      BY GatewayAssumption DEF IInv, TypeOK
    <3>2. UNCHANGED <<now, faults, setting, up, plugins, caUp, minted, barred, accepted, cache, req>>
      BY <2>2 DEF vars, gateway, caVars
    <3>3. TypeOK' /\ ProcessInv' /\ CacheEarned'
      BY <3>1, <3>2 DEF TypeOK, ProcessInv, CacheEarned, Importable
    <3>4. Onwards
      BY <3>1, <3>2 DEF Onwards, TypeOK
    <3>5. \A r \in Requests : Good(r)'
      BY <3>2, <3>4, OthersKeep
    <3> QED  BY <3>3, <3>5 DEF IInv
  <2> QED  BY <2>1, <2>2
<1> QED  BY <1>1, InitIInv, PTL DEF Spec

\* Requests, cache and the authority's sets are well formed in every state.
THEOREM TypeCorrect == Spec => []TypeOK
<1>1. IInv => TypeOK
  BY DEF IInv
<1> QED  BY <1>1, Invariant, PTL

\* Nothing passes a protected path that a plugin of the setting did not let
\* pass, for any interleaving of requests, retries, lost answers, crashes and
\* revocations (coupon_validation_middleware, VerifyWithCAPlugin.process).
THEOREM GoodCouponsOnly == Spec => []OnlyGoodCouponsPass
<1>1. IInv => OnlyGoodCouponsPass
  BY DEF IInv, Good, PassedWell, OnlyGoodCouponsPass, Importable
<1> QED  BY <1>1, Invariant, PTL

\* A refusal for want of the authority has cost every attempt, and without a
\* fault no good coupon is refused (_post_with_retry).
THEOREM CauseOfRefusal == Spec => []RefusedForCause
<1>1. IInv => RefusedForCause
  BY DEF IInv, Good, RefusedWell, RefusedForCause, VerifiesFirst
<1> QED  BY <1>1, Invariant, PTL

\* What answers, backs off, retries or finishes leaves who let a request pass.
LEMMA SameBy ==
    ASSUME NEW q \in Req
    PROVE  /\ \A reply : [q EXCEPT !.phase = "replied", !.reply = reply].by = q.by
           /\ [q EXCEPT !.phase = "sleeping", !.reply = "none"].by = q.by
           /\ \A status : [q EXCEPT !.phase = "done", !.status = status].by = q.by
           /\ \A a, n : [q EXCEPT !.phase = "asking", !.attempt = a, !.asks = n].by = q.by
  BY DEF Req

\* A request comes to pass by the cache only in the step in which its last call
\* fails.
LEMMA PassesByCache ==
    ASSUME IInv, Next, NEW r \in Requests, req'[r].by = "cache", req[r].by = "none"
    PROVE  CallFails(r) /\ ~MayRetry(r) /\ req[r].token \in cache /\ ExpOf[req[r].token] > now
<1>0. TypeOK /\ ProcessInv /\ req \in [Requests -> Req] /\ req[r] \in Req
  BY DEF IInv, TypeOK
<1>1. req'[r] # req[r]
  OBVIOUS
<1>2. ASSUME NEW p \in Requests, NEW q, Set(p, q) PROVE p = r /\ req'[r] = q
  BY <1>0, <1>1, <1>2 DEF Set
<1>by. ASSUME NEW p \in Requests, NEW q, Set(p, q), q.by = req[p].by PROVE FALSE
  BY <1>2, <1>by
<1>3. ASSUME NEW p \in Requests, NEW token \in Coupons \cup {Garbage, NoToken},
             NEW target \in Targets, Arrive(p, token, target)
      PROVE  FALSE
  <2> DEFINE q0 == [req[p] EXCEPT !.token = token, !.target = target,
                                  !.fresh = token \in minted \ barred]
             q  == IF target \in Open THEN [q0 EXCEPT !.phase = "forwarding", !.by = "nobody"]
                   ELSE Pipeline(q0)
  <2>1. Set(p, q) /\ up /\ req[p].phase = "new"
    BY <1>3 DEF Arrive
  <2>2. p = r /\ req'[r] = q
    BY <1>2, <2>1
  <2>3. req[r] = NewReq
    BY <2>1, <2>2 DEF IInv, Good, Arrived
  <2>4. q0 \in Req /\ q0.by = "none" /\ q0.next = 0 /\ ~q0.claims
    <3> DEFINE fresh == token \in minted \ barred
               new   == req[r]
    <3>1. fresh \in BOOLEAN /\ new \in Req /\ new.by = "none" /\ new.next = 0 /\ ~new.claims
      BY <1>0, <2>3 DEF NewReq
    <3> HIDE DEF fresh, new
    <3>2. LET q1 == [new EXCEPT !.token = token, !.target = target, !.fresh = fresh] IN
          q1 \in Req /\ q1.by = "none" /\ q1.next = 0 /\ ~q1.claims
      BY <3>1 DEF Req
    <3> QED  BY <2>2, <3>2 DEF fresh, new
  <2>5. CASE target \in Open
    <3>1. q.by = "nobody"
      BY <2>4, <2>5 DEF Req
    <3> QED  BY <2>2, <3>1
  <2>6. CASE target \notin Open
    <3> HIDE DEF q0
    <3>1. q \in {Forwarded(q0), Mismatched(q0), Unfilled(q0), Asked(q0)}
      BY <1>0, <2>1, <2>4, <2>6, PipelineStarts
    <3>2. q.by # "cache"
      BY <2>4, <3>1 DEF Forwarded, Mismatched, Unfilled, Asked, Req
    <3> QED  BY <2>2, <3>2
  <2> QED  BY <2>5, <2>6
<1>4. ASSUME NEW p \in Requests, Serve(p) PROVE CallFails(r)
                /\ ~MayRetry(r) /\ req[r].token \in cache /\ ExpOf[req[r].token] > now
  <2>0. req[p] \in Req
    BY <1>0
  <2>1. CASE DecideValid(p) \/ DecideInvalid(p) \/ DecideError(p)
    <3>1. \E reply : Set(p, [req[p] EXCEPT !.phase = "replied", !.reply = reply])
      BY <2>1 DEF DecideValid, DecideInvalid, DecideError, Replied
    <3> QED  BY <1>by, <2>0, <3>1, SameBy
  <2>2. CASE CallFails(p)
    <3>1. CASE MayRetry(p)
      <4>1. Set(p, [req[p] EXCEPT !.phase = "sleeping", !.reply = "none"])
        BY <2>2, <3>1 DEF CallFails, BackOff
      <4> QED  BY <1>by, <2>0, <4>1, SameBy
    <3>2. CASE ~MayRetry(p) /\ OfflineCache /\ req[p].token \in cache /\ ExpOf[req[p].token] > now
      <4>1. Admit(p, "cache")
        BY <2>2, <3>2 DEF CallFails
      <4>2. p = r
        BY <1>2, <4>1 DEF Admit
      <4> QED  BY <2>2, <3>2, <4>2
    <3>3. CASE ~MayRetry(p) /\ ~(OfflineCache /\ req[p].token \in cache /\ ExpOf[req[p].token] > now)
      <4>1. Finish(p, "authority_unavailable")
        BY <2>2, <3>3 DEF CallFails
      <4> QED  BY <1>by, <2>0, <4>1, SameBy DEF Finish
    <3> QED  BY <3>1, <3>2, <3>3
  <2>3. CASE Busy(p)
    <3>1. \/ Set(p, [req[p] EXCEPT !.phase = "sleeping", !.reply = "none"])
          \/ Finish(p, "authority_error")
      BY <2>3 DEF Busy, BackOff
    <3> QED  BY <1>by, <2>0, <3>1, SameBy DEF Finish
  <2>4. CASE Broken(p) \/ Invalid(p) \/ Proxy(p)
    <3>1. \E status : Finish(p, status)
      BY <2>4 DEF Broken, Invalid, Proxy
    <3> QED  BY <1>by, <2>0, <3>1, SameBy DEF Finish
  <2>5. CASE Valid(p)
    <3> DEFINE q0 == [req[p] EXCEPT !.claims = TRUE, !.by = "ca"]
    <3>1. InFlight(p) /\ Set(p, Pipeline(q0))
      BY <2>5 DEF Valid, InFlight, Admit
    <3>2. up /\ Good(p)
      BY <3>1, Serving DEF InFlight
    <3>3. setting # <<>> /\ setting[1] = "verify" /\ req[p].next = 1
      BY <3>1, <3>2 DEF Good, Verifying
    <3>4. q0 \in Req /\ q0.by = "ca" /\ q0.next = 1 /\ q0.claims
      BY <2>0, <3>3 DEF Req
    <3> HIDE DEF q0
    <3>5. Pipeline(q0) \in {Forwarded(q0), Mismatched(q0)}
      BY <1>0, <3>2, <3>3, <3>4, PipelineEnds
    <3>6. Pipeline(q0).by = "ca"
      BY <3>4, <3>5 DEF Forwarded, Mismatched, Req
    <3> QED  BY <1>2, <3>1, <3>6
  <2>6. CASE Retry(p)
    <3>1. \E a, n : Set(p, [req[p] EXCEPT !.phase = "asking", !.attempt = a, !.asks = n])
      BY <2>6 DEF Retry
    <3>2. PICK a, n : Set(p, [req[p] EXCEPT !.phase = "asking", !.attempt = a, !.asks = n])
      BY <3>1
    <3>3. [req[p] EXCEPT !.phase = "asking", !.attempt = a, !.asks = n].by = req[p].by
      BY <2>0, SameBy
    <3> QED  BY <1>by, <3>2, <3>3
  <2> QED  BY <1>4, <2>1, <2>2, <2>3, <2>4, <2>5, <2>6 DEF Serve
<1>5. CASE Load \/ Authority \/ Outage \/ Tick
  BY <1>1, <1>5 DEF Load, Authority, Outage, Tick
<1>6. CASE Crash
  <2>1. req'[r] = IF req[r].phase \in {"new", "done"} THEN req[r]
                  ELSE [req[r] EXCEPT !.phase = "done", !.status = "cut"]
    BY <1>6 DEF Crash
  <2>2. req'[r].by = req[r].by
    BY <1>0, <2>1 DEF Req
  <2> QED  BY <2>2
<1>7. CASE Lapse
  <2>1. req'[r] = IF req[r].phase \in {"new", "done"} THEN req[r]
                  ELSE [req[r] EXCEPT !.fresh = @ \/ req[r].token \in minted \ barred']
    BY <1>7 DEF Lapse
  <2>2. req'[r].by = req[r].by
    BY <1>0, <2>1 DEF Req
  <2> QED  BY <2>2
<1> QED  BY <1>3, <1>4, <1>5, <1>6, <1>7 DEF Next

\* The cache answers after every attempt has failed, before the exp of a coupon
\* that the authority accepted for a request (_post_with_retry, process).
THEOREM CacheIsLastResort == Spec => CachePassesLastResort
<1> DEFINE LastResort(r) ==
             req'[r].by = "cache" /\ req[r].by = "none" =>
               /\ \E q \in Requests : req[q].token = req[r].token /\ accepted[q] # {}
               /\ now < ExpOf[req[r].token]
               /\ req[r].asks = Retries + 1
<1>1. ASSUME IInv, Next, NEW r \in Requests PROVE LastResort(r)
  <2> SUFFICES ASSUME req'[r].by = "cache", req[r].by = "none"
               PROVE  /\ \E q \in Requests : req[q].token = req[r].token /\ accepted[q] # {}
                      /\ now < ExpOf[req[r].token]
                      /\ req[r].asks = Retries + 1
    OBVIOUS
  <2>1. CallFails(r) /\ ~MayRetry(r) /\ req[r].token \in cache /\ ExpOf[req[r].token] > now
    BY <1>1, PassesByCache
  <2>2. InFlight(r)
    BY <2>1 DEF CallFails, InFlight
  <2>3. Good(r) /\ req[r] \in Req
    BY <1>1, <2>2, Serving DEF InFlight
  <2>4. req[r].asks = Retries + 1
    <3>1. req[r].attempt \in Nat /\ Retries \in Nat
      BY <2>3, GatewayAssumption DEF Req
    <3>2. req[r].attempt <= Retries /\ req[r].asks = req[r].attempt + 1
      BY <2>2, <2>3 DEF Good, Verifying
    <3> QED  BY <2>1, <3>1, <3>2 DEF MayRetry
  <2>5. now < ExpOf[req[r].token]
    <3>1. req[r].token \in Coupons /\ now \in Nat
      BY <1>1, <2>1 DEF IInv, TypeOK
    <3>2. ExpOf[req[r].token] \in Nat
      BY <3>1, GatewayAssumption
    <3> QED  BY <2>1, <3>1, <3>2
  <2> QED  BY <1>1, <2>1, <2>4, <2>5 DEF IInv, CacheEarned
<1>2. IInv /\ [Next]_vars => [\A r \in Requests : LastResort(r)]_vars
  BY <1>1
<1>3. Spec => [][\A r \in Requests : LastResort(r)]_vars
  BY <1>2, Invariant, PTL DEF Spec
<1> QED  BY <1>3 DEF CachePassesLastResort

\* The gateway takes the authority for what CouponRegistry promises, and does to
\* it only what a caller may: every step is one of the registry or leaves it
\* alone.
THEOREM DrivesAuthority == Spec => CA!Spec
<1>1. Init => CA!Init
  BY DEF Init
<1>2. [Next]_vars => [CA!Next]_(CA!abstractVars)
  <2> SUFFICES ASSUME [Next]_vars PROVE CA!Next \/ UNCHANGED <<minted, barred, accepted>>
    BY DEF CA!abstractVars
  <2>1. ASSUME NEW r \in Requests, Serve(r)
        PROVE  CA!Next \/ UNCHANGED <<minted, barred, accepted>>
    <3>1. CASE DecideValid(r)
      BY <3>1 DEF DecideValid, CA!Next
    <3>2. CASE ~DecideValid(r)
      BY <2>1, <3>2 DEF Serve, DecideInvalid, DecideError, CallFails, Busy, Broken, Invalid,
                        Valid, Retry, Proxy, caVars
    <3> QED  BY <3>1, <3>2
  <2>2. CASE Authority
    BY <2>2 DEF Authority, CA!Next
  <2>3. CASE Lapse
    BY <2>3 DEF Lapse, CA!Next
  <2>4. ASSUME NEW r \in Requests, NEW token, NEW target, Arrive(r, token, target)
        PROVE  UNCHANGED <<minted, barred, accepted>>
    BY <2>4 DEF Arrive, caVars
  <2>5. CASE Load \/ Crash \/ Outage \/ Tick \/ UNCHANGED vars
    BY <2>5 DEF Load, Crash, Outage, Tick, vars, caVars
  <2> QED  BY <2>1, <2>2, <2>3, <2>4, <2>5 DEF Next
<1> QED  BY <1>1, <1>2, PTL DEF Spec, CA!Spec

-----------------------------------------------------------------------------
(* The scopes that the plugin PurposeBinding matches, read as the texts of *)
(* the module PurposeBinding: what Permits stands for above.               *)

\* A set of numbers has a least one.
LEMMA Least ==
    ASSUME NEW S \in SUBSET Nat, S # {}
    PROVE  \E i \in S : \A k \in S : i <= k
<1> DEFINE R == OpToRel(<, Nat)
<1>1. PICK i \in S : \A k \in S : ~ (<<k, i>> \in R)
  BY NatLessThanWellFounded, WFMin, Zenon
<1>2. \A k \in S : ~ (k < i)
  BY <1>1 DEF OpToRel
<1> QED  BY <1>2

\* A bounded set of numbers has a greatest one.
LEMMA Greatest ==
    ASSUME NEW n \in Nat, NEW S \in SUBSET (1 .. n), S # {}
    PROVE  \E i \in S : \A k \in S : k <= i
<1> DEFINE T == {n - k : k \in S}
<1>0. \A k \in S : n - k \in Nat
  OBVIOUS
<1>1. T \in SUBSET Nat /\ T # {}
  BY <1>0
<1>2. PICK t \in T : \A u \in T : t <= u
  BY <1>1, Least
<1>3. PICK i \in S : t = n - i
  OBVIOUS
<1>4. \A k \in S : n - i <= n - k
  BY <1>2, <1>3
<1> QED  BY <1>4

\* A part of a part is a part.
LEMMA SubSubSeq ==
    ASSUME NEW T, NEW s \in Seq(T), NEW a \in 1 .. Len(s), NEW b \in 1 .. Len(s), a <= b,
           NEW i \in 1 .. Len(SubSeq(s, a, b)), NEW j \in 1 .. Len(SubSeq(s, a, b)), i <= j
    PROVE  /\ Len(SubSeq(s, a, b)) = b - a + 1
           /\ \A k \in 1 .. b - a + 1 : SubSeq(s, a, b)[k] = s[a + k - 1]
           /\ SubSeq(SubSeq(s, a, b), i, j) = SubSeq(s, a + i - 1, a + j - 1)
<1> DEFINE p == SubSeq(s, a, b)
           l == SubSeq(p, i, j)
           r == SubSeq(s, a + i - 1, a + j - 1)
<1>1. Len(s) \in Nat /\ a \in Nat /\ b \in Nat /\ i \in Nat /\ j \in Nat
  OBVIOUS
<1>2. /\ p \in Seq(T) /\ Len(p) = b - a + 1
      /\ \A k \in 1 .. b - a + 1 : p[k] = s[a + k - 1]
  BY <1>1
<1>3. /\ i \in 1 .. b - a + 1 /\ j \in 1 .. b - a + 1
      /\ a + i - 1 \in 1 .. Len(s) /\ a + j - 1 \in 1 .. Len(s) /\ a + i - 1 <= a + j - 1
  BY <1>1, <1>2
<1> HIDE DEF p
<1>4. /\ l \in Seq(T) /\ Len(l) = j - i + 1
      /\ \A k \in 1 .. j - i + 1 : l[k] = p[i + k - 1]
  BY <1>1, <1>2, <1>3
<1>5. /\ r \in Seq(T) /\ Len(r) = j - i + 1
      /\ \A k \in 1 .. j - i + 1 : r[k] = s[a + i - 1 + k - 1]
  BY <1>1, <1>3
<1> HIDE DEF l, r
<1>6. \A k \in 1 .. j - i + 1 : l[k] = r[k]
  <2>1. SUFFICES ASSUME NEW k \in 1 .. j - i + 1 PROVE l[k] = r[k]
    OBVIOUS
  <2>2. i + k - 1 \in 1 .. b - a + 1 /\ a + (i + k - 1) - 1 = a + i - 1 + k - 1
    BY <1>1, <1>3
  <2> QED  BY <1>2, <1>4, <1>5, <2>2
<1>7. l = r
  BY <1>1, <1>4, <1>5, <1>6
<1> QED  BY <1>2, <1>7 DEF p, l, r

\* str.strip cuts a text at blanks only.
LEMMA StripIs ==
    ASSUME NEW T, NEW s \in Seq(T), Strip(s) # <<>>
    PROVE  \E i, j \in 1 .. Len(s) :
             /\ i <= j /\ Strip(s) = SubSeq(s, i, j)
             /\ i = 1 \/ s[i - 1] = Blank
             /\ j = Len(s) \/ s[j + 1] = Blank
<1> DEFINE n == Len(s)
           kept == {i \in DOMAIN s : s[i] # Blank}
           first == CHOOSE i \in kept : \A k \in kept : i <= k
           last == CHOOSE i \in kept : \A k \in kept : k <= i
<1>0. n \in Nat /\ DOMAIN s = 1 .. n
  OBVIOUS
<1>1. kept \in SUBSET (1 .. n) /\ kept \in SUBSET Nat
  BY <1>0
<1>2. kept # {} /\ Strip(s) = SubSeq(s, first, last)
  BY DEF Strip
<1>3. first \in kept /\ \A k \in kept : first <= k
  BY <1>1, <1>2, Least
<1>4. last \in kept /\ \A k \in kept : k <= last
  BY <1>0, <1>1, <1>2, Greatest
<1> HIDE DEF first, last
<1>5. first \in 1 .. n /\ last \in 1 .. n /\ first <= last
  BY <1>0, <1>1, <1>3, <1>4
<1>6. first = 1 \/ s[first - 1] = Blank
  <2>1. first # 1 => first - 1 \in 1 .. n /\ ~(first <= first - 1)
    BY <1>0, <1>5
  <2> QED  BY <1>0, <1>3, <2>1
<1>7. last = n \/ s[last + 1] = Blank
  <2>1. \A l \in Nat : \A m \in 1 .. l : m # l => m + 1 \in 1 .. l /\ ~(m + 1 <= m)
    OBVIOUS
  <2> QED  BY <1>0, <1>4, <1>5, <2>1
<1> HIDE DEF kept
<1>8. /\ first \in 1 .. Len(s) /\ last \in 1 .. Len(s)
      /\ first <= last /\ Strip(s) = SubSeq(s, first, last)
      /\ first = 1 \/ s[first - 1] = Blank
      /\ last = Len(s) \/ s[last + 1] = Blank
  BY <1>2, <1>5, <1>6, <1>7
<1> QED  BY <1>8, Zenon

\* The first true claim of a coupon that has only a scope.
LEMMA ClaimIs ==
    ASSUME NEW v
    PROVE  ScopeClaim(Scoped(v)) = IF Truthy(v) THEN v ELSE Absent
<1> DEFINE claims == Scoped(v)
           order == <<"scope", "scp", "purpose", "pur">>
           true == {i \in 1 .. 4 : Truthy(claims[order[i]])}
<1>1. /\ claims[order[1]] = v
      /\ \A i \in 1 .. 4 : i # 1 => claims[order[i]] = Absent
      /\ claims[order[4]] = Absent
  BY DEF Scoped
<1>2. ~Truthy(Absent)
  BY DEF Truthy, Absent
<1>3. ScopeClaim(claims)
        = claims[order[IF true = {} THEN 4 ELSE CHOOSE i \in true : \A k \in true : i <= k]]
  BY DEF ScopeClaim
<1> HIDE DEF claims, order
<1>4. true = IF Truthy(v) THEN {1} ELSE {}
  BY <1>1, <1>2
<1>5. CASE Truthy(v)
  <2>1. true = {1} /\ true # {}
    BY <1>4, <1>5
  <2>2. (CHOOSE i \in true : \A k \in true : i <= k) = 1
    BY <2>1
  <2> QED  BY <1>1, <1>3, <1>5, <2>1, <2>2 DEF claims
<1>6. CASE ~Truthy(v)
  BY <1>1, <1>3, <1>4, <1>6 DEF claims
<1> QED  BY <1>5, <1>6

\* A part of a text is what stands between two separators.
LEMMA PartIs ==
    ASSUME NEW T, NEW s \in Seq(T), NEW sep, NEW e \in Split(s, sep)
    PROVE  \E a, b \in 1 .. Len(s) :
             /\ a <= b /\ e = SubSeq(s, a, b)
             /\ a = 1 \/ s[a - 1] = sep
             /\ b = Len(s) \/ s[b + 1] = sep
<1>1. PICK a \in DOMAIN s :
        e \in {SubSeq(s, a, b) : b \in {n \in DOMAIN s : Part(s, sep, a, n)}}
  BY DEF Split
<1>2. PICK b \in DOMAIN s : Part(s, sep, a, b) /\ e = SubSeq(s, a, b)
  BY <1>1
<1>3. DOMAIN s = 1 .. Len(s)
  OBVIOUS
<1>4. /\ a <= b /\ e = SubSeq(s, a, b)
      /\ a = 1 \/ s[a - 1] = sep
      /\ b = Len(s) \/ s[b + 1] = sep
  BY <1>2 DEF Part
<1> QED  BY <1>3, <1>4, Zenon

\* A part that is stripped ends at its separators or at blanks.
LEMMA StrippedPartIs ==
    ASSUME NEW T, NEW s \in Seq(T), NEW sep, NEW e \in Split(s, sep),
           Strip(e) # <<>>
    PROVE  \E x, y \in 1 .. Len(s) :
             /\ Strip(e) = SubSeq(s, x, y)
             /\ x = 1 \/ s[x - 1] = sep \/ s[x - 1] = Blank
             /\ y = Len(s) \/ s[y + 1] = sep \/ s[y + 1] = Blank
<1>1. Len(s) \in Nat /\ DOMAIN s = 1 .. Len(s)
  OBVIOUS
<1>2. PICK a, b \in 1 .. Len(s) : /\ a <= b /\ e = SubSeq(s, a, b)
                                  /\ a = 1 \/ s[a - 1] = sep
                                  /\ b = Len(s) \/ s[b + 1] = sep
  BY PartIs, Zenon
<1>3. e \in Seq(T)
  <2>1. a \in Nat /\ b \in Nat /\ SubSeq(s, a, b) \in Seq(T)
    BY <1>1
  <2> QED  BY <1>2, <2>1
<1>4. PICK i, j \in 1 .. Len(e) : /\ i <= j /\ Strip(e) = SubSeq(e, i, j)
                                  /\ i = 1 \/ e[i - 1] = Blank
                                  /\ j = Len(e) \/ e[j + 1] = Blank
  BY <1>3, StripIs
<1> DEFINE x == a + i - 1
           y == a + j - 1
<1>5. /\ Len(e) = b - a + 1
      /\ \A k \in 1 .. b - a + 1 : e[k] = s[a + k - 1]
      /\ SubSeq(e, i, j) = SubSeq(s, x, y)
  BY <1>2, <1>4, SubSubSeq
<1>6. /\ a \in Nat /\ b \in Nat /\ i \in Nat /\ j \in Nat
      /\ i \in 1 .. b - a + 1 /\ j \in 1 .. b - a + 1
  BY <1>1, <1>4, <1>5
<1>7. x \in 1 .. Len(s) /\ y \in 1 .. Len(s)
  BY <1>1, <1>6
<1>8. x = 1 \/ s[x - 1] = sep \/ s[x - 1] = Blank
  <2>1. CASE i = 1
    <3>1. x = a
      BY <1>6, <2>1
    <3> QED  BY <1>2, <3>1
  <2>2. CASE i # 1
    <3>1. i - 1 \in 1 .. b - a + 1 /\ a + (i - 1) - 1 = x - 1
      BY <1>6, <2>2
    <3>2. e[i - 1] = s[x - 1]
      BY <1>5, <3>1
    <3> QED  BY <1>4, <2>2, <3>2
  <2> QED  BY <2>1, <2>2
<1>9. y = Len(s) \/ s[y + 1] = sep \/ s[y + 1] = Blank
  <2>1. CASE j = Len(e)
    <3>1. y = b
      BY <1>5, <1>6, <2>1
    <3> QED  BY <1>2, <3>1
  <2>2. CASE j # Len(e)
    <3>1. j + 1 \in 1 .. b - a + 1 /\ a + (j + 1) - 1 = y + 1
      BY <1>5, <1>6, <2>2
    <3>2. e[j + 1] = s[a + (j + 1) - 1]
      BY <1>5, <3>1
    <3>3. e[j + 1] = s[y + 1]
      BY <3>1, <3>2
    <3> QED  BY <1>4, <2>2, <3>3
  <2> QED  BY <2>1, <2>2
<1>10. Strip(e) = SubSeq(s, x, y)
  BY <1>4, <1>5
<1> HIDE DEF x, y
<1> QED  BY <1>7, <1>8, <1>9, <1>10

\* No spelling of a request is empty.
LEMMA NoneIsEmpty ==
    ASSUME NEW m, NEW p
    PROVE  <<>> \notin Candidates(m, p)
<1>1. \A x, y, z : <<x, y, z>> # <<>> /\ <<x, y>> # <<>>
  OBVIOUS
<1> QED  BY <1>1 DEF Candidates

\* An entry of a text, stripped or not, is spelled by it.
LEMMA EntriesAreSpelled ==
    ASSUME NEW T, NEW s \in Seq(T), NEW sep \in {",", ";", Blank},
           NEW e \in Split(s, sep), NEW m, NEW p,
           NEW c \in Candidates(m, p), c = e \/ c = Strip(e)
    PROVE  Spells(s, m, p)
<1>1. \E x, y \in 1 .. Len(s) :
        /\ c = SubSeq(s, x, y)
        /\ x = 1 \/ s[x - 1] = sep \/ s[x - 1] = Blank
        /\ y = Len(s) \/ s[y + 1] = sep \/ s[y + 1] = Blank
  <2>1. CASE c = e
    <3>1. PICK a, b \in 1 .. Len(s) : /\ a <= b /\ e = SubSeq(s, a, b)
                                      /\ a = 1 \/ s[a - 1] = sep
                                      /\ b = Len(s) \/ s[b + 1] = sep
      BY PartIs, Zenon
    <3>2. c = SubSeq(s, a, b)
      BY <2>1, <3>1
    <3> QED  BY <3>1, <3>2, Zenon
  <2>2. CASE c = Strip(e)
    BY <2>2, NoneIsEmpty, StrippedPartIs, Zenon
  <2> QED  BY <2>1, <2>2
<1>2. PICK x, y \in 1 .. Len(s) :
        /\ SubSeq(s, x, y) \in Candidates(m, p)
        /\ x = 1 \/ s[x - 1] \in {",", ";", Blank}
        /\ y = Len(s) \/ s[y + 1] \in {",", ";", Blank}
  BY <1>1
<1> QED  BY <1>2 DEF Spells

\* A list of one entry is that entry, stripped.
LEMMA SingleIs ==
    ASSUME NEW e
    PROVE  Trimmed({<<e>>[i] : i \in DOMAIN <<e>>}) = {Strip(e)} \ {<<>>}
<1>1. DOMAIN <<e>> = {1} /\ <<e>>[1] = e
  OBVIOUS
<1>2. {<<e>>[i] : i \in DOMAIN <<e>>} = {e}
  BY <1>1
<1> QED  BY <1>2 DEF Trimmed

\* The empty text holds no token.
LEMMA EmptyHasNone == ASSUME NEW t PROVE ~Has(<<>>, t)
  BY DEF Has

\* A scope lets a request pass only if it spells its method and path as one entry.
LEMMA SpelledIfMatched ==
    ASSUME NEW s \in Seq(Tokens), NEW m, NEW p, PurposeMatches(Scoped(Text(s)), m, p)
    PROVE  Spells(s, m, p)
<1>1. ParseScopes(Absent) = {} /\ ParseScopes(Text(s)) = ParseText(s)
  BY DEF ParseScopes, Absent, Text
<1>2. PICK c \in ParseText(s) : c \in Candidates(m, p)
  BY <1>1, ClaimIs DEF PurposeMatches
<1>3. c \in Trimmed(Split(s, ",")) \/ c \in Trimmed(Split(s, ";")) \/ c \in Split(s, Blank)
  BY <1>2 DEF ParseText
<1>4. \E sep \in {",", ";", Blank} : \E e \in Split(s, sep) : c = e \/ c = Strip(e)
  BY <1>3 DEF Trimmed
<1> QED  BY <1>2, <1>4, EntriesAreSpelled

\* A text is a sequence of tokens.
Tokenized == text \in Seq(Tokens)

LEMMA TextIsTokens == ScopeSpec => []Tokenized
<1>1. ScopeInit => Tokenized
  BY DEF ScopeInit, Tokenized
<1>2. Tokenized /\ [ScopeNext]_text => Tokenized'
  BY DEF ScopeNext, Tokenized
<1> QED  BY <1>1, <1>2, PTL DEF ScopeSpec

\* NoOverreach: a scope of any length, however it is punctuated, lets a request
\* pass only if it spells the method and the path as one entry (_parse_scopes).
THEOREM ScopeIsSpelled == ScopeSpec => []NoOverreach
<1>1. Tokenized => NoOverreach
  BY SpelledIfMatched DEF Tokenized, NoOverreach
<1> QED  BY <1>1, TextIsTokens, PTL

\* ListedEntriesPass: an entry between separators of one kind counts as if it
\* stood in a list, wherever it stands and whatever blanks surround it
\* (_parse_scopes).
THEOREM ListedEntriesCount == ScopeSpec => []ListedEntriesPass
<1>1. ASSUME Tokenized PROVE ListedEntriesPass
  <2>1. SUFFICES ASSUME NEW sep \in {",", ";"}, Has(text, sep),
                        ~Has(text, IF sep = "," THEN ";" ELSE ","),
                        NEW m \in Methods, NEW p \in Paths
                 PROVE  (\E e \in Split(text, sep) :
                           PurposeMatches(Scoped(Items(<<e>>)), m, p))
                        <=> PurposeMatches(Scoped(Text(text)), m, p)
    BY DEF ListedEntriesPass
  <2> DEFINE parts == Split(text, sep)
  <2>2. ParseText(text) = {Strip(e) : e \in parts} \ {<<>>}
    BY <2>1 DEF ParseText, Trimmed
  <2>3. Truthy(Text(text))
    <3>1. text # <<>>
      BY <2>1, EmptyHasNone, Zenon
    <3> QED  BY <3>1 DEF Truthy, Text
  <2>4. PurposeMatches(Scoped(Text(text)), m, p)
          <=> ParseText(text) \cap Candidates(m, p) # {}
    <3>1. ParseScopes(Text(text)) = ParseText(text)
      BY DEF ParseScopes, Text
    <3> QED  BY <2>3, <3>1, ClaimIs DEF PurposeMatches
  <2>5. ASSUME NEW e \in parts
        PROVE  PurposeMatches(Scoped(Items(<<e>>)), m, p)
                 <=> ({Strip(e)} \ {<<>>}) \cap Candidates(m, p) # {}
    <3>1. Truthy(Items(<<e>>))
      BY DEF Truthy, Items
    <3>3. ParseScopes(Items(<<e>>))
            = Trimmed({<<e>>[i] : i \in DOMAIN <<e>>})
      BY DEF ParseScopes, Items
    <3>4. ParseScopes(Items(<<e>>)) = {Strip(e)} \ {<<>>}
      BY <3>3, SingleIs, Zenon
    <3> QED  BY <3>1, <3>4, ClaimIs DEF PurposeMatches
  <2> HIDE DEF parts
  <2> QED  BY <2>2, <2>4, <2>5 DEF parts
<1> QED  BY <1>1, TextIsTokens, PTL

-----------------------------------------------------------------------------
\* The whole gateway, from the text of a scope to the request that passes: if
\* each coupon is permitted what PurposeBinding reads in its scope, then under
\* any setting with purpose binding a request passes a protected path only when
\* the scope of its coupon spells that very method and path as one entry, after
\* any mix of retries, lost answers, cached claims and restarts
\* (PurposeBindingPlugin.process).
PassedAsSpelled(scopeOf) ==
    \A r \in Requests : Passed(r) /\ req[r].target \notin Open /\ Named("purpose") =>
       /\ req[r].token \in Coupons
       /\ Spells(scopeOf[req[r].token], req[r].target[1], req[r].target[2])

THEOREM PassedIsSpelled ==
    ASSUME NEW CONSTANT scopeOf \in [Coupons -> Seq(Tokens)],
           Targets \subseteq Methods \X Paths,
           Permits = {g \in Coupons \X Targets :
                        PurposeMatches(Scoped(Text(scopeOf[g[1]])), g[2][1], g[2][2])}
    PROVE  Spec => []PassedAsSpelled(scopeOf)
<1>1. OnlyGoodCouponsPass => PassedAsSpelled(scopeOf)
  <2> SUFFICES ASSUME OnlyGoodCouponsPass, NEW r \in Requests,
                      Passed(r), req[r].target \notin Open, Named("purpose")
               PROVE  /\ req[r].token \in Coupons
                      /\ Spells(scopeOf[req[r].token], req[r].target[1], req[r].target[2])
    BY DEF PassedAsSpelled
  <2> DEFINE c == req[r].token
             t == req[r].target
  <2>1. <<c, t>> \in Permits
    BY DEF OnlyGoodCouponsPass
  <2>2. c \in Coupons /\ PurposeMatches(Scoped(Text(scopeOf[c])), t[1], t[2])
    BY <2>1
  <2> QED  BY <2>2, SpelledIfMatched
<1> QED  BY <1>1, GoodCouponsOnly, PTL
=============================================================================
