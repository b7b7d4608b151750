------------------------------ MODULE Gateway ------------------------------
(***************************************************************************)
(* The validating gateway (gateway/): at start-up it loads the plugins its *)
(* setting names; each request runs through them, by default VerifyWithCA  *)
(* (retries, optional offline cache) and purpose binding, and is then      *)
(* proxied upstream.  Requests are coroutines of one event loop that share *)
(* the cache; they interleave where they await: the call of /verify, the   *)
(* back-off, the upstream.  The process may die and start again.  The      *)
(* Coupon Authority is the one CouponRegistry promises.                    *)
(***************************************************************************)
EXTENDS Naturals, FiniteSets, Sequences

CONSTANTS Requests,      \* the requests of a behaviour
          Coupons,       \* coupons that may be minted
          Garbage,       \* a token no authority minted
          NoToken,       \* no bearer token in the request
          Targets,       \* method and path of a request
          Open,          \* the targets under UNPROTECTED_PATHS
          Permits,       \* the <<coupon, target>> whose scope claims match
          ExpOf,         \* the exp claim of each coupon
          Settings,      \* values of GATEWAY_PLUGINS: class names, in order
          Retries,       \* GATEWAY_VERIFY_RETRIES
          OfflineCache,  \* GATEWAY_OFFLINE_CACHE
          MaxNow,        \* bound: the clock stops there
          MaxFaults      \* bound: outages, lost calls, errors, crashes and lapses

ASSUME GatewayAssumption ==
    /\ Garbage \notin Coupons /\ NoToken \notin Coupons /\ Garbage # NoToken
    /\ Targets # {} /\ Open \subseteq Targets /\ Permits \subseteq Coupons \X Targets
    /\ ExpOf \in [Coupons -> Nat]
    /\ Settings \subseteq Seq(STRING)
    /\ \A names \in Settings : \A i, j \in DOMAIN names :
         names[i] = "verify" /\ names[j] = "verify" => i = j
    /\ Retries \in Nat /\ MaxNow \in Nat /\ MaxFaults \in Nat
    /\ OfflineCache \in BOOLEAN

VARIABLES now, faults,
          setting,   \* GATEWAY_PLUGINS
          up,        \* the process serves requests
          plugins,   \* app.state.plugins
          caUp,      \* the authority can be reached
          minted, barred, accepted, \* the authority: CouponRegistry
          cache,     \* VerifyWithCAPlugin._cache: coupons with cached claims
          req        \* the requests and the coroutines that serve them

caVars == <<minted, barred, accepted>>
gateway == <<setting, up, plugins>>
vars == <<now, faults, gateway, caUp, caVars, cache, req>>

CA == INSTANCE CouponRegistry WITH Jtis <- Coupons, Clients <- Requests

Phases == {"new", "asking", "replied", "sleeping", "forwarding", "done"}
Replies == {"none", "valid", "invalid", "busy", "broken"}
Statuses == {"none", "proxied", "missing_coupon", "invalid_coupon",
             "purpose_mismatch", "authority_unavailable", "authority_error",
             "upstream_unavailable", "cut"}

\* `next` is the plugin at work, `claims` whether ctx.claims was filled.
\* `asks`, `fresh` and `by` are history: how often /verify was called, whether
\* the coupon was good when the request came or since, who let it pass.
Req == [phase : Phases, token : Coupons \cup {Garbage, NoToken}, target : Targets,
        next : Nat, claims : BOOLEAN, attempt : Nat, reply : Replies, status : Statuses,
        asks : Nat, fresh : BOOLEAN, by : {"none", "ca", "cache", "nobody"}]

NewReq == [phase |-> "new", token |-> NoToken, target |-> CHOOSE t \in Targets : TRUE,
           next |-> 0, claims |-> FALSE, attempt |-> 0, reply |-> "none",
           status |-> "none", asks |-> 0, fresh |-> FALSE, by |-> "none"]

Set(r, q) == req' = [req EXCEPT ![r] = q]
Finish(r, status) == Set(r, [req[r] EXCEPT !.phase = "done", !.status = status])

\* The plugins after q.next run until one awaits or answers: purpose binding
\* does neither when the claims match, and claims that no one filled do not.
Pipeline(q) ==
    LET verify == CHOOSE i \in q.next + 1 .. Len(plugins) + 1 :
                    /\ i > Len(plugins) \/ plugins[i] = "verify"
                    /\ \A k \in q.next + 1 .. i - 1 : plugins[k] # "verify"
        bound == verify = q.next + 1 \/ (q.claims /\ <<q.token, q.target>> \in Permits)
    IN IF ~bound THEN [q EXCEPT !.phase = "done", !.status = "purpose_mismatch"]
       ELSE IF verify > Len(plugins)
       THEN [q EXCEPT !.phase = "forwarding", !.by = IF @ = "none" THEN "nobody" ELSE @]
       ELSE IF q.token = NoToken
       THEN [q EXCEPT !.phase = "done", !.status = "missing_coupon"]
       ELSE [q EXCEPT !.phase = "asking", !.next = verify, !.asks = 1]

\* VerifyWithCAPlugin lets the request pass, with claims.
Admit(r, by) == Set(r, Pipeline([req[r] EXCEPT !.claims = TRUE, !.by = by]))

-----------------------------------------------------------------------------
Init == /\ now = 0 /\ faults = 0 /\ caUp = TRUE
        /\ setting \in Settings /\ up = FALSE /\ plugins = <<>>
        /\ CA!Init
        /\ cache = {}
        /\ req = [r \in Requests |-> NewReq]

\* Faulty variant: what does not import is left out.
LoadWhatLoads ==
    /\ ~up /\ up' = TRUE
    /\ plugins' = SelectSeq(setting, LAMBDA name : name \in {"verify", "purpose"})
    /\ UNCHANGED <<now, faults, setting, caUp, caVars, cache, req>>

\* load_plugins: a name that does not import keeps the process from starting.
Load == /\ ~up /\ \A i \in DOMAIN setting : setting[i] \in {"verify", "purpose"}
        /\ up' = TRUE
        /\ plugins' = setting
        /\ UNCHANGED <<now, faults, setting, caUp, caVars, cache, req>>

\* The process dies, and its requests and its cache with it.
Crash == /\ up /\ faults < MaxFaults /\ faults' = faults + 1
         /\ up' = FALSE /\ plugins' = <<>> /\ cache' = {}
         /\ req' = [r \in Requests |->
                      IF req[r].phase \in {"new", "done"} THEN req[r]
                      ELSE [req[r] EXCEPT !.phase = "done", !.status = "cut"]]
         /\ UNCHANGED <<now, setting, caUp, caVars>>

\* coupon_validation_middleware: a path under UNPROTECTED_PATHS skips the plugins.
\* Of these the gateway answers /health, /docs and /openapi.json itself, which
\* shows a client no less than the proxied ones: all are "forwarding" here.
Arrive(r, token, target) ==
    /\ req[r].phase = "new" /\ up
    /\ token \in minted \cup {Garbage, NoToken}
    /\ LET q == [req[r] EXCEPT !.token = token, !.target = target,
                               !.fresh = token \in minted \ barred]
       IN Set(r, IF target \in Open THEN [q EXCEPT !.phase = "forwarding", !.by = "nobody"]
                 ELSE Pipeline(q))
    /\ UNCHANGED <<now, faults, gateway, caUp, caVars, cache>>

-----------------------------------------------------------------------------
(* The authority's side of POST /verify.                                   *)

Replied(r, reply) == Set(r, [req[r] EXCEPT !.phase = "replied", !.reply = reply])

DecideValid(r) == /\ req[r].phase = "asking" /\ caUp
                  /\ req[r].token \in Coupons
                  /\ CA!Accept(r, req[r].token)
                  /\ Replied(r, "valid")
                  /\ UNCHANGED <<now, faults, gateway, caUp, cache>>

\* Not minted, barred, or an error inside the authority.
DecideInvalid(r) == /\ req[r].phase = "asking" /\ caUp
                    /\ IF req[r].token \in minted \ barred
                       THEN faults < MaxFaults /\ faults' = faults + 1
                       ELSE UNCHANGED faults
                    /\ Replied(r, "invalid")
                    /\ UNCHANGED <<now, gateway, caUp, caVars, cache>>

\* A status worth a retry, or another one, or a body that is not JSON.
DecideError(r) == /\ req[r].phase = "asking" /\ caUp
                  /\ faults < MaxFaults /\ faults' = faults + 1
                  /\ \E reply \in {"busy", "broken"} : Replied(r, reply)
                  /\ UNCHANGED <<now, gateway, caUp, caVars, cache>>

-----------------------------------------------------------------------------
(* VerifyWithCAPlugin.process and _post_with_retry.                        *)

\* Faulty variant: one attempt too many.
MayRetryOnceMore(r) == req[r].attempt <= Retries

MayRetry(r) == req[r].attempt < Retries

BackOff(r) == Set(r, [req[r] EXCEPT !.phase = "sleeping", !.reply = "none"])

\* Faulty variant: the cache answers before the retries.
CallFailsEarly(r) ==
    /\ req[r].phase \in {"asking", "replied"}
    /\ IF caUp THEN faults < MaxFaults /\ faults' = faults + 1 ELSE UNCHANGED faults
    /\ IF OfflineCache /\ req[r].token \in cache /\ ExpOf[req[r].token] > now
       THEN Admit(r, "cache")
       ELSE IF MayRetry(r) THEN BackOff(r) ELSE Finish(r, "authority_unavailable")
    /\ UNCHANGED <<now, gateway, caUp, caVars, cache>>

\* The call raises: refused, cut, or timed out, whether the authority decided
\* or not.
CallFails(r) ==
    /\ req[r].phase \in {"asking", "replied"}
    /\ IF caUp THEN faults < MaxFaults /\ faults' = faults + 1 ELSE UNCHANGED faults
    /\ IF MayRetry(r) THEN BackOff(r)
       ELSE IF OfflineCache /\ req[r].token \in cache /\ ExpOf[req[r].token] > now
            THEN Admit(r, "cache")
            ELSE Finish(r, "authority_unavailable")
    /\ UNCHANGED <<now, gateway, caUp, caVars, cache>>

\* 429 and 5xx are tried again, but the last of them is an answer.
Busy(r) == /\ req[r].phase = "replied" /\ req[r].reply = "busy"
           /\ IF MayRetry(r) THEN BackOff(r) ELSE Finish(r, "authority_error")
           /\ UNCHANGED <<now, faults, gateway, caUp, caVars, cache>>

\* Faulty variant: an answer that does not parse is passed on without claims.
BrokenPasses(r) == /\ req[r].phase = "replied" /\ req[r].reply = "broken"
                   /\ Set(r, [req[r] EXCEPT !.phase = "forwarding", !.by = "ca"])
                   /\ UNCHANGED <<now, faults, gateway, caUp, caVars, cache>>

Broken(r) == /\ req[r].phase = "replied" /\ req[r].reply = "broken"
             /\ Finish(r, "authority_error")
             /\ UNCHANGED <<now, faults, gateway, caUp, caVars, cache>>

\* Faulty variant: every answer is cached.
InvalidCached(r) == /\ req[r].phase = "replied" /\ req[r].reply = "invalid"
                    /\ Finish(r, "invalid_coupon")
                    /\ cache' = cache \cup {req[r].token}
                    /\ UNCHANGED <<now, faults, gateway, caUp, caVars>>

Invalid(r) == /\ req[r].phase = "replied" /\ req[r].reply = "invalid"
              /\ Finish(r, "invalid_coupon")
              /\ UNCHANGED <<now, faults, gateway, caUp, caVars, cache>>

\* The claims are cached until their exp.
Valid(r) == /\ req[r].phase = "replied" /\ req[r].reply = "valid"
            /\ cache' = IF OfflineCache THEN cache \cup {req[r].token} ELSE cache
            /\ Admit(r, "ca")
            /\ UNCHANGED <<now, faults, gateway, caUp, caVars>>

Retry(r) == /\ req[r].phase = "sleeping"
            /\ Set(r, [req[r] EXCEPT !.phase = "asking", !.attempt = @ + 1,
                                     !.asks = @ + 1])
            /\ UNCHANGED <<now, faults, gateway, caUp, caVars, cache>>

\* proxy_to_upstream
Proxy(r) == /\ req[r].phase = "forwarding"
            /\ \E status \in {"proxied", "upstream_unavailable"} : Finish(r, status)
            /\ UNCHANGED <<now, faults, gateway, caUp, caVars, cache>>

-----------------------------------------------------------------------------
\* Mints and revocations at the authority.
Authority == /\ \E c \in Coupons : CA!Mint(c) \/ CA!Bar(c)
             /\ UNCHANGED <<now, faults, gateway, caUp, cache, req>>

\* Revocations run out, or are lost with their store.
Lapse == /\ faults < MaxFaults /\ faults' = faults + 1
         /\ CA!Lapse /\ barred' # barred
         /\ req' = [r \in Requests |->
                      IF req[r].phase \in {"new", "done"} THEN req[r]
                      ELSE [req[r] EXCEPT !.fresh = @ \/ req[r].token \in minted \ barred']]
         /\ UNCHANGED <<now, gateway, caUp, cache>>

Outage == /\ faults < MaxFaults /\ faults' = faults + 1
          /\ caUp' = ~caUp
          /\ UNCHANGED <<now, gateway, caVars, cache, req>>

Tick == /\ now < MaxNow /\ now' = now + 1
        /\ UNCHANGED <<faults, gateway, caUp, caVars, cache, req>>

Serve(r) == \/ DecideValid(r) \/ DecideInvalid(r) \/ DecideError(r)
            \/ CallFails(r) \/ Busy(r) \/ Broken(r) \/ Invalid(r) \/ Valid(r)
            \/ Retry(r) \/ Proxy(r)

Next == \/ \E r \in Requests, token \in Coupons \cup {Garbage, NoToken}, target \in Targets :
             Arrive(r, token, target)
        \/ \E r \in Requests : Serve(r)
        \/ Load \/ Crash \/ Authority \/ Lapse \/ Outage \/ Tick

Spec == Init /\ [][Next]_vars

-----------------------------------------------------------------------------
TypeOK == /\ now \in Nat /\ faults \in 0 .. MaxFaults /\ caUp \in BOOLEAN
          /\ setting \in Settings /\ up \in BOOLEAN /\ plugins \in {setting, <<>>}
          /\ minted \subseteq Coupons /\ barred \subseteq minted
          /\ cache \subseteq minted
          /\ req \in [Requests -> Req]

Passed(r) == \/ req[r].phase = "forwarding"
             \/ req[r].status \in {"proxied", "upstream_unavailable"}

Named(name) == \E i \in DOMAIN setting : setting[i] = name

\* On a protected path nothing passes but what every plugin of the setting lets
\* pass: unless the offline cache let it, a coupon that was good when the request
\* came or since, with the request it was issued for; not after any mix of
\* retries, lost answers, errors and restarts.  A purpose binding that no
\* verification precedes, or a plugin that does not import, lets nothing pass.
OnlyGoodCouponsPass ==
    \A r \in Requests : Passed(r) /\ req[r].target \notin Open =>
      /\ Named("verify") \/ Named("purpose") =>
           req[r].fresh \/ (OfflineCache /\ req[r].by = "cache")
      /\ Named("purpose") => <<req[r].token, req[r].target>> \in Permits
      /\ \A i \in DOMAIN setting : setting[i] \in {"verify", "purpose"}

\* With it, a coupon that was revoked before the request came passes only from
\* an entry the authority once confirmed, before its exp, and after every
\* attempt of this request failed.
CachePassesLastResort ==
    [][\A r \in Requests :
         req'[r].by = "cache" /\ req[r].by = "none" =>
           /\ \E q \in Requests : req[q].token = req[r].token /\ accepted[q] # {}
           /\ now < ExpOf[req[r].token]
           /\ req[r].asks = Retries + 1]_vars

\* A request is refused for a cause: for want of the authority only after every
\* attempt was made, no fewer and no more; and, while nothing fails, never when
\* its coupon was good all along and fits, if the setting verifies before it
\* binds (_post_with_retry, process).
RefusedForCause ==
    \A r \in Requests : req[r].phase = "done" =>
      /\ req[r].status = "authority_unavailable" => req[r].asks = Retries + 1
      /\ /\ faults = 0 /\ req[r].fresh /\ req[r].token \notin barred
         /\ <<req[r].token, req[r].target>> \in Permits
         /\ setting \in {<<"verify", "purpose">>, <<"verify">>, <<>>}
         => Passed(r)
=============================================================================
