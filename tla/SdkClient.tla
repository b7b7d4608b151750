----------------------------- MODULE SdkClient -----------------------------
(***************************************************************************)
(* The Python SDK (sdk/disc_sdk) and the command line (cli/disc-cli.py): a *)
(* DiscClient that issues, verifies and revokes coupons with retries, a TTL*)
(* cache and offline strategies, and the Coupon Authority as it answers.  A*)
(* call is synchronous; the clock, the authority and the network move      *)
(* between its attempts, and an attempt may take effect although its answer*)
(* is lost.  Each command of the command line is a process of its own, with*)
(* a new client and options of its own over the cache the last one left.   *)
(***************************************************************************)
EXTENDS Naturals, FiniteSets

CONSTANTS Coupons,     \* the tokens the authority may mint
          Forged,      \* other texts a caller may take for a coupon
          NoCoupon,    \* no token
          Ttl,         \* ttl_seconds of the issue requests
          MinTtl,      \* a cache entry lives at least this long (1.0 s)
          KeyTtl,      \* a cached public key lives this long (3600 s)
          MaxRetries,  \* max_retries
          Configs,     \* the options a client may be created with
          Rotates,     \* TRUE when the authority may change its key
          MaxNow,      \* bound: the clock stops there
          MaxFaults,   \* bound: outages, errors, lost answers, rotations,
                       \* errors of the storage
          MaxCalls,    \* bound: calls made
          MaxProcesses \* bound: processes started

ASSUME SdkAssumption ==
    /\ IsFiniteSet(Coupons) /\ Coupons \cap Forged = {}
    /\ NoCoupon \notin Coupons \cup Forged
    /\ {Ttl, MinTtl, KeyTtl, MaxRetries, MaxNow, MaxFaults, MaxCalls} \subseteq Nat
    /\ MaxProcesses \in Nat \ {0}
    /\ Rotates \in BOOLEAN
    /\ Configs \subseteq [cache : BOOLEAN,     \* cache, in a file
                          offline : BOOLEAN,   \* offline
                          strategy : {"cache", "local", "auto", "none"},
                          autoFetch : BOOLEAN] \* auto_fetch_public_key

VARIABLES now, faults, calls, processes,
          opts,        \* the options of the client
          reachable,   \* the authority can be reached
          gen,         \* the authority's key, 1 the first
          keys,        \* how many keys it has had
          minted,      \* the authority's coupons: expiry and key
          revoked,     \* the jtis it lists as revoked
          issueCache,  \* the entry issue:<request>
          verifyCache, \* the entries verify:<token>: until when, 0: none
          keyCache,    \* the entry public_key
          pem,         \* _public_key_pem: a key, 0: none
          call,        \* the call in progress
          approved,    \* history: the tokens the authority answered valid for
          heard,       \* history: when the client last heard that a token is valid
          delivered    \* history: the coupons issue calls returned from it

caVars == <<gen, keys, minted, revoked>>
cacheVars == <<issueCache, verifyCache, keyCache, pem>>
history == <<approved, heard, delivered>>
hostVars == <<processes, opts>>
vars == <<now, faults, calls, hostVars, reachable, caVars, cacheVars, call, history>>

Tokens == Coupons \cup Forged
Coupon == [exp : Nat, gen : Nat]
Unminted == [exp |-> 0, gen |-> 0]
Minted == {c \in Coupons : minted[c] # Unminted}

Ops == {"issue", "verify", "revoke", "key"}
Call == [op : Ops, token : Tokens \cup {NoCoupon}, attempt : Nat,
         phase : {"asking", "replied", "sleeping", "fallback", "cache", "done"},
         reply : {"none", "ok", "invalid", "busy", "refused", "key"},
         key : Nat,             \* the key a reply of /public-key carries
         fetching : BOOLEAN,    \* the key is being fetched for a local check
         result : {"none", "ok", "invalid", "raised"},
         source : {"none", "ca", "cache", "local"},
         mints : SUBSET Coupons] \* history: the coupons minted for this call

NewCall(op, c) ==
    [op |-> op, token |-> c, attempt |-> 0, phase |-> "asking", reply |-> "none",
     key |-> 0, fetching |-> FALSE, result |-> "none", source |-> "none", mints |-> {}]

Larger(a, b) == IF a > b THEN a ELSE b
Left(t) == IF t > now THEN t - now ELSE 0

\* What a token says of itself, and the key that signed it: a forged one is
\* signed by no key of the authority and claims not to expire.
ExpOf(t) == IF t \in Coupons THEN minted[t].exp ELSE MaxNow + 1
SignedBy(t) == IF t \in Coupons THEN minted[t].gen ELSE 0

\* DiscCache.get: an entry that has expired is not returned (and is deleted).
Hit(until) == opts.cache /\ until > now

Return(result, source) ==
    call' = [call EXCEPT !.phase = "done", !.result = result, !.source = source]
-----------------------------------------------------------------------------
Init == /\ now = 1 /\ faults = 0 /\ calls = 0 /\ reachable = TRUE
        /\ processes = 1 /\ opts \in Configs
        /\ gen = 1 /\ keys = 1
        /\ minted = [c \in Coupons |-> Unminted] /\ revoked = {}
        /\ issueCache = [token |-> NoCoupon, until |-> 0]
        /\ verifyCache = [t \in Tokens |-> 0]
        /\ keyCache = [gen |-> 0, until |-> 0]
        /\ pem = 0
        /\ call = [NewCall("key", NoCoupon) EXCEPT !.phase = "done"]
        /\ approved = {} /\ heard = [t \in Tokens |-> 0] /\ delivered = {}

\* The next command: the last one has ended or is killed, the file with the
\* cache stays, and a key, also an old one, may be given on the command line.
NewProcess ==
    /\ processes < MaxProcesses /\ processes' = processes + 1
    /\ opts' \in Configs
    /\ pem' \in 0 .. keys
    /\ call' = [call EXCEPT !.phase = "done"]
    /\ UNCHANGED <<now, faults, calls, reachable, caVars, issueCache, verifyCache,
                   keyCache, history>>

Begin(op, c) ==
    /\ call.phase = "done" /\ calls < MaxCalls
    /\ calls' = calls + 1
    /\ call' = NewCall(op, c)
    /\ UNCHANGED <<now, faults, hostVars, reachable, caVars, cacheVars, history>>

\* get_public_key_pem: the key it has, or the cached one, answers at once.
BeginKey ==
    /\ call.phase = "done" /\ calls < MaxCalls
    /\ calls' = calls + 1
    /\ call' = IF pem # 0 \/ Hit(keyCache.until)
               THEN [NewCall("key", NoCoupon) EXCEPT !.phase = "done", !.result = "ok"]
               ELSE NewCall("key", NoCoupon)
    /\ UNCHANGED <<now, faults, hostVars, reachable, caVars, cacheVars, history>>

\* The storage: it may raise in a write, and DiscCache.get writes when it
\* deletes an entry that has expired.
StorageRaises == opts.cache /\ faults < MaxFaults /\ faults' = faults + 1
KeyExpired == pem = 0 /\ 0 < keyCache.until /\ keyCache.until <= now

BeginKeyRaises ==
    /\ call.phase = "done" /\ calls < MaxCalls
    /\ KeyExpired /\ StorageRaises
    /\ calls' = calls + 1
    /\ call' = [NewCall("key", NoCoupon) EXCEPT !.phase = "done", !.result = "raised"]
    /\ UNCHANGED <<now, hostVars, reachable, caVars, cacheVars, history>>

-----------------------------------------------------------------------------
(* The authority.                                                          *)

Asks(op) == /\ call.phase = "asking" /\ reachable
            /\ op = IF call.fetching THEN "key" ELSE call.op

Replied(reply) == [call EXCEPT !.phase = "replied", !.reply = reply]

\* Which of the tokens is minted next makes no difference.
ServeIssue ==
    /\ Asks("issue") /\ Minted # Coupons
    /\ LET c == CHOOSE c \in Coupons : c \notin Minted IN
       /\ minted' = [minted EXCEPT ![c] = [exp |-> now + Ttl, gen |-> gen]]
       /\ call' = [Replied("ok") EXCEPT !.token = c, !.mints = @ \cup {c}]
    /\ UNCHANGED <<now, faults, calls, hostVars, reachable, gen, keys, revoked, cacheVars, history>>

\* The authority does not look at the expiry.
ServeVerify ==
    /\ Asks("verify")
    /\ LET good == call.token \in Minted \ revoked /\ minted[call.token].gen = gen IN
       /\ call' = Replied(IF good THEN "ok" ELSE "invalid")
       /\ approved' = IF good THEN approved \cup {call.token} ELSE approved
    /\ UNCHANGED <<now, faults, calls, hostVars, reachable, caVars, cacheVars, heard, delivered>>

\* That a jti of no coupon is listed makes no difference.
ServeRevoke ==
    /\ Asks("revoke")
    /\ revoked' = revoked \cup ({call.token} \cap Coupons)
    /\ call' = Replied("ok")
    /\ UNCHANGED <<now, faults, calls, hostVars, reachable, gen, keys, minted, cacheVars, history>>

ServeKey ==
    /\ Asks("key")
    /\ call' = [Replied("key") EXCEPT !.key = gen]
    /\ UNCHANGED <<now, faults, calls, hostVars, reachable, caVars, cacheVars, history>>

\* The rate limit of /issue, which stands for all coupons being minted.
ServeLimited ==
    /\ Asks("issue") /\ Minted = Coupons
    /\ call' = Replied("busy")
    /\ UNCHANGED <<now, faults, calls, hostVars, reachable, caVars, cacheVars, history>>

\* 429 or 5xx, or a refusal such as 403.
ServeError ==
    /\ call.phase = "asking" /\ reachable
    /\ faults < MaxFaults /\ faults' = faults + 1
    /\ \E reply \in {"busy", "refused"} : call' = Replied(reply)
    /\ UNCHANGED <<now, calls, hostVars, reachable, caVars, cacheVars, history>>

-----------------------------------------------------------------------------
(* _request_with_retry.                                                    *)

MayRetry == call.attempt < MaxRetries

\* The request has failed for good: issue and verify fall back, a fetch of the
\* key fails the local check it was for, the others raise.
Failed ==
    IF call.fetching
    THEN IF opts.strategy = "auto" THEN [call EXCEPT !.phase = "cache"]
         ELSE [call EXCEPT !.phase = "done", !.result = "raised"]
    ELSE IF call.op \in {"issue", "verify"}
         THEN [call EXCEPT !.phase = "fallback"]
         ELSE [call EXCEPT !.phase = "done", !.result = "raised"]

BackOff == [call EXCEPT !.phase = "sleeping", !.reply = "none"]

\* Refused, cut or timed out: tried again, but for the errors httpx does not
\* class as one of the four that are.
CallFails ==
    /\ call.phase \in {"asking", "replied"}
    /\ IF reachable THEN faults < MaxFaults /\ faults' = faults + 1
                    ELSE UNCHANGED faults
    /\ \/ MayRetry /\ call' = BackOff
       \/ call' = Failed
    /\ UNCHANGED <<now, calls, hostVars, reachable, caVars, cacheVars, history>>

Busy == /\ call.phase = "replied" /\ call.reply = "busy"
        /\ call' = IF MayRetry THEN BackOff ELSE Failed
        /\ UNCHANGED <<now, faults, calls, hostVars, reachable, caVars, cacheVars, history>>

\* raise_for_status
Refused == /\ call.phase = "replied" /\ call.reply = "refused"
           /\ call' = Failed
           /\ UNCHANGED <<now, faults, calls, hostVars, reachable, caVars, cacheVars, history>>

\* Faulty variant: the attempt is not counted.
RetryUncounted == /\ call.phase = "sleeping"
                  /\ call' = [call EXCEPT !.phase = "asking"]
                  /\ UNCHANGED <<now, faults, calls, hostVars, reachable, caVars, cacheVars, history>>

Retry == /\ call.phase = "sleeping"
         /\ call' = [call EXCEPT !.phase = "asking", !.attempt = @ + 1]
         /\ UNCHANGED <<now, faults, calls, hostVars, reachable, caVars, cacheVars, history>>

-----------------------------------------------------------------------------
(* The answers.                                                            *)

\* Faulty variant: an entry that is there is kept, and answers.
IssuedStale ==
    /\ call.phase = "replied" /\ call.op = "issue" /\ call.reply = "ok"
    /\ LET old == Hit(issueCache.until)
           token == IF old THEN issueCache.token ELSE call.token
       IN /\ issueCache' = IF opts.cache /\ ~old
                           THEN [token |-> token, until |-> now + Larger(Ttl, MinTtl)]
                           ELSE issueCache
          /\ call' = [call EXCEPT !.phase = "done", !.result = "ok", !.source = "ca",
                                  !.token = token]
          /\ delivered' = delivered \cup {token}
    /\ UNCHANGED <<now, faults, calls, hostVars, reachable, caVars, verifyCache, keyCache, pem,
                   approved, heard>>

\* issue_coupon: cached for expires_in seconds from now.
Issued ==
    /\ call.phase = "replied" /\ call.op = "issue" /\ call.reply = "ok"
    /\ issueCache' = IF opts.cache
                     THEN [token |-> call.token, until |-> now + Larger(Ttl, MinTtl)]
                     ELSE issueCache
    /\ Return("ok", "ca")
    /\ delivered' = delivered \cup {call.token}
    /\ UNCHANGED <<now, faults, calls, hostVars, reachable, caVars, verifyCache, keyCache, pem,
                   approved, heard>>

\* The answer cannot be stored: the call goes on as if it had failed.
Unsaved ==
    /\ call.phase = "replied" /\ StorageRaises
    /\ \/ call.op \in {"issue", "verify"} /\ call.reply = "ok" /\ UNCHANGED pem
       \/ call.reply = "key" /\ pem' = call.key
    /\ call' = Failed
    /\ UNCHANGED <<now, calls, hostVars, reachable, caVars, issueCache, verifyCache,
                   keyCache, history>>

\* Faulty variant: the status is not looked at.
VerifiedUnchecked ==
    /\ call.phase = "replied" /\ call.op = "verify" /\ ~call.fetching
    /\ Return(call.reply, "ca")
    /\ UNCHANGED <<now, faults, calls, hostVars, reachable, caVars, cacheVars, history>>

\* verify_coupon: a valid answer is cached until exp, and for MinTtl at least.
Verified ==
    /\ call.phase = "replied" /\ call.op = "verify" /\ call.reply \in {"ok", "invalid"}
    /\ IF call.reply = "ok"
       THEN /\ verifyCache' =
                 IF opts.cache
                 THEN [verifyCache EXCEPT ![call.token] =
                         now + Larger(Left(ExpOf(call.token)), MinTtl)]
                 ELSE verifyCache
            /\ heard' = [heard EXCEPT ![call.token] = now]
       ELSE UNCHANGED <<verifyCache, heard>>
    /\ Return(call.reply, "ca")
    /\ UNCHANGED <<now, faults, calls, hostVars, reachable, caVars, issueCache, keyCache, pem,
                   approved, delivered>>

Revoked ==
    /\ call.phase = "replied" /\ call.op = "revoke" /\ call.reply = "ok"
    /\ Return("ok", "ca")
    /\ UNCHANGED <<now, faults, calls, hostVars, reachable, caVars, cacheVars, history>>

\* get_public_key_pem keeps the key and caches it; a local check goes on.
KeyFetched ==
    /\ call.phase = "replied" /\ call.reply = "key"
    /\ pem' = call.key
    /\ keyCache' = IF opts.cache THEN [gen |-> call.key, until |-> now + KeyTtl]
                   ELSE keyCache
    /\ IF call.fetching
       THEN call' = [call EXCEPT !.phase = "fallback", !.fetching = FALSE]
       ELSE Return("ok", "ca")
    /\ UNCHANGED <<now, faults, calls, hostVars, reachable, caVars, issueCache, verifyCache,
                   history>>

-----------------------------------------------------------------------------
(* The offline fallbacks.                                                  *)

FallsBack(op) == call.phase = "fallback" /\ call.op = op
Same == UNCHANGED <<now, faults, calls, hostVars, reachable, caVars, cacheVars, history>>

\* issue_coupon: the cached coupon of the same request.
IssueFromCache ==
    /\ FallsBack("issue")
    /\ IF opts.offline /\ Hit(issueCache.until)
       THEN call' = [call EXCEPT !.phase = "done", !.result = "ok", !.source = "cache",
                                 !.token = issueCache.token]
       ELSE Return("raised", "none")
    /\ Same

ChecksLocally == FallsBack("verify") /\ opts.offline /\ opts.strategy \in {"local", "auto"}

\* The key _local_verify finds without asking the authority.
LocalKey == IF pem # 0 THEN pem
            ELSE IF opts.autoFetch /\ Hit(keyCache.until) THEN keyCache.gen ELSE 0

\* Faulty variant: the claims are read without their signature.
LocalAcceptsUnsigned == ExpOf(call.token) > now

\* The signature, then the expiry; without a revocation_checker nothing else.
LocalAccepts == SignedBy(call.token) = LocalKey /\ ExpOf(call.token) > now

FetchKey ==
    /\ ChecksLocally /\ LocalKey = 0 /\ opts.autoFetch
    /\ call' = [call EXCEPT !.phase = "asking", !.reply = "none", !.attempt = 0,
                            !.fetching = TRUE]
    /\ Same

VerifyLocally == /\ ChecksLocally /\ LocalKey # 0 /\ LocalAccepts
                 /\ Return("ok", "local")
                 /\ Same

LocalFails == /\ ChecksLocally
              /\ IF LocalKey = 0 THEN ~opts.autoFetch ELSE ~LocalAccepts
              /\ IF opts.strategy = "local" THEN Return("raised", "none")
                 ELSE call' = [call EXCEPT !.phase = "cache"]
              /\ Same

\* The expired key cannot be deleted.
LocalRaises == /\ ChecksLocally /\ KeyExpired /\ opts.autoFetch /\ StorageRaises
               /\ IF opts.strategy = "local" THEN Return("raised", "none")
                  ELSE call' = [call EXCEPT !.phase = "cache"]
               /\ UNCHANGED <<now, calls, hostVars, reachable, caVars, cacheVars, history>>

VerifyFromCache ==
    /\ \/ call.phase = "cache"
       \/ FallsBack("verify") /\ ~ChecksLocally
    /\ IF opts.offline /\ opts.strategy \in {"cache", "auto"} /\ Hit(verifyCache[call.token])
       THEN Return("ok", "cache") ELSE Return("raised", "none")
    /\ Same

-----------------------------------------------------------------------------
Tick == /\ now < MaxNow /\ now' = now + 1
        /\ UNCHANGED <<faults, calls, hostVars, reachable, caVars, cacheVars, call, history>>

Outage == /\ faults < MaxFaults /\ faults' = faults + 1
          /\ reachable' = ~reachable
          /\ UNCHANGED <<now, calls, hostVars, caVars, cacheVars, call, history>>

\* The authority starts again with another key, a new one or one it had before:
\* after a start with a generated key the configured one may load again
\* (core/security.py, docs/key_rotation.md).
Rotate == /\ Rotates /\ faults < MaxFaults /\ faults' = faults + 1
          /\ gen' \in (1 .. keys + 1) \ {gen}
          /\ keys' = Larger(keys, gen')
          /\ UNCHANGED <<now, calls, hostVars, reachable, minted, revoked, cacheVars, call, history>>

\* Revocations run out after their time to live.
Lapse == /\ revoked' \in SUBSET revoked \ {revoked}
         /\ UNCHANGED <<now, faults, calls, hostVars, reachable, gen, keys, minted, cacheVars, call,
                        history>>

Step == \/ ServeIssue \/ ServeVerify \/ ServeRevoke \/ ServeKey \/ ServeError \/ ServeLimited
        \/ CallFails \/ Busy \/ Refused \/ Retry
        \/ Issued \/ Verified \/ Revoked \/ KeyFetched \/ Unsaved
        \/ IssueFromCache \/ FetchKey \/ VerifyLocally \/ LocalFails \/ LocalRaises
        \/ VerifyFromCache

Next == \/ NewProcess \/ Begin("issue", NoCoupon) \/ BeginKey \/ BeginKeyRaises
        \/ \E t \in Minted \cup Forged : Begin("verify", t) \/ Begin("revoke", t)
        \/ Step
        \/ Tick \/ Outage \/ Rotate \/ Lapse

Spec == Init /\ [][Next]_vars

\* The client runs, its HTTP calls end within their timeout.
FairSpec == Spec /\ WF_vars(Step)

-----------------------------------------------------------------------------
TypeOK == /\ opts \in Configs /\ processes \in 1 .. MaxProcesses
          /\ now \in Nat /\ calls \in 0 .. MaxCalls /\ faults \in 0 .. MaxFaults
          /\ keys \in Nat /\ gen \in 1 .. keys /\ pem \in 0 .. keys
          /\ minted \in [Coupons -> Coupon] /\ revoked \subseteq Coupons
          /\ issueCache \in [token : Coupons \cup {NoCoupon}, until : Nat]
          /\ verifyCache \in [Tokens -> Nat] /\ heard \in [Tokens -> Nat]
          /\ keyCache \in [gen : 0 .. keys, until : Nat]
          /\ call \in Call

\* A call of verify_coupon with any text succeeds only for a token the authority
\* answered valid for, and from the cache only before its exp or within MinTtl
\* of the last such answer; or, checked locally, for one that the authority
\* signed and that has not expired.
ValidIsEarned ==
    [][call.op = "verify" /\ call.phase # "done" /\ call'.result = "ok" =>
         \/ call'.source = "ca" /\ call.token \in approved
         \/ /\ call'.source = "cache" /\ call.token \in approved
            /\ now < Larger(ExpOf(call.token), heard[call.token] + MinTtl)
         \/ /\ call'.source = "local" /\ call.token \in Minted
            /\ now < ExpOf(call.token)]_vars

\* An issue that reaches the authority returns a coupon minted for that very
\* call; offline, one that an earlier call returned.  Retries mint no coupon but
\* to replace one that a lost answer, the storage or a kill took from its user
\* (issue_coupon, _request_with_retry).
IssueIsOwn ==
    /\ call.op = "issue" /\ call.result = "ok" =>
         \/ call.source = "ca" /\ call.token \in call.mints
         \/ call.source = "cache" /\ call.token \in delivered \ call.mints
    /\ Cardinality(Minted \ delivered) <=
         faults + processes - 1 + (IF call.phase = "replied" THEN 1 ELSE 0)

\* Every call returns or raises, whatever the network does, also when its
\* fallback has to fetch the key first.
EveryCallReturns == call.phase # "done" ~> call.phase = "done"

=============================================================================
