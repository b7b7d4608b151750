-------------------------- MODULE SdkClientProofs --------------------------
(***************************************************************************)
(* Theorems about SdkClient for any coupons, retries, lifetimes, options   *)
(* and processes.  ValidIsEarned needs to know where the entries of the    *)
(* cache and the answers under way come from.  IssueIsOwn needs an account *)
(* of the coupons that no user got: each cost a fault or a process, but    *)
(* for the one whose answer is under way.                                  *)
(***************************************************************************)
EXTENDS SdkClient, FiniteSetTheorems, TLAPS

\* What TypeOK leaves out.
Typed == /\ call.key <= keys
         /\ call.op \in {"verify", "revoke"} => call.token \in Tokens

\* The key is fetched for a verification, and only that goes on to the cache.
ForVerify ==
    /\ call.phase = "cache" \/ call.fetching => call.op = "verify"
    /\ call.phase = "replied" /\ call.reply = "key" => call.fetching \/ call.op = "key"

Undecided == call.phase # "done" => call.result = "none"

\* What the cache confirms the authority confirmed, and for how long; so did an
\* answer under way.
CacheEarned ==
    \A t \in Tokens :
      /\ heard[t] <= now
      /\ verifyCache[t] > 0 =>
           t \in approved /\ verifyCache[t] <= Larger(ExpOf(t), heard[t] + MinTtl)

Confirmed ==
    /\ approved \subseteq Minted
    /\ CacheEarned
    /\ call.phase = "replied" /\ call.op = "verify" /\ call.reply = "ok" =>
         call.token \in approved

\* Whose the coupons are: a user's, or of the issue call that had them minted.
Owned ==
    /\ delivered \subseteq Minted /\ call.mints \subseteq Minted
    /\ call.op = "issue" /\ call.phase # "done" => call.mints \cap delivered = {}
    /\ call.phase = "replied" /\ call.op = "issue" /\ call.reply = "ok" =>
         call.token \in call.mints
    /\ issueCache.until > 0 => issueCache.token \in delivered

OwnResult ==
    call.op = "issue" /\ call.result = "ok" =>
      \/ call.source = "ca" /\ call.token \in call.mints
      \/ call.source = "cache" /\ call.token \in delivered \ call.mints

\* A coupon is on its way to the user, and the network has not been cut since.
OnItsWay == /\ call.phase = "replied" /\ call.op = "issue" /\ call.reply = "ok"
            /\ reachable

\* Every coupon no user got is accounted for.
Accounted ==
    Cardinality(Minted \ delivered) <=
      faults + processes - 1 + (IF OnItsWay THEN 1 ELSE 0)

IInv == /\ TypeOK /\ Typed /\ ForVerify /\ Undecided /\ Confirmed /\ Owned
        /\ OwnResult /\ Accounted

-----------------------------------------------------------------------------
(* What is done to a call.                                                 *)

Phases == {"asking", "replied", "sleeping", "fallback", "cache", "done"}
Replies == {"none", "ok", "invalid", "busy", "refused", "key"}

\* The same call, further on.
Later(k) == /\ k \in Call /\ k.op = call.op /\ k.token = call.token
            /\ k.mints = call.mints
            /\ k.fetching => call.fetching \/ call.op = "verify"

LEMMA CallTypes ==
    ASSUME NEW k \in Call
    PROVE  /\ k.op \in Ops /\ k.token \in Tokens \cup {NoCoupon} /\ k.attempt \in Nat
           /\ k.phase \in Phases /\ k.reply \in Replies /\ k.key \in Nat
           /\ k.mints \subseteq Coupons
  BY DEF Call, Phases, Replies

LEMMA NewCallIs ==
    ASSUME NEW op \in Ops, NEW c \in Tokens \cup {NoCoupon}
    PROVE  /\ NewCall(op, c) \in Call /\ NewCall(op, c).op = op /\ NewCall(op, c).token = c
           /\ NewCall(op, c).phase = "asking" /\ NewCall(op, c).result = "none"
           /\ NewCall(op, c).mints = {} /\ NewCall(op, c).key = 0
           /\ NewCall(op, c).fetching = FALSE
  BY DEF NewCall, Call

LEMMA RepliedIs ==
    ASSUME call \in Call, NEW reply \in Replies
    PROVE  /\ Later(Replied(reply))
           /\ Replied(reply).phase = "replied" /\ Replied(reply).reply = reply
           /\ Replied(reply).result = call.result /\ Replied(reply).key = call.key
           /\ \A key \in Nat : LET q == [Replied(reply) EXCEPT !.key = key] IN
                /\ Later(q) /\ q.phase = "replied" /\ q.reply = reply
                /\ q.result = call.result /\ q.key = key /\ q.fetching = call.fetching
  BY DEF Replied, Later, Call, Replies

LEMMA BackOffIs ==
    ASSUME call \in Call
    PROVE  /\ Later(BackOff) /\ BackOff.phase = "sleeping"
           /\ BackOff.result = call.result /\ BackOff.key = call.key
  BY DEF BackOff, Later, Call

LEMMA ReturnIs ==
    ASSUME call \in Call, NEW result \in {"ok", "invalid", "raised"},
           NEW source \in {"none", "ca", "cache", "local"}, Return(result, source)
    PROVE  /\ Later(call') /\ call'.phase = "done" /\ call'.result = result
           /\ call'.source = source /\ call'.key = call.key
<1> DEFINE q == [call EXCEPT !.phase = "done", !.result = result, !.source = source]
<1>1. /\ Later(q) /\ q.phase = "done" /\ q.result = result
      /\ q.source = source /\ q.key = call.key
  BY DEF Later, Call
<1> QED  BY <1>1 DEF Return

LEMMA FailedIs ==
    ASSUME call \in Call
    PROVE  /\ Later(Failed) /\ Failed.phase \in {"done", "cache", "fallback"}
           /\ Failed.phase = "done" => Failed.result = "raised"
           /\ Failed.phase = "cache" => call.fetching
           /\ Failed.phase # "done" => Failed.result = call.result
           /\ Failed.key = call.key
<1> DEFINE a == [call EXCEPT !.phase = "cache"]
           b == [call EXCEPT !.phase = "done", !.result = "raised"]
           c == [call EXCEPT !.phase = "fallback"]
<1>1. Later(a) /\ a.phase = "cache" /\ a.result = call.result /\ a.key = call.key
  BY DEF Later, Call
<1>2. Later(b) /\ b.phase = "done" /\ b.result = "raised" /\ b.key = call.key
  BY DEF Later, Call
<1>3. Later(c) /\ c.phase = "fallback" /\ c.result = call.result /\ c.key = call.key
  BY DEF Later, Call
<1>4. Failed \in {a, b, c} /\ (Failed # b /\ Failed # c => call.fetching)
  BY DEF Failed
<1> HIDE DEF a, b, c
<1> QED  BY <1>1, <1>2, <1>3, <1>4

\* The other moves of a call.
LEMMA MovesAre ==
    ASSUME call \in Call
    PROVE  /\ LET q == [call EXCEPT !.phase = "asking", !.attempt = @ + 1] IN
              Later(q) /\ q.phase = "asking" /\ q.result = call.result /\ q.key = call.key
           /\ LET q == [call EXCEPT !.phase = "fallback", !.fetching = FALSE] IN
              Later(q) /\ q.phase = "fallback" /\ q.result = call.result /\ q.key = call.key
           /\ LET q == [call EXCEPT !.phase = "asking", !.reply = "none", !.attempt = 0,
                                    !.fetching = TRUE] IN
              call.op = "verify" => Later(q) /\ q.phase = "asking" /\ q.result = call.result /\ q.key = call.key
           /\ LET q == [call EXCEPT !.phase = "cache"] IN
              Later(q) /\ q.phase = "cache" /\ q.result = call.result /\ q.key = call.key
           /\ LET q == [call EXCEPT !.phase = "done"] IN
              /\ Later(q) /\ q.phase = "done" /\ q.result = call.result /\ q.key = call.key
              /\ q.source = call.source
<1>1. call.attempt + 1 \in Nat
  BY CallTypes
<1> DEFINE n == call.attempt + 1
           q == [call EXCEPT !.phase = "asking", !.attempt = n]
<1> HIDE DEF n
<1>2. Later(q) /\ q.phase = "asking" /\ q.result = call.result /\ q.key = call.key
  BY <1>1 DEF n, Later, Call
<1>3. /\ LET k == [call EXCEPT !.phase = "fallback", !.fetching = FALSE] IN
         Later(k) /\ k.phase = "fallback" /\ k.result = call.result /\ k.key = call.key
      /\ LET k == [call EXCEPT !.phase = "asking", !.reply = "none", !.attempt = 0,
                               !.fetching = TRUE] IN
         call.op = "verify" => Later(k) /\ k.phase = "asking" /\ k.result = call.result /\ k.key = call.key
  BY DEF Later, Call
<1>4. /\ LET k == [call EXCEPT !.phase = "cache"] IN
         Later(k) /\ k.phase = "cache" /\ k.result = call.result /\ k.key = call.key
      /\ LET k == [call EXCEPT !.phase = "done"] IN
         /\ Later(k) /\ k.phase = "done" /\ k.result = call.result /\ k.key = call.key
         /\ k.source = call.source
  BY DEF Later, Call
<1> QED  BY <1>2, <1>3, <1>4 DEF n

-----------------------------------------------------------------------------
\* The counters and the options of a step that starts no process.
LEMMA Natural ==
    ASSUME TypeOK
    PROVE  /\ now \in Nat /\ faults \in Nat /\ processes \in Nat /\ processes >= 1
           /\ {Ttl, MinTtl, KeyTtl} \subseteq Nat
           /\ keys \in Nat /\ gen \in Nat /\ gen # 0 /\ gen <= keys
           /\ opts.cache \in BOOLEAN
<1>1. opts.cache \in BOOLEAN
  BY SdkAssumption DEF TypeOK
<1> QED  BY <1>1, SdkAssumption DEF TypeOK

LEMMA Finite ==
    ASSUME NEW S, S \subseteq Coupons
    PROVE  IsFiniteSet(S) /\ Cardinality(S) \in Nat
  BY SdkAssumption, FS_Subset, FS_CardinalityType

\* What the cache confirms stays confirmed.
LEMMA StaysEarned ==
    ASSUME IInv, UNCHANGED <<now, minted, verifyCache, heard>>, approved \subseteq approved'
    PROVE  CacheEarned'
  BY DEF IInv, Confirmed, CacheEarned, ExpOf

\* A step in which a call in progress moves on: it mints and delivers nothing,
\* and if it takes away a coupon that was on its way it costs a fault.
LEMMA CallMoves ==
    ASSUME IInv, UNCHANGED <<minted, delivered, issueCache, processes, reachable, keys>>,
           faults' \in Nat, faults' >= faults,
           approved \subseteq approved', approved' \subseteq Minted, CacheEarned',
           Later(call'), call'.key <= keys, call.phase # "done",
           call'.phase = "cache" => call.op = "verify",
           call'.phase = "replied" /\ call'.reply = "key" => call'.fetching \/ call.op = "key",
           call'.phase # "done" => call'.result = call.result,
           call'.phase = "replied" /\ call'.reply = "ok" =>
             call.op # "issue" /\ (call.op = "verify" => call.token \in approved'),
           call'.result = "ok" => call.op # "issue",
           OnItsWay => faults' > faults
    PROVE  /\ Typed' /\ ForVerify' /\ Undecided' /\ Confirmed' /\ Owned'
           /\ OwnResult' /\ Accounted'
<1>1. /\ call'.op = call.op /\ call'.token = call.token /\ call'.mints = call.mints
      /\ Minted' = Minted
  BY DEF Later, Minted
<1>2. Typed'
  BY <1>1 DEF IInv, Typed
<1>3. Undecided' /\ ForVerify'
  BY <1>1 DEF Later, IInv, Undecided, ForVerify
<1>4. Confirmed'
  BY <1>1 DEF IInv, Confirmed
<1>5. Owned'
  BY <1>1 DEF IInv, Owned
<1>6. OwnResult'
  BY <1>1 DEF OwnResult
<1>7. Accounted'
  <2>1. ~OnItsWay'
    BY <1>1 DEF OnItsWay
  <2>2. Minted \ delivered \subseteq Coupons
    BY DEF Minted
  <2>3. Cardinality(Minted \ delivered) \in Nat /\ faults \in Nat /\ processes \in Nat
    BY <2>2, Finite, Natural DEF IInv
  <2>4. Cardinality(Minted \ delivered) <= faults + processes - 1 + (IF OnItsWay THEN 1 ELSE 0)
    BY DEF IInv, Accounted
  <2> QED  BY <1>1, <2>1, <2>3, <2>4 DEF Accounted
<1> QED  BY <1>2, <1>3, <1>4, <1>5, <1>6, <1>7

\* A step that leaves the call and the coupons alone.
LEMMA AroundTheCall ==
    ASSUME IInv, UNCHANGED <<call, minted, delivered, approved, heard, issueCache, verifyCache,
                             processes>>,
           keys' \in Nat, keys' >= keys, now' \in Nat, now' >= now,
           faults' \in Nat, faults' >= faults,
           reachable' = reachable \/ faults' > faults
    PROVE  /\ Typed' /\ ForVerify' /\ Undecided' /\ Confirmed' /\ Owned'
           /\ OwnResult' /\ Accounted'
<1>1. Minted' = Minted
  BY DEF Minted
<1>2. Typed'
  <2>1. call.key \in Nat /\ keys \in Nat /\ call.key <= keys
    BY CallTypes DEF IInv, TypeOK, Typed
  <2>2. call.key <= keys'
    BY <2>1
  <2> QED  BY <2>2 DEF IInv, Typed
<1>3. ForVerify' /\ Undecided' /\ Confirmed' /\ Owned' /\ OwnResult'
  <2>1. now \in Nat /\ \A t \in Tokens : heard[t] \in Nat
    BY DEF IInv, TypeOK
  <2>2. \A t \in Tokens : heard[t] <= now => heard[t] <= now'
    BY <2>1
  <2>3. CacheEarned'
    BY <2>2 DEF IInv, Confirmed, CacheEarned, ExpOf
  <2> QED  BY <1>1, <2>3 DEF IInv, ForVerify, Undecided, Confirmed, Owned, OwnResult
<1>4. Accounted'
  <2>1. Minted \ delivered \subseteq Coupons
    BY DEF Minted
  <2>2. Cardinality(Minted \ delivered) \in Nat /\ faults \in Nat /\ processes \in Nat
    BY <2>1, Finite, Natural DEF IInv
  <2>3. Cardinality(Minted \ delivered) <= faults + processes - 1 + (IF OnItsWay THEN 1 ELSE 0)
    BY DEF IInv, Accounted
  <2>4. reachable' = reachable => OnItsWay' = OnItsWay
    BY DEF OnItsWay
  <2> QED  BY <1>1, <2>2, <2>3, <2>4 DEF Accounted
<1> QED  BY <1>2, <1>3, <1>4

\* A call that begins, or the last one that ended: nothing is on its way.
LEMMA CallBegins ==
    ASSUME IInv, UNCHANGED <<now, minted, delivered, approved, heard, issueCache, verifyCache,
                             reachable, keys, faults>>,
           processes' \in Nat, processes' >= processes,
           OnItsWay => processes' > processes,
           call' \in Call, call'.phase # "replied", call'.key <= keys,
           call'.phase # "done" => call'.result = "none" /\ call'.mints = {},
           call'.op \in {"verify", "revoke"} => call'.token \in Tokens,
           call'.mints \subseteq Minted, ForVerify',
           OwnResult'
    PROVE  Typed' /\ ForVerify' /\ Undecided' /\ Confirmed' /\ Owned' /\ Accounted'
<1>1. Minted' = Minted
  BY DEF Minted
<1>2. Typed' /\ Undecided' /\ Confirmed'
  BY <1>1 DEF IInv, Typed, Undecided, Confirmed, CacheEarned, ExpOf
<1>3. Owned'
  BY <1>1 DEF IInv, Owned
<1>4. Accounted'
  <2>1. Minted \ delivered \subseteq Coupons
    BY DEF Minted
  <2>2. Cardinality(Minted \ delivered) \in Nat /\ faults \in Nat /\ processes \in Nat
    BY <2>1, Finite, Natural DEF IInv
  <2>3. Cardinality(Minted \ delivered) <= faults + processes - 1 + (IF OnItsWay THEN 1 ELSE 0)
    BY DEF IInv, Accounted
  <2>4. ~OnItsWay'
    BY DEF OnItsWay
  <2> QED  BY <1>1, <2>2, <2>3, <2>4 DEF Accounted
<1> QED  BY <1>2, <1>3, <1>4

-----------------------------------------------------------------------------
\* The next command keeps the result of the last call, and its coupon if it was
\* on its way is lost with the process.
LEMMA NewProcessKeeps ==
    ASSUME IInv, NewProcess
    PROVE  IInv'
<1>1. /\ call' = [call EXCEPT !.phase = "done"] /\ processes' = processes + 1
      /\ processes < MaxProcesses /\ opts' \in Configs /\ pem' \in 0 .. keys
      /\ UNCHANGED <<now, faults, calls, reachable, gen, keys, minted, revoked, issueCache,
                     verifyCache, keyCache, approved, heard, delivered>>
  BY DEF NewProcess, caVars, history
<1>2. /\ Later(call') /\ call'.phase = "done" /\ call'.result = call.result
      /\ call'.source = call.source /\ call'.key = call.key
  BY <1>1, MovesAre DEF IInv, TypeOK
<1>3. OwnResult' /\ ForVerify'
  BY <1>1, <1>2 DEF Later, IInv, ForVerify, OwnResult, Minted
<1>4. processes \in 1 .. MaxProcesses /\ MaxProcesses \in Nat
  BY SdkAssumption DEF IInv, TypeOK
<1>5. TypeOK'
  <2>1. processes' \in 1 .. MaxProcesses /\ pem' \in 0 .. keys
    BY <1>1, <1>4
  <2> QED  BY <1>1, <1>2, <2>1 DEF Later, IInv, TypeOK
<1>6. Typed' /\ ForVerify' /\ Undecided' /\ Confirmed' /\ Owned' /\ Accounted'
  <2>1. processes' \in Nat /\ processes' > processes /\ processes' >= processes
    BY <1>1, <1>4
  <2> QED  BY <1>1, <1>2, <1>3, <2>1, CallBegins DEF Later, IInv, Typed, Owned
<1> QED  BY <1>3, <1>5, <1>6 DEF IInv

\* A call begins when the last has ended.
LEMMA BeginKeeps ==
    ASSUME IInv, NEW op \in Ops, NEW c \in Tokens \cup {NoCoupon},
           op \in {"verify", "revoke"} => c \in Tokens,
           call.phase = "done", calls < MaxCalls, calls' = calls + 1,
           \/ call' = NewCall(op, c)
           \/ \E result \in {"ok", "raised"} :
                op = "key" /\ call' = [NewCall(op, c) EXCEPT !.phase = "done",
                                                             !.result = result],
           UNCHANGED <<now, hostVars, reachable, caVars, cacheVars, history>>,
           faults' \in 0 .. MaxFaults, faults' >= faults
    PROVE  IInv'
<1>1. UNCHANGED <<now, processes, opts, reachable, gen, keys, minted, revoked, issueCache,
                  verifyCache, keyCache, pem, approved, heard, delivered>>
  BY DEF hostVars, caVars, cacheVars, history
<1>2. /\ call' \in Call /\ call'.op = op /\ call'.token = c /\ call'.mints = {}
      /\ call'.key = 0 /\ ~call'.fetching /\ call'.phase \in {"asking", "done"}
      /\ call'.phase # "done" => call'.result = "none"
      /\ op # "key" => call'.result = "none"
  <2>1. CASE call' = NewCall(op, c)
    BY <2>1, NewCallIs
  <2>2. ASSUME NEW result \in {"ok", "raised"}, op = "key",
               call' = [NewCall(op, c) EXCEPT !.phase = "done", !.result = result]
        PROVE  /\ call' \in Call /\ call'.op = op /\ call'.token = c /\ call'.mints = {}
               /\ call'.key = 0 /\ ~call'.fetching /\ call'.phase = "done"
    BY <2>2 DEF NewCall, Call
  <2> QED  BY <2>1, <2>2
<1>3. TypeOK'
  <2>1. calls' \in 0 .. MaxCalls
    BY SdkAssumption DEF IInv, TypeOK
  <2> QED  BY <1>1, <1>2, <2>1 DEF IInv, TypeOK
<1>4. OwnResult'
  BY <1>2 DEF OwnResult
<1>5. Typed' /\ ForVerify' /\ Undecided' /\ Confirmed' /\ Owned'
  <2>1. Minted' = Minted /\ keys \in Nat
    BY <1>1 DEF Minted, IInv, TypeOK
  <2> QED  BY <1>1, <1>2, <2>1 DEF IInv, Typed, ForVerify, Undecided, Confirmed,
           CacheEarned, ExpOf, Owned
<1>6. Accounted'
  <2>1. Minted \ delivered \subseteq Coupons /\ Minted' = Minted
    BY <1>1 DEF Minted
  <2>2. /\ Cardinality(Minted \ delivered) \in Nat /\ faults \in Nat /\ processes \in Nat
        /\ faults' \in Nat
    BY <2>1, Finite, Natural, SdkAssumption DEF IInv
  <2>3. Cardinality(Minted \ delivered) <= faults + processes - 1 + (IF OnItsWay THEN 1 ELSE 0)
    BY DEF IInv, Accounted
  <2>4. ~OnItsWay' /\ ~OnItsWay
    BY <1>2 DEF OnItsWay
  <2> QED  BY <1>1, <2>1, <2>2, <2>3, <2>4 DEF Accounted
<1> QED  BY <1>3, <1>4, <1>5, <1>6 DEF IInv

LEMMA BeginStepKeeps ==
    ASSUME IInv,
           \/ Begin("issue", NoCoupon) \/ BeginKey \/ BeginKeyRaises
           \/ \E t \in Minted \cup Forged : Begin("verify", t) \/ Begin("revoke", t)
    PROVE  IInv'
<1>0. /\ faults \in 0 .. MaxFaults /\ faults \in Nat /\ MaxFaults \in Nat
      /\ faults' = faults => faults' \in 0 .. MaxFaults /\ faults' >= faults
  BY SdkAssumption DEF IInv, TypeOK
<1>1. CASE Begin("issue", NoCoupon)
  <2>1. /\ call' = NewCall("issue", NoCoupon) /\ faults' = faults
        /\ call.phase = "done" /\ calls < MaxCalls /\ calls' = calls + 1
        /\ UNCHANGED <<now, hostVars, reachable, caVars, cacheVars, history>>
    BY <1>1 DEF Begin
  <2>2. faults' \in 0 .. MaxFaults /\ faults' >= faults
    BY <1>0, <2>1
  <2> QED  BY <2>1, <2>2, BeginKeeps DEF Ops
<1>2. CASE BeginKey
  <2>1. \/ call' = NewCall("key", NoCoupon)
        \/ call' = [NewCall("key", NoCoupon) EXCEPT !.phase = "done", !.result = "ok"]
    BY <1>2 DEF BeginKey
  <2>2. faults' \in 0 .. MaxFaults /\ faults' >= faults
    BY <1>0, <1>2 DEF BeginKey
  <2> QED  BY <1>2, <2>1, <2>2, BeginKeeps DEF BeginKey, Ops
<1>3. CASE BeginKeyRaises
  <2>1. call' = [NewCall("key", NoCoupon) EXCEPT !.phase = "done", !.result = "raised"]
    BY <1>3 DEF BeginKeyRaises
  <2>2. faults' \in 0 .. MaxFaults /\ faults' >= faults
    BY <1>0, <1>3 DEF BeginKeyRaises, StorageRaises
  <2> QED  BY <1>3, <2>1, <2>2, BeginKeeps DEF BeginKeyRaises, Ops
<1>4. ASSUME NEW t \in Minted \cup Forged, Begin("verify", t) \/ Begin("revoke", t)
      PROVE  IInv'
  <2>1. t \in Tokens
    BY DEF Minted, Tokens
  <2>2. faults' \in 0 .. MaxFaults /\ faults' >= faults
    BY <1>0, <1>4 DEF Begin
  <2> QED  BY <1>4, <2>1, <2>2, BeginKeeps DEF Begin, Ops
<1> QED  BY <1>1, <1>2, <1>3, <1>4

-----------------------------------------------------------------------------
\* A move of the call that leaves all else alone.
LEMMA MoveKeeps ==
    ASSUME IInv,
           UNCHANGED <<now, calls, hostVars, reachable, caVars, cacheVars, history>>,
           faults' \in 0 .. MaxFaults, faults' >= faults,
           Later(call'), call'.key <= keys, call.phase # "done",
           call'.phase = "cache" => call.op = "verify",
           call'.phase = "replied" /\ call'.reply = "key" => call'.fetching \/ call.op = "key",
           call'.phase # "done" => call'.result = call.result,
           ~(call'.phase = "replied" /\ call'.reply = "ok"),
           call'.result = "ok" => call.op # "issue",
           OnItsWay => faults' > faults
    PROVE  IInv'
<1>1. UNCHANGED <<processes, opts, gen, keys, minted, revoked, issueCache, verifyCache, keyCache,
                  pem, approved, heard, delivered>>
  BY DEF hostVars, caVars, cacheVars, history
<1>2. faults' \in Nat
  BY SdkAssumption
<1>3. TypeOK'
  BY <1>1 DEF Later, IInv, TypeOK
<1>4. /\ Typed' /\ ForVerify' /\ Undecided' /\ Confirmed' /\ Owned'
      /\ OwnResult' /\ Accounted'
  <2>1. approved' \subseteq Minted /\ CacheEarned'
    BY <1>1, StaysEarned DEF IInv, Confirmed
  <2> QED  BY <1>1, <1>2, <2>1, CallMoves
<1> QED  BY <1>3, <1>4 DEF IInv

\* What the invariant says of a call in progress.
LEMMA InProgress ==
    ASSUME IInv, call.phase # "done"
    PROVE  /\ call \in Call /\ call.result = "none" /\ call.key \in Nat /\ call.key <= keys
           /\ gen \in Nat /\ gen <= keys
           /\ faults \in 0 .. MaxFaults /\ faults >= faults
           /\ faults < MaxFaults => faults + 1 \in 0 .. MaxFaults /\ faults + 1 > faults
                                    /\ faults + 1 >= faults
<1>1. call \in Call /\ call.result = "none" /\ call.key <= keys
      /\ gen \in Nat /\ gen <= keys /\ faults \in 0 .. MaxFaults
  BY DEF IInv, TypeOK, Undecided, Typed
<1>2. MaxFaults \in Nat
  BY SdkAssumption
<1> QED  BY <1>1, <1>2, CallTypes

LEMMA AnswersKeep ==
    ASSUME IInv, ServeKey \/ ServeLimited \/ ServeError
    PROVE  IInv'
<1>0. call.phase = "asking" /\ ~OnItsWay
  BY DEF ServeKey, ServeLimited, ServeError, Asks, OnItsWay
<1>1. CASE ServeKey
  <2>1. call' = [Replied("key") EXCEPT !.key = gen]
    BY <1>1 DEF ServeKey
  <2>2. Later(call') /\ call'.phase = "replied" /\ call'.reply = "key" /\ call'.result = call.result
        /\ call'.key = gen /\ call'.fetching = call.fetching
    BY <1>0, <2>1, InProgress, RepliedIs DEF Replies
  <2>3. call.fetching \/ call.op = "key"
    BY <1>1 DEF ServeKey, Asks
  <2> QED  BY <1>0, <1>1, <2>2, <2>3, InProgress, MoveKeeps DEF ServeKey
<1>2. CASE ServeLimited
  <2>1. Later(call') /\ call'.phase = "replied" /\ call'.reply = "busy"
        /\ call'.result = call.result /\ call'.key = call.key
    BY <1>0, <1>2, InProgress, RepliedIs DEF ServeLimited, Replies
  <2> QED  BY <1>0, <1>2, <2>1, InProgress, MoveKeeps DEF ServeLimited
<1>3. CASE ServeError
  <2>1. Later(call') /\ call'.phase = "replied" /\ call'.reply \in {"busy", "refused"}
        /\ call'.result = call.result /\ call'.key = call.key
    BY <1>0, <1>3, InProgress, RepliedIs DEF ServeError, Replies
  <2> QED  BY <1>0, <1>3, <2>1, InProgress, MoveKeeps DEF ServeError
<1> QED  BY <1>1, <1>2, <1>3

\* The loop of _request_with_retry.
LEMMA RetriesKeep ==
    ASSUME IInv, CallFails \/ Busy \/ Refused \/ Retry
    PROVE  IInv'
<1>0. call.phase # "done"
  BY DEF CallFails, Busy, Refused, Retry
<1>1. ASSUME call' = BackOff \/ call' = Failed
      PROVE  /\ Later(call') /\ call'.phase # "replied" /\ call'.key = call.key
             /\ call'.phase # "done" => call'.result = call.result
             /\ call'.result # "ok"
             /\ call'.phase = "cache" => call.op = "verify"
  <2>1. CASE call' = BackOff
    BY <1>0, <2>1, InProgress, BackOffIs
  <2>2. CASE call' = Failed
    BY <1>0, <2>2, InProgress, FailedIs DEF IInv, ForVerify
  <2> QED  BY <1>1, <2>1, <2>2
<1>2. CASE CallFails
  <2>1. call' = BackOff \/ call' = Failed
    BY <1>2 DEF CallFails
  <2>2. faults' \in 0 .. MaxFaults /\ faults' >= faults /\ (OnItsWay => faults' > faults)
    BY <1>0, <1>2, InProgress DEF CallFails, OnItsWay
  <2> QED  BY <1>0, <1>1, <1>2, <2>1, <2>2, InProgress, MoveKeeps DEF CallFails
<1>3. CASE Busy \/ Refused
  <2>1. call' = BackOff \/ call' = Failed
    BY <1>3 DEF Busy, Refused
  <2>2. faults' = faults /\ ~OnItsWay
        /\ UNCHANGED <<now, calls, hostVars, reachable, caVars, cacheVars, history>>
    BY <1>3 DEF Busy, Refused, OnItsWay
  <2> QED  BY <1>0, <1>1, <2>1, <2>2, InProgress, MoveKeeps
<1>4. CASE Retry
  <2>1. call' = [call EXCEPT !.phase = "asking", !.attempt = @ + 1] /\ ~OnItsWay
    BY <1>4 DEF Retry, OnItsWay
  <2>2. Later(call') /\ call'.phase = "asking" /\ call'.result = call.result /\ call'.key = call.key
    BY <1>0, <2>1, InProgress, MovesAre
  <2> QED  BY <1>0, <1>4, <2>1, <2>2, InProgress, MoveKeeps DEF Retry
<1> QED  BY <1>2, <1>3, <1>4

\* The fallbacks of verify.
LEMMA FallbacksKeep ==
    ASSUME IInv, FetchKey \/ VerifyLocally \/ LocalFails \/ LocalRaises \/ VerifyFromCache
    PROVE  IInv'
<1>0. call.phase \in {"fallback", "cache"} /\ ~OnItsWay
  BY DEF FetchKey, VerifyLocally, LocalFails, LocalRaises, VerifyFromCache, ChecksLocally,
     FallsBack, OnItsWay
<1>1. call.phase # "done" /\ call \in Call
  BY <1>0, InProgress
<1>2. CASE FetchKey
  <2>1. call' = [call EXCEPT !.phase = "asking", !.reply = "none", !.attempt = 0,
                             !.fetching = TRUE] /\ call.op = "verify"
    BY <1>2 DEF FetchKey, ChecksLocally, FallsBack
  <2>2. Later(call') /\ call'.phase = "asking" /\ call'.result = call.result /\ call'.key = call.key
    BY <1>1, <2>1, MovesAre
  <2> QED  BY <1>0, <1>1, <1>2, <2>2, InProgress, MoveKeeps DEF FetchKey, Same
<1>3. CASE VerifyLocally
  <2>1. Return("ok", "local") /\ call.op = "verify"
    BY <1>3 DEF VerifyLocally, ChecksLocally, FallsBack
  <2>2. /\ Later(call') /\ call'.phase = "done" /\ call'.result = "ok"
        /\ call'.source = "local" /\ call'.key = call.key
    BY <1>1, <2>1, ReturnIs
  <2> QED  BY <1>0, <1>1, <1>3, <2>1, <2>2, InProgress, MoveKeeps DEF VerifyLocally, Same
<1>4. CASE LocalFails \/ LocalRaises
  <2>1. Return("raised", "none") \/ call' = [call EXCEPT !.phase = "cache"]
    BY <1>4 DEF LocalFails, LocalRaises
  <2>2. /\ Later(call') /\ call'.phase \in {"done", "cache"} /\ call'.key = call.key
        /\ call'.phase # "done" => call'.result = call.result
        /\ call'.result # "ok"
    <3>1. CASE Return("raised", "none")
      BY <1>1, <3>1, ReturnIs
    <3>2. CASE call' = [call EXCEPT !.phase = "cache"]
      BY <1>1, <3>2, MovesAre, InProgress
    <3> QED  BY <2>1, <3>1, <3>2
  <2>3. /\ faults' \in 0 .. MaxFaults /\ faults' >= faults
        /\ UNCHANGED <<now, calls, hostVars, reachable, caVars, cacheVars, history>>
        /\ call.op = "verify"
    BY <1>1, <1>4, InProgress DEF LocalFails, LocalRaises, StorageRaises, Same,
       ChecksLocally, FallsBack
  <2> QED  BY <1>0, <1>1, <2>2, <2>3, InProgress, MoveKeeps
<1>5. CASE VerifyFromCache
  <2>1. \/ Return("raised", "none")
        \/ Return("ok", "cache") /\ Hit(verifyCache[call.token])
    BY <1>5 DEF VerifyFromCache
  <2>2. CASE Return("raised", "none")
    <3>1. /\ Later(call') /\ call'.phase = "done" /\ call'.result = "raised"
          /\ call'.key = call.key
      BY <1>1, <2>2, ReturnIs
    <3> QED  BY <1>0, <1>1, <1>5, <3>1, InProgress, MoveKeeps DEF VerifyFromCache, Same
  <2>3. CASE Return("ok", "cache") /\ Hit(verifyCache[call.token])
    <3>1. /\ Later(call') /\ call'.phase = "done" /\ call'.result = "ok"
          /\ call'.source = "cache" /\ call'.key = call.key
      BY <1>1, <2>3, ReturnIs
    <3>2. call.op # "issue"
      BY <1>5 DEF VerifyFromCache, FallsBack, IInv, ForVerify
    <3> QED  BY <1>0, <1>1, <1>5, <3>1, <3>2, InProgress, MoveKeeps
             DEF VerifyFromCache, Same
  <2> QED  BY <2>1, <2>2, <2>3
<1> QED  BY <1>2, <1>3, <1>4, <1>5

-----------------------------------------------------------------------------
\* The authority confirms, bars, or mints a coupon no one has.
LEMMA ServeVerifyKeeps ==
    ASSUME IInv, ServeVerify
    PROVE  IInv'
<1> DEFINE good == call.token \in Minted \ revoked /\ minted[call.token].gen = gen
           reply == IF good THEN "ok" ELSE "invalid"
<1>1. /\ call.phase = "asking" /\ call.op \in {"verify", "key"}
      /\ call' = Replied(reply)
      /\ approved' = IF good THEN approved \cup {call.token} ELSE approved
      /\ UNCHANGED <<now, faults, calls, processes, opts, reachable, gen, keys, minted, revoked,
                     issueCache, verifyCache, keyCache, pem, heard, delivered>>
  BY DEF ServeVerify, Asks, hostVars, caVars, cacheVars
<1>2. /\ reply \in Replies /\ reply # "key"
      /\ (reply = "ok" => call.token \in approved') /\ approved \subseteq approved'
      /\ approved' \subseteq Minted
  BY <1>1 DEF Replies, IInv, Confirmed
<1> HIDE DEF reply
<1>3. /\ Later(call') /\ call'.phase = "replied" /\ call'.reply = reply
      /\ call'.result = call.result /\ call'.key = call.key
  BY <1>1, <1>2, InProgress, RepliedIs
<1>4. TypeOK'
  BY <1>1, <1>3 DEF Later, IInv, TypeOK
<1>5. faults \in Nat /\ ~OnItsWay /\ call.op # "issue" /\ call.result = "none" /\ call.key <= keys
  BY <1>1, Natural, InProgress DEF IInv, OnItsWay
<1>6. faults' \in Nat /\ faults' >= faults
  BY <1>1, <1>5
<1>7. CacheEarned'
  BY <1>1, <1>2, StaysEarned
<1> QED  BY <1>1, <1>2, <1>3, <1>4, <1>5, <1>6, <1>7, CallMoves DEF IInv

LEMMA ServeRevokeKeeps ==
    ASSUME IInv, ServeRevoke
    PROVE  IInv'
<1>1. /\ call.phase = "asking" /\ call.op = "revoke"
      /\ call' = Replied("ok") /\ revoked' = revoked \cup ({call.token} \cap Coupons)
      /\ UNCHANGED <<now, faults, calls, processes, opts, reachable, gen, keys, minted,
                     issueCache, verifyCache, keyCache, pem, approved, heard, delivered>>
  BY DEF ServeRevoke, Asks, hostVars, cacheVars, history
<1>2. /\ Later(call') /\ call'.phase = "replied" /\ call'.reply = "ok"
      /\ call'.result = call.result /\ call'.key = call.key
  BY <1>1, InProgress, RepliedIs DEF Replies
<1>3. revoked' \subseteq Coupons
  BY <1>1 DEF IInv, TypeOK
<1>4. TypeOK'
  BY <1>1, <1>2, <1>3 DEF Later, IInv, TypeOK
<1>5. faults \in Nat /\ ~OnItsWay /\ call.result = "none" /\ call.key <= keys
  BY <1>1, Natural, InProgress DEF IInv, OnItsWay
<1>6. faults' \in Nat /\ faults' >= faults
  BY <1>1, <1>5
<1>7. CacheEarned' /\ approved' \subseteq Minted
  BY <1>1, StaysEarned DEF IInv, Confirmed
<1> QED  BY <1>1, <1>2, <1>4, <1>5, <1>6, <1>7, CallMoves DEF IInv

\* A coupon minted for this call: no one has it, and it is on its way.
LEMMA ServeIssueKeeps ==
    ASSUME IInv, ServeIssue
    PROVE  IInv'
<1> DEFINE c == CHOOSE c \in Coupons : c \notin Minted
           k == [Replied("ok") EXCEPT !.token = c, !.mints = @ \cup {c}]
           m == [exp |-> now + Ttl, gen |-> gen]
<1>1. /\ call.phase = "asking" /\ call.op \in {"issue", "key"} /\ reachable
      /\ call.op = "issue" \/ call.fetching
      /\ minted' = [minted EXCEPT ![c] = m] /\ call' = k
      /\ UNCHANGED <<now, faults, calls, processes, opts, reachable, gen, keys, revoked,
                     issueCache, verifyCache, keyCache, pem, approved, heard, delivered>>
  BY DEF ServeIssue, Asks, hostVars, cacheVars, history
<1>2. c \in Coupons /\ c \notin Minted
  BY DEF ServeIssue, Minted
<1> HIDE DEF c
<1>3. /\ k \in Call /\ k.op = call.op /\ k.token = c /\ k.mints = call.mints \cup {c}
      /\ k.phase = "replied" /\ k.reply = "ok" /\ k.result = "none" /\ k.key = call.key
      /\ k.fetching = call.fetching
  <2>1. call \in Call /\ call.result = "none"
    BY <1>1, InProgress
  <2> DEFINE ms == call.mints \cup {c}
  <2>2. ms \subseteq Coupons
    BY <1>2, <2>1, CallTypes
  <2> HIDE DEF ms
  <2>3. LET q == [Replied("ok") EXCEPT !.token = c, !.mints = ms] IN
        /\ q \in Call /\ q.op = call.op /\ q.token = c /\ q.mints = ms
        /\ q.phase = "replied" /\ q.reply = "ok" /\ q.result = "none" /\ q.key = call.key
        /\ q.fetching = call.fetching
    BY <1>2, <2>1, <2>2 DEF Replied, Call, Tokens
  <2>4. Replied("ok").mints = call.mints
    BY <2>1, RepliedIs DEF Replies, Later
  <2> QED  BY <2>3, <2>4 DEF ms
<1>4. m \in Coupon /\ m # Unminted
  <2>1. now + Ttl \in Nat /\ gen \in Nat /\ gen # 0
    BY Natural DEF IInv
  <2>2. m.gen # Unminted.gen
    BY <2>1 DEF Unminted
  <2> QED  BY <2>1, <2>2 DEF Coupon
<1> HIDE DEF k, m
<1>5. Minted' = Minted \cup {c}
  BY <1>1, <1>2, <1>4 DEF Minted, IInv, TypeOK
<1>6. TypeOK'
  BY <1>1, <1>2, <1>3, <1>4 DEF IInv, TypeOK
<1>7. Typed' /\ ForVerify' /\ Undecided' /\ Confirmed'
  <2>1. \A t \in approved : ExpOf(t)' = ExpOf(t)
    BY <1>1, <1>2 DEF ExpOf, IInv, Confirmed, TypeOK, Minted
  <2>2. CacheEarned'
    BY <1>1, <2>1 DEF IInv, Confirmed, CacheEarned
  <2>3. Typed' /\ ForVerify' /\ Undecided'
    BY <1>1, <1>3 DEF IInv, Typed, ForVerify, Undecided
  <2> QED  BY <1>1, <1>3, <1>5, <2>2, <2>3 DEF IInv, Confirmed, ForVerify
<1>8. Owned'
  <2>1. c \notin delivered
    BY <1>2 DEF IInv, Owned
  <2> QED  BY <1>1, <1>3, <1>5, <2>1 DEF IInv, Owned
<1>9. OwnResult'
  BY <1>1, <1>3 DEF OwnResult
<1>10. Accounted'
  <2>1. /\ Minted \ delivered \subseteq Coupons
        /\ Minted' \ delivered' = (Minted \ delivered) \cup {c} /\ c \notin Minted \ delivered
    BY <1>1, <1>2, <1>5 DEF Minted, IInv, Owned
  <2>2. /\ IsFiniteSet(Minted \ delivered) /\ Cardinality(Minted \ delivered) \in Nat
        /\ faults \in Nat /\ processes \in Nat
    BY <2>1, Finite, Natural DEF IInv
  <2>3. Cardinality(Minted' \ delivered') = Cardinality(Minted \ delivered) + 1
    BY <2>1, <2>2, FS_AddElement
  <2>4. ~OnItsWay /\ OnItsWay'
    BY <1>1, <1>3 DEF OnItsWay, IInv, ForVerify
  <2>5. Cardinality(Minted \ delivered) <= faults + processes - 1
    BY <2>2, <2>4 DEF IInv, Accounted
  <2> QED  BY <1>1, <2>2, <2>3, <2>4, <2>5 DEF Accounted
<1> QED  BY <1>6, <1>7, <1>8, <1>9, <1>10 DEF IInv

-----------------------------------------------------------------------------
\* The answer to issue: the user gets the coupon, and the cache.
LEMMA IssuedKeeps ==
    ASSUME IInv, Issued
    PROVE  IInv'
<1>1. /\ call.phase = "replied" /\ call.op = "issue" /\ call.reply = "ok"
      /\ issueCache' = IF opts.cache
                       THEN [token |-> call.token, until |-> now + Larger(Ttl, MinTtl)]
                       ELSE issueCache
      /\ Return("ok", "ca") /\ delivered' = delivered \cup {call.token}
      /\ UNCHANGED <<now, faults, calls, processes, opts, reachable, gen, keys, minted, revoked,
                     verifyCache, keyCache, pem, approved, heard>>
  BY DEF Issued, hostVars, caVars
<1>2. /\ Later(call') /\ call'.phase = "done" /\ call'.result = "ok"
      /\ call'.source = "ca" /\ call'.key = call.key
  BY <1>1, InProgress, ReturnIs
<1>3. /\ call.token \in call.mints /\ call.token \in Minted /\ call.token \notin delivered
      /\ call.mints \subseteq Minted
  BY <1>1 DEF IInv, Owned
<1>4. now + Larger(Ttl, MinTtl) \in Nat
  BY Natural DEF IInv, Larger
<1>5. Minted' = Minted
  BY <1>1 DEF Minted
<1>6. issueCache' \in [token : Coupons \cup {NoCoupon}, until : Nat]
  <2>1. call.token \in Coupons
    BY <1>3 DEF Minted
  <2> QED  BY <1>1, <1>4, <2>1 DEF IInv, TypeOK
<1>7. TypeOK'
  BY <1>1, <1>2, <1>6 DEF Later, IInv, TypeOK
<1>8. Typed' /\ ForVerify' /\ Undecided' /\ Confirmed'
  <2>1. CacheEarned'
    BY <1>1, StaysEarned
  <2> QED  BY <1>1, <1>2, <1>5, <2>1 DEF Later, IInv, Typed, ForVerify, Undecided, Confirmed
<1>9. Owned'
  <2>1. issueCache'.until > 0 => issueCache'.token \in delivered'
    BY <1>1 DEF IInv, Owned
  <2> QED  BY <1>1, <1>2, <1>3, <1>5, <2>1 DEF Later, IInv, Owned
<1>10. OwnResult'
  BY <1>1, <1>2, <1>3 DEF Later, OwnResult
<1>11. Accounted'
  <2>1. /\ Minted \ delivered \subseteq Coupons /\ call.token \in Minted \ delivered
        /\ Minted' \ delivered' = (Minted \ delivered) \ {call.token}
    BY <1>1, <1>3, <1>5 DEF Minted
  <2>2. /\ IsFiniteSet(Minted \ delivered) /\ Cardinality(Minted \ delivered) \in Nat
        /\ faults \in Nat /\ processes \in Nat
    BY <2>1, Finite, Natural DEF IInv
  <2>3. Cardinality(Minted' \ delivered') = Cardinality(Minted \ delivered) - 1
    BY <2>1, <2>2, FS_RemoveElement
  <2>4. Cardinality(Minted \ delivered) <= faults + processes - 1 + 1
    BY <2>2 DEF IInv, Accounted
  <2>5. ~OnItsWay'
    BY <1>2 DEF OnItsWay
  <2> QED  BY <1>1, <2>2, <2>3, <2>4, <2>5 DEF Accounted
<1> QED  BY <1>7, <1>8, <1>9, <1>10, <1>11 DEF IInv

\* Offline, issue returns what an earlier call returned.
LEMMA IssueFromCacheKeeps ==
    ASSUME IInv, IssueFromCache
    PROVE  IInv'
<1>1. /\ call.phase = "fallback" /\ call.op = "issue"
      /\ UNCHANGED <<now, calls, hostVars, reachable, caVars, cacheVars, history, faults>>
  BY DEF IssueFromCache, FallsBack, Same
<1>2. call \in Call /\ ~OnItsWay /\ call.phase # "done"
  BY <1>1, InProgress DEF OnItsWay
<1>3. CASE Return("raised", "none")
  <2>1. /\ Later(call') /\ call'.phase = "done" /\ call'.result = "raised"
        /\ call'.key = call.key
    BY <1>2, <1>3, ReturnIs
  <2> QED  BY <1>1, <1>2, <2>1, InProgress, MoveKeeps
<1>4. CASE /\ Hit(issueCache.until)
           /\ call' = [call EXCEPT !.phase = "done", !.result = "ok", !.source = "cache",
                                   !.token = issueCache.token]
  <2>1. issueCache.token \in Coupons \cup {NoCoupon} /\ issueCache.until \in Nat /\ now \in Nat
    BY DEF IInv, TypeOK
  <2>2. issueCache.token \in delivered
    BY <1>4, <2>1 DEF Hit, IInv, Owned
  <2>3. /\ call' \in Call /\ call'.op = call.op /\ call'.mints = call.mints
        /\ call'.token = issueCache.token /\ call'.phase = "done" /\ call'.result = "ok"
        /\ call'.source = "cache" /\ call'.key = call.key /\ call'.fetching = call.fetching
    BY <1>2, <1>4, <2>1 DEF Call, Tokens
  <2>4. UNCHANGED <<processes, opts, gen, keys, minted, revoked, issueCache, verifyCache, keyCache,
                    pem, approved, heard, delivered>>
    BY <1>1 DEF hostVars, caVars, cacheVars, history
  <2>5. TypeOK'
    BY <1>1, <2>3, <2>4 DEF IInv, TypeOK
  <2>6. OwnResult' /\ ForVerify'
    BY <1>1, <1>2, <2>2, <2>3, <2>4 DEF OwnResult, IInv, Owned, ForVerify
  <2>7. processes \in Nat /\ processes >= processes /\ call'.key <= keys
    BY <1>2, <2>3, Natural, InProgress DEF IInv
  <2> QED  BY <1>1, <1>2, <2>3, <2>4, <2>5, <2>6, <2>7, CallBegins DEF IInv, Owned
<1> QED  BY <1>3, <1>4 DEF IssueFromCache

\* The answer to verify: only a confirmation is cached.
LEMMA VerifiedKeeps ==
    ASSUME IInv, Verified
    PROVE  IInv'
<1> DEFINE end == now + Larger(Left(ExpOf(call.token)), MinTtl)
<1>1. /\ call.phase = "replied" /\ call.op = "verify" /\ call.reply \in {"ok", "invalid"}
      /\ IF call.reply = "ok"
         THEN /\ verifyCache' = IF opts.cache
                                THEN [verifyCache EXCEPT ![call.token] = end] ELSE verifyCache
              /\ heard' = [heard EXCEPT ![call.token] = now]
         ELSE UNCHANGED <<verifyCache, heard>>
      /\ Return(call.reply, "ca")
      /\ UNCHANGED <<now, faults, calls, processes, opts, reachable, gen, keys, minted, revoked,
                     issueCache, keyCache, pem, approved, delivered>>
  BY DEF Verified, hostVars, caVars
<1>2. /\ Later(call') /\ call'.phase = "done" /\ call'.result = call.reply
      /\ call'.source = "ca" /\ call'.key = call.key
  BY <1>1, InProgress, ReturnIs
<1>3. call.token \in Tokens /\ (call.reply = "ok" => call.token \in approved)
  BY <1>1 DEF IInv, Typed, Confirmed
<1>4. /\ now \in Nat /\ end \in Nat
      /\ end <= Larger(ExpOf(call.token), now + MinTtl)
  <2>1. ExpOf(call.token) \in Nat
    BY <1>3, SdkAssumption DEF IInv, TypeOK, Coupon, ExpOf
  <2>2. now \in Nat /\ MinTtl \in Nat
    BY Natural DEF IInv
  <2> QED  BY <2>1, <2>2 DEF Larger, Left
<1> HIDE DEF end
<1>5. verifyCache' \in [Tokens -> Nat] /\ heard' \in [Tokens -> Nat] /\ CacheEarned'
  <2>1. /\ verifyCache \in [Tokens -> Nat] /\ heard \in [Tokens -> Nat] /\ CacheEarned
        /\ \A t \in Tokens : ExpOf(t)' = ExpOf(t) /\ ExpOf(t) \in Nat
        /\ MinTtl \in Nat
    BY <1>1, SdkAssumption DEF IInv, Confirmed, TypeOK, Coupon, ExpOf
  <2>2. CASE call.reply = "ok"
    <3>1. /\ heard' = [heard EXCEPT ![call.token] = now]
          /\ verifyCache' = verifyCache \/ verifyCache' = [verifyCache EXCEPT ![call.token] = end]
          /\ call.token \in approved /\ approved' = approved
      BY <1>1, <1>3, <2>2
    <3>2. verifyCache' \in [Tokens -> Nat] /\ heard' \in [Tokens -> Nat]
      BY <1>3, <1>4, <2>1, <3>1
    <3>3. \A t \in Tokens : heard'[t] <= now'
      BY <1>1, <1>3, <1>4, <2>1, <3>1 DEF CacheEarned
    <3>4. ASSUME NEW t \in Tokens, verifyCache'[t] > 0
          PROVE  t \in approved' /\ verifyCache'[t] <= Larger(ExpOf(t)', heard'[t] + MinTtl)
      <4>1. CASE t # call.token
        BY <2>1, <3>1, <3>4, <4>1 DEF CacheEarned
      <4>2. CASE t = call.token /\ verifyCache'[t] = end
        BY <1>3, <1>4, <2>1, <3>1, <4>2
      <4>3. CASE t = call.token /\ verifyCache'[t] = verifyCache[t]
        <5>1. verifyCache[t] <= Larger(ExpOf(t), heard[t] + MinTtl)
          BY <2>1, <3>4, <4>3 DEF CacheEarned
        <5>2. /\ heard'[t] = now /\ heard[t] <= now /\ heard[t] \in Nat
              /\ verifyCache[t] \in Nat /\ ExpOf(t) \in Nat
          BY <1>3, <2>1, <3>1, <4>3 DEF CacheEarned
        <5>3. Larger(ExpOf(t), heard[t] + MinTtl) <= Larger(ExpOf(t), now + MinTtl)
          BY <1>4, <2>1, <5>2 DEF Larger
        <5>4. verifyCache[t] <= Larger(ExpOf(t), now + MinTtl)
          BY <1>4, <2>1, <5>1, <5>2, <5>3 DEF Larger
        <5> QED  BY <1>3, <2>1, <3>1, <4>3, <5>2, <5>4
      <4> QED  BY <1>3, <2>1, <3>1, <4>1, <4>2, <4>3
    <3> QED  BY <3>2, <3>3, <3>4 DEF CacheEarned
  <2>3. CASE call.reply # "ok"
    BY <1>1, <2>1, <2>3, StaysEarned
  <2> QED  BY <2>2, <2>3
<1>6. TypeOK'
  BY <1>1, <1>2, <1>5 DEF Later, IInv, TypeOK
<1>7. faults \in Nat /\ ~OnItsWay /\ call.key <= keys
  BY <1>1, Natural, InProgress DEF IInv, OnItsWay
<1>8. faults' \in Nat /\ faults' >= faults
  BY <1>1, <1>7
<1>9. approved' \subseteq Minted
  BY <1>1 DEF IInv, Confirmed
<1> QED  BY <1>1, <1>2, <1>3, <1>5, <1>6, <1>7, <1>8, <1>9, CallMoves DEF IInv

LEMMA RevokedKeeps ==
    ASSUME IInv, Revoked
    PROVE  IInv'
<1>1. /\ call.phase = "replied" /\ call.op = "revoke" /\ Return("ok", "ca") /\ ~OnItsWay
      /\ UNCHANGED <<now, faults, calls, hostVars, reachable, caVars, cacheVars, history>>
  BY DEF Revoked, OnItsWay
<1>2. /\ Later(call') /\ call'.phase = "done" /\ call'.result = "ok"
      /\ call'.source = "ca" /\ call'.key = call.key
  BY <1>1, InProgress, ReturnIs
<1> QED  BY <1>1, <1>2, InProgress, MoveKeeps

\* A fetched key is one the authority has had.
LEMMA KeyFetchedKeeps ==
    ASSUME IInv, KeyFetched
    PROVE  IInv'
<1>1. /\ call.phase = "replied" /\ call.reply = "key" /\ pem' = call.key
      /\ keyCache' = IF opts.cache THEN [gen |-> call.key, until |-> now + KeyTtl] ELSE keyCache
      /\ UNCHANGED <<now, faults, calls, processes, opts, reachable, gen, keys, minted, revoked,
                     issueCache, verifyCache, approved, heard, delivered>>
  BY DEF KeyFetched, hostVars, caVars, history
<1>2. /\ \/ call.fetching /\ call' = [call EXCEPT !.phase = "fallback", !.fetching = FALSE]
         \/ ~call.fetching /\ Return("ok", "ca")
  BY DEF KeyFetched
<1>3. /\ call \in Call /\ call.result = "none" /\ call.key \in 0 .. keys /\ ~OnItsWay
      /\ faults' \in Nat /\ faults' >= faults
  <2>1. /\ call \in Call /\ call.result = "none" /\ call.key \in Nat /\ call.key <= keys
        /\ keys \in Nat /\ faults \in Nat
    BY <1>1, Natural, InProgress DEF IInv
  <2> QED  BY <1>1, <2>1 DEF OnItsWay
<1>4. /\ Later(call') /\ call'.phase \in {"fallback", "done"} /\ call'.key = call.key
      /\ call'.phase # "done" => call'.result = call.result
      /\ call'.result = "ok" => call.op = "key"
  <2>1. CASE call.fetching
    BY <1>2, <1>3, <2>1, MovesAre
  <2>2. CASE ~call.fetching
    BY <1>1, <1>2, <1>3, <2>2, ReturnIs DEF IInv, ForVerify
  <2> QED  BY <2>1, <2>2
<1>5. keyCache' \in [gen : 0 .. keys, until : Nat]
  <2>1. now + KeyTtl \in Nat
    BY Natural DEF IInv
  <2> QED  BY <1>1, <1>3, <2>1 DEF IInv, TypeOK
<1>6. TypeOK'
  BY <1>1, <1>3, <1>4, <1>5 DEF Later, IInv, TypeOK
<1>7. call'.key <= keys
  BY <1>3, <1>4 DEF IInv, Typed
<1>8. CacheEarned' /\ approved' \subseteq Minted
  BY <1>1, StaysEarned DEF IInv, Confirmed
<1> QED  BY <1>1, <1>3, <1>4, <1>6, <1>7, <1>8, CallMoves DEF IInv

\* What cannot be stored is lost to the user: that is the fault it costs.
LEMMA UnsavedKeeps ==
    ASSUME IInv, Unsaved
    PROVE  IInv'
<1>1. /\ call.phase = "replied" /\ call' = Failed /\ pem' \in {pem, call.key}
      /\ faults < MaxFaults /\ faults' = faults + 1
      /\ UNCHANGED <<now, calls, processes, opts, reachable, gen, keys, minted, revoked,
                     issueCache, verifyCache, keyCache, approved, heard, delivered>>
  BY DEF Unsaved, StorageRaises, hostVars, caVars, history
<1>2. /\ call \in Call /\ call.result = "none" /\ call.key \in 0 .. keys
      /\ faults' \in 0 .. MaxFaults /\ faults' \in Nat /\ faults' > faults /\ faults' >= faults
  <2>1. /\ call \in Call /\ call.result = "none" /\ call.key \in Nat /\ call.key <= keys
        /\ keys \in Nat /\ faults \in Nat /\ MaxFaults \in Nat
    BY <1>1, Natural, InProgress, SdkAssumption DEF IInv
  <2> QED  BY <1>1, <2>1
<1>3. /\ Later(call') /\ call'.phase \in {"done", "cache", "fallback"} /\ call'.key = call.key
      /\ call'.phase # "done" => call'.result = call.result
      /\ call'.result # "ok"
      /\ call'.phase = "cache" => call.op = "verify"
  BY <1>1, <1>2, FailedIs DEF IInv, ForVerify
<1>4. TypeOK'
  BY <1>1, <1>2, <1>3 DEF Later, IInv, TypeOK
<1>5. call'.key <= keys
  BY <1>3 DEF IInv, Typed
<1>8. CacheEarned' /\ approved' \subseteq Minted
  BY <1>1, StaysEarned DEF IInv, Confirmed
<1> QED  BY <1>1, <1>2, <1>3, <1>4, <1>5, <1>8, CallMoves DEF IInv

\* The clock, the network, the authority's key and its revocations.
LEMMA WorldKeeps ==
    ASSUME IInv, Tick \/ Outage \/ Rotate \/ Lapse
    PROVE  IInv'
<1>1. /\ UNCHANGED <<calls, processes, opts, minted, issueCache, verifyCache, keyCache,
                     pem, call, approved, heard, delivered>>
      /\ revoked' \subseteq revoked
  BY DEF Tick, Outage, Rotate, Lapse, hostVars, caVars, cacheVars, history
<1>2. /\ now \in Nat /\ keys \in Nat /\ gen \in 1 .. keys /\ faults \in 0 .. MaxFaults /\ MaxFaults \in Nat
      /\ pem \in 0 .. keys /\ keyCache \in [gen : 0 .. keys, until : Nat]
  BY SdkAssumption DEF IInv, TypeOK
<1>3. /\ now' \in Nat /\ faults' \in 0 .. MaxFaults /\ faults' \in Nat /\ faults' >= faults
      /\ keys' \in Nat /\ keys' >= keys /\ gen' \in 1 .. keys' /\ now' >= now
      /\ reachable' = reachable \/ faults' > faults
  BY <1>2 DEF Tick, Outage, Rotate, Lapse, caVars, Larger
<1>4. 0 .. keys \subseteq 0 .. keys'
  BY <1>2, <1>3
<1>5. pem' \in 0 .. keys' /\ keyCache' \in [gen : 0 .. keys', until : Nat]
  BY <1>1, <1>2, <1>4
<1>6. TypeOK'
  BY <1>1, <1>3, <1>5 DEF IInv, TypeOK
<1> QED  BY <1>1, <1>3, <1>6, AroundTheCall DEF IInv

-----------------------------------------------------------------------------
LEMMA InitIInv == Init => IInv
<1> SUFFICES ASSUME Init PROVE IInv
  OBVIOUS
<1>1. /\ call = [NewCall("key", NoCoupon) EXCEPT !.phase = "done"]
      /\ delivered = {} /\ approved = {} /\ faults = 0 /\ processes = 1 /\ gen = 1 /\ keys = 1
  BY DEF Init
<1>2. /\ call \in Call /\ call.op = "key" /\ call.phase = "done" /\ call.mints = {}
      /\ call.key = 0 /\ ~call.fetching
  BY <1>1 DEF NewCall, Call, Ops
<1>3. Minted = {}
  BY DEF Init, Minted
<1>4. TypeOK
  <2>1. /\ minted \in [Coupons -> Coupon] /\ verifyCache \in [Tokens -> Nat]
        /\ heard \in [Tokens -> Nat]
    BY DEF Init, Unminted, Coupon
  <2>2. /\ issueCache \in [token : Coupons \cup {NoCoupon}, until : Nat]
        /\ keyCache \in [gen : 0 .. keys, until : Nat]
    BY DEF Init
  <2>3. /\ opts \in Configs /\ processes = 1 /\ now = 1 /\ calls = 0 /\ faults = 0
        /\ gen = 1 /\ keys = 1 /\ pem = 0 /\ revoked = {}
    BY DEF Init
  <2>4. MaxProcesses \in Nat \ {0} /\ MaxCalls \in Nat /\ MaxFaults \in Nat
    BY SdkAssumption
  <2>5. /\ processes \in 1 .. MaxProcesses /\ now \in Nat /\ calls \in 0 .. MaxCalls
        /\ faults \in 0 .. MaxFaults /\ keys \in Nat /\ gen \in 1 .. keys /\ pem \in 0 .. keys
    BY <2>3, <2>4
  <2> QED  BY <1>1, <1>2, <2>1, <2>2, <2>3, <2>5 DEF TypeOK
<1>5. Typed /\ ForVerify /\ Undecided /\ OwnResult
  BY <1>1, <1>2 DEF Typed, ForVerify, Undecided, OwnResult
<1>6. Confirmed /\ Owned
  BY <1>1, <1>2, <1>3 DEF Init, Confirmed, CacheEarned, Owned
<1>7. Accounted
  <2>1. Minted \ delivered = {}
    BY <1>3
  <2> QED  BY <1>1, <2>1, FS_EmptySet DEF Accounted
<1> QED  BY <1>4, <1>5, <1>6, <1>7 DEF IInv

LEMMA StepIInv == IInv /\ [Next]_vars => IInv'
<1> SUFFICES ASSUME IInv, [Next]_vars PROVE IInv'
  OBVIOUS
<1>1. CASE Step
  BY <1>1, ServeIssueKeeps, ServeVerifyKeeps, ServeRevokeKeeps, AnswersKeep, RetriesKeep,
     IssuedKeeps, VerifiedKeeps, RevokedKeeps, KeyFetchedKeeps, UnsavedKeeps,
     IssueFromCacheKeeps, FallbacksKeep DEF Step
<1>2. CASE Next /\ ~Step
  BY <1>2, NewProcessKeeps, BeginStepKeeps, WorldKeeps DEF Next
<1>3. CASE UNCHANGED vars
  <2>1. UNCHANGED <<now, faults, calls, processes, opts, reachable, gen, keys, minted, revoked,
                    issueCache, verifyCache, keyCache, pem, call, approved, heard, delivered>>
    BY <1>3 DEF vars, hostVars, caVars, cacheVars, history
  <2>2. TypeOK' /\ Typed' /\ ForVerify' /\ Undecided' /\ Confirmed'
    BY <2>1 DEF IInv, TypeOK, Typed, ForVerify, Undecided, Confirmed,
       CacheEarned, ExpOf, Minted
  <2>3. Owned' /\ OwnResult' /\ Accounted'
    BY <2>1 DEF IInv, Owned, OwnResult, Accounted, OnItsWay, Minted
  <2> QED  BY <2>2, <2>3 DEF IInv
<1> QED  BY <1>1, <1>2, <1>3

\* The invariant holds in every reachable state.
THEOREM Invariant == Spec => []IInv
<1> QED  BY InitIInv, StepIInv, PTL DEF Spec

\* The client, its cache, its call and the authority are well formed.
THEOREM TypeCorrect == Spec => []TypeOK
<1>1. IInv => TypeOK
  BY DEF IInv
<1> QED  BY <1>1, Invariant, PTL

\* The steps that end a verification with success, and what the others leave.
LEMMA WhoConfirms ==
    ASSUME IInv, Next, call.op = "verify", call.phase # "done", call'.result = "ok"
    PROVE  Verified \/ VerifyLocally \/ VerifyFromCache
<1>1. call \in Call /\ call.result = "none"
  BY InProgress
<1>2. ASSUME call' \in {call, BackOff, Failed, [call EXCEPT !.phase = "done"],
                        [call EXCEPT !.phase = "cache"]}
      PROVE  call'.result # "ok"
  BY <1>1, <1>2, BackOffIs, FailedIs, MovesAre
<1>3. ASSUME NEW reply \in Replies, call' = Replied(reply)
      PROVE  call'.result # "ok"
  BY <1>1, <1>3, RepliedIs
<1>4. ASSUME Return("raised", "none") PROVE call'.result # "ok"
  BY <1>1, <1>4, ReturnIs
<1>5. ~NewProcess /\ ~Tick /\ ~Outage /\ ~Rotate /\ ~Lapse
  BY <1>2 DEF NewProcess, Tick, Outage, Rotate, Lapse
<1>6. /\ ~Begin("issue", NoCoupon) /\ ~BeginKey /\ ~BeginKeyRaises
      /\ ~\E t \in Minted \cup Forged : Begin("verify", t) \/ Begin("revoke", t)
  BY DEF Begin, BeginKey, BeginKeyRaises
<1>7. ~CallFails /\ ~Busy /\ ~Refused /\ ~Unsaved
  BY <1>2 DEF CallFails, Busy, Refused, Unsaved
<1>8. ~Retry /\ ~FetchKey
  BY <1>1, MovesAre DEF Retry, FetchKey
<1>9. ~LocalFails /\ ~LocalRaises
  BY <1>2, <1>4 DEF LocalFails, LocalRaises
<1>10. ~ServeVerify /\ ~ServeRevoke /\ ~ServeLimited /\ ~ServeError
  BY <1>3 DEF ServeVerify, ServeRevoke, ServeLimited, ServeError, Replies
<1>11. ~ServeKey
  <2>1. "key" \in Replies /\ gen \in Nat
    BY Natural DEF Replies, IInv
  <2>2. [Replied("key") EXCEPT !.key = gen].result = call.result
    BY <1>1, <2>1, RepliedIs
  <2> QED  BY <1>1, <2>2 DEF ServeKey
<1>12. ~ServeIssue /\ ~Issued /\ ~IssueFromCache /\ ~Revoked
  BY DEF ServeIssue, Asks, Issued, IssueFromCache, FallsBack, Revoked
<1>13. ~KeyFetched
  BY <1>1, MovesAre DEF KeyFetched, IInv, ForVerify
<1> QED  BY <1>5, <1>6, <1>7, <1>8, <1>9, <1>10, <1>11, <1>12, <1>13 DEF Next, Step

\* What each of them has to show for it.
LEMMA VerdictIsEarned ==
    ASSUME IInv, Next, call.op = "verify", call.phase # "done", call'.result = "ok"
    PROVE  \/ call'.source = "ca" /\ call.token \in approved
           \/ /\ call'.source = "cache" /\ call.token \in approved
              /\ now < Larger(ExpOf(call.token), heard[call.token] + MinTtl)
           \/ /\ call'.source = "local" /\ call.token \in Minted
              /\ now < ExpOf(call.token)
<1>1. /\ call \in Call /\ call.token \in Tokens /\ now \in Nat /\ MinTtl \in Nat
      /\ verifyCache[call.token] \in Nat /\ heard[call.token] \in Nat
      /\ ExpOf(call.token) \in Nat
  <2>1. call \in Call /\ call.token \in Tokens
    BY InProgress DEF IInv, Typed
  <2> QED  BY <2>1, Natural, SdkAssumption DEF IInv, TypeOK, ExpOf, Coupon
<1>2. CASE Verified
  <2>1. /\ Return(call.reply, "ca") /\ call.reply \in {"ok", "invalid"}
        /\ call.phase = "replied"
    BY <1>2 DEF Verified
  <2>2. call'.result = call.reply /\ call'.source = "ca"
    BY <1>1, <2>1, ReturnIs
  <2> QED  BY <2>1, <2>2 DEF IInv, Confirmed
<1>3. CASE VerifyLocally
  <2>1. /\ Return("ok", "local") /\ LocalKey # 0
        /\ SignedBy(call.token) = LocalKey /\ ExpOf(call.token) > now
    BY <1>3 DEF VerifyLocally, LocalAccepts
  <2>2. call'.source = "local"
    BY <1>1, <2>1, ReturnIs
  <2>3. call.token \in Coupons /\ minted[call.token].gen # 0
    BY <2>1 DEF SignedBy
  <2>4. call.token \in Minted
    BY <2>3 DEF Minted, Unminted
  <2> QED  BY <1>1, <2>1, <2>2, <2>4
<1>4. CASE VerifyFromCache
  <2>1. Return("ok", "cache") /\ Hit(verifyCache[call.token])
    <3>1. CASE Return("raised", "none")
      BY <1>1, <3>1, ReturnIs
    <3> QED  BY <1>4, <3>1 DEF VerifyFromCache
  <2>2. call'.source = "cache"
    BY <1>1, <2>1, ReturnIs
  <2>3. now < verifyCache[call.token] /\ verifyCache[call.token] > 0
    BY <1>1, <2>1 DEF Hit
  <2>4. /\ call.token \in approved
        /\ verifyCache[call.token] <= Larger(ExpOf(call.token), heard[call.token] + MinTtl)
    BY <1>1, <2>3 DEF IInv, Confirmed, CacheEarned
  <2>5. Larger(ExpOf(call.token), heard[call.token] + MinTtl) \in Nat
    BY <1>1 DEF Larger
  <2> QED  BY <1>1, <2>2, <2>3, <2>4, <2>5
<1> QED  BY <1>2, <1>3, <1>4, WhoConfirms

\* verify_coupon, given any text, confirms a token only if the authority did, in
\* time for what the cache holds, or signed it: no stale entry, retry, restart
\* or forgery is confirmed.
THEOREM EarnedVerdicts == Spec => ValidIsEarned
<1>1. IInv /\ [Next]_vars =>
        [call.op = "verify" /\ call.phase # "done" /\ call'.result = "ok" =>
           \/ call'.source = "ca" /\ call.token \in approved
           \/ /\ call'.source = "cache" /\ call.token \in approved
              /\ now < Larger(ExpOf(call.token), heard[call.token] + MinTtl)
           \/ /\ call'.source = "local" /\ call.token \in Minted
              /\ now < ExpOf(call.token)]_vars
  BY VerdictIsEarned
<1> QED  BY <1>1, Invariant, PTL DEF Spec, ValidIsEarned

\* issue_coupon returns a coupon of its own call or one that it returned before,
\* and a coupon that reaches no user has cost a fault or a process.
THEOREM OwnCoupons == Spec => []IssueIsOwn
<1>1. IInv => IssueIsOwn
  <2> SUFFICES ASSUME IInv PROVE IssueIsOwn
    OBVIOUS
  <2>1. Minted \ delivered \subseteq Coupons
    BY DEF Minted
  <2>2. Cardinality(Minted \ delivered) \in Nat /\ faults \in Nat /\ processes \in Nat
    BY <2>1, Finite, Natural DEF IInv
  <2>3. OnItsWay => call.phase = "replied"
    BY DEF OnItsWay
  <2>4. Cardinality(Minted \ delivered) <=
          faults + processes - 1 + (IF call.phase = "replied" THEN 1 ELSE 0)
    BY <2>2, <2>3 DEF IInv, Accounted
  <2> QED  BY <2>4 DEF IInv, OwnResult, IssueIsOwn
<1> QED  BY <1>1, Invariant, PTL
=============================================================================
