# DISC in TLA+

This directory specifies and verifies the core of DISC: the Coupon Authority
(`src/backend`), the validating gateway (`src/gateway`), the Python SDK
(`src/sdk/disc_sdk`) and its command line (`src/cli`). Each module is translated from the Python source; TLC
checks it on small instances, and TLAPS proves the central results for every
instance. `PROJECT.json` maps every definition to the lines it models, lists
the runs, the faulty variants that each property must reject ("mutants"), the
hazards of the code and the theorems.

## 1. The system

| Component | State | Operations |
|---|---|---|
| Coupon Authority API (`backend/api/endpoints.py`) | none of its own | `/issue`, `/verify`, `/revoke`, `/public-key`, `/audit-summary`, `/audit/search`, `/audit-events`, `/consumer-status` |
| Signing keys (`core/security.py`) | one key pair per process, from configuration, a file, or generated at import | `create_coupon`, `verify_coupon` |
| Policy engine (`core/policy.py`, `policies/main.rego`) | none; OPA is remote | `check_permission` |
| Revocation store (`services/revocation.py`) | Redis keys with a TTL, or `MockRedisRevoke` in memory, chosen once at import | `revoke_jti`, `is_jti_revoked` |
| Delegations (`services/delegation.py`) | one Redis set per resource, with one TTL, or a mock without | `add_delegation`, lookup by `/issue` |
| Audit service (`services/audit.py`) | Kafka producer | `start`, `stop`, `log_event` |
| Audit store (`services/audit_store.py`) | ring buffer of 5000 records, seen ids, Kafka status | `add`, `list`, `trace_by_*`, `summary` |
| Audit index (`services/audit_indexer.py`) | Redis: message hashes, index sets, a timeline | `index_event`, `search` |
| Kafka consumer (`services/kafka_audit_consumer.py`) | consumer, task, offset committed for the group | `start`, `stop`, `_run_loop` |
| Gateway (`gateway/main.py`, `gateway/plugins/`) | the plugins loaded at start-up, the offline cache of verified claims | plugin pipeline, then the proxy |
| SDK (`sdk/disc_sdk`) | TTL cache over a storage, a public key | `issue_coupon`, `verify_coupon`, `revoke_coupon`, `get_public_key_pem` |
| SDK storage (`sdk/disc_sdk/storage.py`) | a JSON file | `get`, `set`, `delete` |
| Command line (`cli/disc-cli.py`) | the SDK's cache file, which its commands share | one SDK call per process |
| Admin UI, sample upstream, scripts, deployment | | |

How they interact:

- A client gets a coupon from `/issue` (policy, then keys), presents it to the
  gateway, which posts it to `/verify` and matches its scope with the request.
- `/revoke` and every `/issue` await `log_event`, which mirrors the event into
  the audit store, indexes it in Redis, signs it and publishes it to Kafka. The
  consumer of the same process reads the topic back and upgrades the record.
- The SDK calls the same three endpoints and falls back, when a call fails, on
  its cache or on a local check of the signature.
- Everything in a backend or gateway process runs on one event loop: handlers
  interleave only at awaits that suspend. Redis (for revocations) and OPA are
  called with blocking clients, so a handler is atomic up to `log_event`.

What is hard: handlers that interleave around the acknowledgement of a
revocation; Redis, OPA and Kafka that fail independently of the process; what a
restart keeps (keys, the choice of Redis or mock, the committed offset) and
loses; copies of events that arrive twice, late and out of order; retries of
calls that had taken effect; caches used after what they hold has changed; a
read-modify-write of a file by threads and processes that may be killed; two
Redis commands where one was meant. `PROJECT.json` lists
each as a hazard at its line.

What makes each part correct: an acknowledged revocation bars its coupon, and
failures deny (authority); one record per event, in order, whatever copies
arrive (store); the copy in the topic never precedes the mirror and no message
is committed unread (pipeline); a stored event can be found (index); only a
good coupon of the right scope passes, and a good one is not refused without
cause (gateway); a verdict was earned, and an issue returns the coupon minted
for it (SDK); an update is atomic (storage); an acknowledged delegate is listed,
and not for ever (delegations).

## 2. The modules

| Module | Models | Notes on the correspondence |
|---|---|---|
| `CouponRegistry` | the promise of the authority: coupons are minted, barred, accepted | abstract; the gateway uses it as its authority |
| `CouponAuthority` | issue, verify, revoke; policy, keys, revocation store, crash and restart | a handler is one action up to `log_event`, then parked in phase `logging`; every early return and exception is an action (`IssueLimited`, `IssueLookupFails`, `IssueDenied`, `IssueFails`, `RevokeFails`) |
| `CouponAuthorityProofs` | theorems about it | |
| `AuditStore` | `AuditEventStore.add` | the lock is never held across a suspension, so a call is one step |
| `AuditQueries` | `list`, `trace_by_correlation`, `summary` | operators of the buffer; extends `AuditStore`, so that they are checked on every buffer it reaches. A stable sort and a list comprehension are both an arrangement of places of the buffer by a total order (`Arranged`); the loop of `summary` is a recursive function, and its result is sorted and cut as in the code. At this commit `list` and `trace_*` have no endpoint |
| `AuditStoreProofs` | theorems about the store and its reads | |
| `AuditPipeline` | lifespan, `log_event`, index, topic, consumer | `log_event` is four actions, cut at its awaits; the store is `AuditStore` by `INSTANCE`; a crash clears memory, not topic or offset |
| `AuditPipelineProofs` | theorems about it | instantiates `AuditStoreProofs`, whose lemmas it uses for the store of the process |
| `AuditIndex` | `index_event` and `search` over Redis | one MULTI/EXEC is one action; `search` is one action per command |
| `AuditIndexProofs` | theorems about it | |
| `PurposeBinding` | parsing of scopes and matching | texts are sequences of tokens; the conversion is modelled, since it is what the properties are about |
| `Delegation` | `POST /delegation` and the lookup, over Redis or the mock | SADD and EXPIRE are two actions, each of which may fail before or after Redis ran it; one resource, since two share nothing |
| `DelegationProofs` | theorems about it | |
| `Gateway` | plugin loader, middleware, VerifyWithCA, PurposeBinding, proxy, crash and restart | `Pipeline` runs the loaded plugins in the order of the setting up to the first await or answer; requests interleave at the call, the back-off and the upstream; the authority is an instance of `CouponRegistry`, whose revocations may also lapse; a path that skips the plugins is forwarded, also the three the gateway answers itself; the scope check is one of `PurposeBinding` (in `MCGateway`) |
| `GatewayProofs` | theorems about `Gateway`, about `PurposeBinding`, and about the two together | extends both |
| `SdkClient` | the client with retries, cache and offline strategies, and the commands of the CLI that share its cache | a call is a record with a phase; the authority decides, and its answer may be lost, or fail to be stored, afterwards. Calls verify and revoke minted coupons and `Forged` texts, and the authority may return to a key it had (`Rotate`). A command is a process: `NewProcess` ends or kills the last one, keeps the cache and chooses other options |
| `SdkClientProofs` | theorems about it | |
| `StorageMap` | a map with atomic updates | abstract |
| `FileStorage` | the JSON file at the grain of system calls | inodes, the path and `<path>.tmp`; the lock is one per process, `home` says which thread runs in which; a kill between any two calls, and a write that fails and leaves half a file |
| `FileStorageProofs` | theorems about it | |

`MC*` modules hold the instances. Definitions under "Faulty variant" are not
part of any specification: each replaces the definition after it, to show that
a property notices the bug it stands for.

Assumptions about the environment, all taken from how the code uses it:
`MULTI/EXEC` is atomic; Redis runs with `allkeys-lru` and without persistence
(`src/infra/docker-compose.yml:34`), so any key may vanish and a restart is
empty; a topic is an ordered log; the producer may append a message twice;
`aiokafka` commits the position now and then and on close; `os.replace` is
atomic. The delegation and the revocation client of a process are assumed to
find Redis in the same state at import. The fixed window of the rate limiter is
a choice (`IssueLimited`).

## 3. The runs

All passing runs set `CHECK_DEADLOCK FALSE`: behaviours end when the bounds
(clock, faults, calls, events) are used up.

| Run | Question and bounds |
|---|---|
| `CouponAuthority` | Two clients, so that a verification and a revocation overlap, and faults that reach: Redis away during a verification, a crash between SETEX and the answer, a restart with other keys or without Redis. Shows `RevocationEnforced`, `NoAnonymousCoupon` and that `CouponRegistry` is implemented. |
| `AuditStore` | Seven ids of five kinds (equal timestamps, none, a common correlation, two others, none), a buffer of 3, eight arrivals. The factor of the seen ids is 2 here and 3 in the code: they are rebuilt at the seventh id, and copies of evicted and forgotten events still arrive after it. Over each of these buffers: five filters that between them use every field but the correlation id, by which the traces are taken, page sizes beyond the cap of 2, and a summary cut after 2 (25 in the code), so that a correlation falls off its end. |
| `AuditPipeline` | Two events, three processes (each with the configured key or one of its own), two copies per message, two outages. Two processes are needed for a message signed with another key, three for an offset committed by one and used after another. |
| `AuditPipelineLive` | Two events, one copy per message, a buffer of 1, two processes, two outages; liveness, so no symmetry. Either call of `log_event` may stay in flight for ever. |
| `AuditIndex` | Four events sharing actors and actions, a timeline of 2, a retention of 2 ticks with a clock that reaches 2 (a set outlives its oldest message), one fault, one search; limits -1, 0 and 2. Searches change nothing, so one stands for all. |
| `PurposeBinding` | Every text of up to six tokens: two entries with a separator, or one entry with stray blanks and separators. |
| `Gateway` | Two requests, two coupons, a protected and an open target, one retry, three faults (enough for an attempt that is lost, one that is answered by an error and a crash, or for a revocation that lapses while a request retries). Six settings: the default, each plugin alone, the order reversed, none, and one that does not import. The offline cache is on, and a request without a hit behaves as if it were off. |
| `SdkClient` | Three calls by two processes (issue, verify, verify after expiry or rotation), two coupons and a forged token, one retry, two faults (a rotation and the one back), a clock that ends one tick after a ttl or the life of a key that began at its start. Revocations come, and may lapse again, at any time. Four sets of options: a cache with each strategy that reads it, a local check without a cache, a cache only written. Liveness, so no symmetry. |
| `FileStorage` | Two threads of one process, and two processes of one thread each; two keys and values, four operations, two kills or failing writes. Three inodes: the file, the temporary file, and one that was replaced while a thread still writes to it. |
| `Delegation` | Two backends and two delegates, lives of 0, 1 and 3, a clock of 4, so that one life ends inside another, three faults. |
| `ExpiredAccepted`, `SpacedScope` | Violations: see section 6. |

Fairness, only in `FairSpec` of `AuditPipeline` and `SdkClient`:

- `AuditPipeline`: weak fairness of consuming a message that is available, and
  of `Wake` (`sleep(1.0)` ends): the task of the loop is scheduled, and the
  client hands over what it fetched. Nothing is assumed of Kafka, commits,
  publication, the shutdown or the calls of `log_event`: the Redis client of the
  index has no timeout (`audit_indexer.py:15`), so a call of it need not end.
- `SdkClient`: weak fairness of the client's next step; its HTTP calls have a
  timeout, so a call in flight is answered or fails.

## 4. What is proved

TLAPS checks these for every value of the constants allowed by the `ASSUME`s:
any number of coupons, clients, requests, backends, threads, processes, faults
and ticks, any buffer length, any text. Each module proves an inductive
invariant `IInv` (`Init => IInv`, `IInv /\ [Next]_vars => IInv'`, one lemma per
group of actions, `THEOREM Invariant`); the safety properties of its run follow
from it. Every `IInv` of this kind was model-checked on the constants of the
run before it was proved.

- `CouponAuthorityProofs`: `TypeCorrect`, `RevocationSafe`, `AnonymousSafe`,
  `Refinement`. `RevocationEnforced` is not inductive: it speaks
  of acknowledged revocations, while the write happens before the
  acknowledgement. `IInv` adds that what a call parked in `log_event` is going
  to promise, and what is promised already, is covered by the store in use
  (`Enforced`), that no promise reaches further than a SETEX made now would
  (`NotAhead`), and that calls name coupons: a revocation a minted one, a
  verification a minted one or a text that is none (`CallsNamed`). `Refinement` shows that each step
  of `CouponAuthority` is a step of `CouponRegistry` or a stutter; a restart or a
  tick maps to `Lapse`.
- `AuditStoreProofs`: `TypeCorrect`, `OneRecord`, `SeenCovers`, `Recent`, for
  any buffer length and any factor of the seen ids. `OneRecordPerEvent` and
  `SeenCoversBuffer` support each other: an id that is buffered is seen, so it is
  not appended again; so the buffer has distinct ids; so a rebuild from the
  buffer keeps it covered. `BufferIsRecent` follows on top of it, step by step:
  an append moves every record down by at most one place, an upgrade moves none.
- `AuditStoreProofs`, on the reads of `AuditQueries`: `ReadsAreRight` and
  `SummaryRight`, for any buffer, filters, page size and cap. The library's
  induction rules cannot be instantiated here, so each induction is the
  refutation of a least counterexample (`Least`, from the well-foundedness of
  the numbers). `Places`: under a finite total order, each rank has exactly one
  place; so a sorted or filtered list shows the chosen records, each once
  (`Shows`), and a filter of a sorted list is the sorted filter. `Division` says
  which page a match is on and where; so the pages, put together, are the
  matches. One list by rising and one by falling keys of the same records carry
  the same keys, read from opposite ends (`SortedBothWays`), which ties the trace
  to the list. For the summary, sorted by the last record and cut,
  `GatheredIs` shows that the function the loop defines exists, and the least
  prefix of the buffer on which it would be wrong does not.
- `AuditPipelineProofs`: `TypeCorrect`, `MirrorFirst`, `SignedIsShown`,
  `NothingSkipped`, `StatusIsEarned`, and the action property
  `DrivesStoreAsAllowed`. `IInv` contains the one of `AuditStoreProofs`
  (`StoreOK`), and that only events that began have ids in flight (`Begun`): a
  fresh id is then fresh in the store, which is what `AddLocal` of `AuditStore`
  asks, so the pipeline is allowed each of its calls; `ShownOnce` carries the
  promise of the store over to the pipeline. `CommittedWasRead` needs the same of
  the position of a running consumer (`Progress`), since a commit publishes it
  later; `MirrorPrecedesTopic` needs what the process has emitted, not only what
  is in the topic (`Mirrored`).
- `AuditIndexProofs`: `TypeCorrect`, `SearchShowsMatches`,
  `MessagesAreFindable`, `TimelineKeepsRecent`, `FilteredFindsAll`. `IInv` is in
  two halves that meet only in the history: the store (`Recorded`, `ByField`: a
  set is kept at least until the last of its messages ends) and a search (what it
  shows, passed over and will read is distinct, within what the first command
  found, and in order). That `zremrangebyrank` trims one event, and the oldest,
  is `TrimmedIs`; it rests on `Ranking`: in a finite set of events with distinct
  ranks, the numbers of newer events are exactly those below its size. The proof
  showed that the timeline property could be said more sharply than before: an
  event that is not in the timeline, and that Redis did not drop, is older than
  all of it.
- `GatewayProofs`: `TypeCorrect`, `GoodCouponsOnly`, `CauseOfRefusal`, and the
  action property `CacheIsLastResort`. `IInv` says of each request where it
  stands before it passes: a verification at work has made as many calls as
  attempts and is the first plugin (`Verifying`), a valid answer was earned while
  the call was in flight and stays earned through revocations and sleeps
  (`AnswerEarned`), an entry of the cache was once accepted (`CacheEarned`).
  A coupon may become good again while a request is under way (`Lapse`); a
  refusal is then still caused, since "good" is counted from the arrival of the
  request or from the lapse (`LapseStep`). For texts of any length and any
  methods and paths, `ScopeIsSpelled` and `ListedEntriesCount` prove the two
  properties of `PurposeBinding`, and `PassedIsSpelled` joins the modules: if
  each coupon is permitted what `PurposeBinding` reads in its scope, a request
  passes a protected path only when that scope spells its method and path as one
  entry. `DrivesAuthority` shows that every step of the gateway's model is one of
  `CouponRegistry` or leaves it alone; since `CouponAuthority` implements that
  module (`Refinement`), what is proved of the gateway does not rest on an
  authority stronger than the one in the code.
- `SdkClientProofs`: `TypeCorrect`, `EarnedVerdicts`, `OwnCoupons`. A verdict may
  come from the answer, from the cache or from a local check, so `IInv` says
  that what the cache holds and what an answer on its way confirms was confirmed
  (`Confirmed`), and that an entry of the cache ends no later than the exp of its
  token or `MinTtl` after the last such answer (`CacheEarned`, `StaysEarned`). It
  holds for any token a caller may pass, and for an authority that returns to an
  earlier key. The count in `IssueIsOwn` is inductive only with the answer
  that is on its way counted in (`Accounted`).
- `FileStorageProofs`: `TypeCorrect`, `Outcomes`, `FileIsMap`. For one process
  `IInv` says at each system call what the thread that holds the lock has in the
  temporary file (`AloneOwns`), whatever a kill or a failing write left there; with it the rename
  is the one step of `StorageMap`, every other step a stutter. For several
  processes only `Known` remains: whatever is on a disk was set for its key.
- `DelegationProofs`: `TypeCorrect`, `ListedWhileDue`, `EndedOrExplained`. A
  delegate that is due is in the set, which ends no earlier (`DueIsKept`); a set
  without an end has an add between its two commands or one that was cut short
  there, and one with an end got it from an add (`EndIsGiven`).

The assumptions on constants are what the code or a bound of the model gives:
the sets of ids, coupons and strays of a behaviour are finite (so that they can
be counted), sets a first state chooses from are not empty, settings are
sequences of class names of which the verification is named at most once, and a
`Cap`, `Retention` and buffer length are positive. In `Delegation` the
clock (`Tick`) also ends what is promised of a delegate whose set lives on, so
that `IInv` can say that a delegate still due is listed.

Only model-checked:

- `ConsumerRecovers` and `EveryCallReturns`: liveness under
  fairness and `ENABLED` are out of the prover's reach.
- `ExpiredCouponsRejected` and `SpacedScopeMatches`, which the code violates.

## 5. What is not modelled, and why

- What the policy makes of delegations: nothing, `main.rego` never reads them.
  `/issue` looks them up, and a failure of the lookup is modelled
  (`IssueLookupFails` in `CouponAuthority`).
- `/policy/partial-eval`, which returns a constant; the second audit router
  (`backend/api/audit.py`), whose path is shadowed by `endpoints.py`.
- In the SDK: a `revocation_checker`, and `InMemoryStorage`, which is a map under
  one lock. In the command line: the parsing of arguments, printing and exit
  codes; `--cache memory`, which keeps nothing past its only call.
- Admin UI: pages without state that outlives them. The audit page applies the
  answers of two searches in the order they come; no document or test promises
  otherwise, and a property that holds of it would say nothing.
- `resource`, `service` and `details` of an event, and the text filter of `list`,
  which treat a record as the filters that are modelled do.
- The three counters of `summary` by type, source and action
  (`audit_store.py:220-230`), and its fields on the buffer and on Kafka.
- What follows when signing an audit message fails: the raw JSON is published
  (`audit.py:109-111`), and a consumer reads it by
  `kafka_audit_consumer.py:110-112`. Signing with the key the process has loaded
  does not fail; messages without a good signature come from other processes'
  keys (`ConsumeUnparsed`).
- A blocking client that never answers: the handler, or the event loop for the
  synchronous ones (`revocation.py:7`, `delegation.py`), stops there.
- In the gateway, that `/health`, `/docs` and `/openapi.json` are answered
  locally: paths that skip the plugins are all forwarded.
- Scripts, sample upstream, metrics, middleware headers and deployment: no state
  a property could be about.

## 6. Where code and documents differ

Checked by a violation run:

- `ExpiredAccepted`: `src/README.md:244` says `/verify` checks that a coupon is
  not expired; `verify_coupon` (`core/security.py:122-127`) decodes `exp` and
  does not compare it.
- `SpacedScope`: `src/docs/TEST_SCENARIOS.md:41-43` expects the scope
  `"GET /hello"` to pass; `_parse_scopes` (`gateway/plugins/purpose.py:41`)
  splits it at the blank.

Met while modelling, visible in the actions named:

- `design/api_contracts.md:124` says that old keys are kept for verification
  until their coupons expire; a process has one key, generates another when its
  key file does not load (`core/security.py:75-88`), and `verify_coupon` knows
  only that one (`LoadOrGenerateKeys`, `VerifyCoupon`).
- `design/api_contracts.md:128` gives a revocation the coupon's remaining
  validity; `endpoints.py:191` gives it 3600 s, so a longer-lived coupon is
  accepted again (`Revoke`, `Lapse`).
- `docs/hardening.md:63` says that a restart does not affect guarantees;
  revocations kept in the mock, and those in Redis when the next process starts
  without it, are lost (`Start`).
- `docs/PERSON_B_PRESENTATION_NOTES.md:37` says that nothing is lost when the
  consumer dies; with `auto_offset_reset` latest
  (`kafka_audit_consumer.py:43`) a consumer that never committed skips what was
  sent meanwhile (`StartConsumer`). `CommittedWasRead` holds from `base` on.
- `main.py:49` says that the shutdown stops consumer and producer; a task
  cancelled in its error sleep ends `stop()` and the lifespan by
  `CancelledError` (`kafka_audit_consumer.py:62-65`, `StopCutShort`).
- `docs/runbooks/kafka_down.md:8` reads the status as the state of Kafka; after
  one error `kafka_connected` stays false (`kafka_audit_consumer.py:84`).
  `ConnectedMeansReading` is the direction that holds.
- `design/coupon_authority_core.md:32` asks for near real-time revocation; an
  invalid answer does not remove the coupon from the gateway's offline cache
  (`plugins/verify.py:125-126`, `Invalid`).
- `sdk/disc_sdk/client.py:217-219` returns a cached coupon if the authority is
  unreachable and the coupon still valid; line 243 catches every exception, also
  one of the storage, and the entry's life counts from the receipt of the answer
  (`Failed`, `Unsaved`, `Issued`).
- `README.md:174` posts to `/v1/delegations`, the route is `/delegation`
  (`endpoints.py:291`); `README.md:205` and `:292` say that OPA lets a delegate
  pass, `main.rego` does not read delegations.
- `docs/DEVELOPER_ONBOARDING.md:89` keeps a verdict until the token expires; an
  entry lives at least one second (`client.py:291`, `Verified`).
- `docs/key_rotation.md:14` asks verifiers to trust two keys; `_local_verify`
  knows one (`client.py:179-186`, `LocalKey`).
- `sdk/disc_sdk/storage.py:63` says that writes are atomic; two processes share
  one temporary file (lines 85-87), and one may publish what the other has just
  truncated (`OpenTmp`, `Replace`): the cache is then empty, but never wrong
  (`OutcomesExplained`).
- A search limit of 0 lists the whole timeline without filters (`zrevrange` to
  -1) and nothing with them (`Ranged`, `Sliced`); the limit of a filtered search
  is applied before dead ids are dropped (`FindFiltered`).
- The Admin UI sends an offset and filters that `/audit-events` does not read,
  and takes `total`, the length of the page, for the number of matches.

## 7. Plan

1. Done: the modules above, and a theorem for every safety and action property
   of the passing runs.
2. A model to add, if it can be kept small: `AuditIndex` composed into
   `AuditPipeline` in place of the set `index`.
