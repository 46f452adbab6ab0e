# Verification of the Cyber Threat Intelligence Platform

TLA+ models of the server in `src/app`, checked with TLC on small instances, and
theorems about them checked with TLAPS for every value of the constants. Paths
below are relative to the repository (`app/...` is `src/app/...` here).

- [The system](#the-system): parts, state, operations, interaction, what is hard
- [Modules](#modules): what each models, and how it corresponds to the code
- [Runs](#runs): what TLC checks, the bounds, why they are enough
- [Fairness](#fairness)
- [Theorems](#theorems): what is proved, from what, along which argument
- [Findings](#findings): where code and documentation disagree
- [Not modelled](#not-modelled), [Plan](#plan)

To repeat a check: `tlc -workers 4 -config MCIngestSame.cfg MCIocIngest` (module
and configuration of every run are in `PROJECT.json`); `tlapm IocIngestProofs.tla`.

## The system

A FastAPI application (one event loop per process, several processes or
replicas), a Celery worker for scheduled collection, PostgreSQL, and Redis for
what replicas share. A request gets one SQLAlchemy session, hence one READ
COMMITTED transaction, which is committed when the request is over
(`app/database/session.py`); a Celery task does the same in `app/workers/tasks.py`.

| Part | State it keeps | Operations | Talks to |
|---|---|---|---|
| Indicator ingestion `services/ioc_service.py` | tables `iocs`, `enrichments`, `audit_logs` | create, re-enrich, bulk import, collector import | enrichment, scoring, correlation, alerts |
| Alert rules and alerts `services/alert_service.py` | tables `alert_rules`, `alerts` | create/delete rule, evaluate, deliver, acknowledge | webhook, event bus |
| Live stream `core/events.py`, `api/v1/stream.py` | a bounded queue per subscriber, in process | publish, subscribe, heartbeat | alerts, SSE clients |
| Circuit breaker and retry `core/resilience.py`, `collectors/http.py` | closed/open/half-open, failures, probe flag, per provider and process | call, record success/failure | provider, sample fallback |
| User administration, API keys `services/auth_service.py`, `api/deps.py` | tables `users`, `api_keys`, `audit_logs` | set role, enable/disable, mint/revoke key, authorise, bootstrap script | every protected endpoint |
| Login sessions `services/auth_service.py`, `security/tokens.py`, `security/token_store.py` | revoked token ids with expiry (Redis or process) | register, login, refresh, logout | throttle, audit |
| Login throttle `security/throttle.py` | failure counters with expiry (Redis, process as fallback) | check, count, clear | login |
| Rate limiter `api/middleware.py` | window per client, in process | admit, refuse, evict | every request |
| Scheduled work `workers/` | the task queue | collect, clean up, redelivery | collectors, ingestion |
| Collectors `collectors/` | none | build, collect (live or samples) | breaker |
| Enrichment `enrichment/` | none | enrich, derive signals | DNS, HTTP behind the SSRF guard |
| Scoring `scoring/engine.py` | none | score and explain | ingestion |
| Correlation `services/correlation_service.py`, `correlation/graph.py` | table `correlation_edges` | upsert edge, neighbours, pivots, chains | ingestion |
| Recognition `ioc/`, SSRF guard `core/ssrf.py`, RBAC `security/rbac.py` | none | pure functions | everything above |
| Sharing `sharing/`, reports `services/report_service.py` | none | select, export as STIX, MISP, CSV, HTML, PDF | tables `iocs`; STIX comes back through imports |

### What is hard, and what would be correct

- **Ingestion.** `upsert` awaits the enrichers, reads the row, computes, and
  writes the value it read plus one; between any two statements another
  transaction may commit. The ORM sends only the columns that differ from the
  copy it holds. A batch wraps items in SAVEPOINTs, keeps the row locks of every
  item to its end and can deadlock with another batch. Correct: what is stored
  is accounted for (sightings, audit log, reports to the user), a failed item
  leaves nothing, the explanation of a score is of that score, requests end.
- **Alerts.** Evaluated inside the ingesting transaction, published before it
  commits; rules come and go meanwhile. Correct: no stored alert was withheld
  from the live feed, nothing was announced that is not either stored or reported
  as failed, no matching rule is skipped.
- **Live stream.** A publisher may never wait; a client may read slowly, time out
  at the very moment an event arrives, or leave. Correct: bounded memory, order,
  no loss but of the oldest, no starvation.
- **Breaker.** Admission and report are separated by a network call, so reports
  come late and out of order. Correct: the fields agree, a half-open circuit has
  somebody who will report, a recovered provider is used again.
- **Administration.** The last administrator must survive concurrent demotions,
  and the audit log must tell who lost access. Roles are copied into API keys.
- **Sessions.** A token lives on its own; its end is a key in Redis that lives
  for a computed time. Correct: what a client was told has ended stays ended, a
  disabled account gets nothing, a refresh token is used once.
- **Throttle.** Failures are counted in Redis, by several commands, and in every
  process, by none; either may fail between two commands. Correct: guessing stays
  limited whatever fails, and no lockout is for ever.

- **Rate limit.** Buckets are trimmed on each request and dropped by sweeps; who a
  caller is depends on headers it may forge. Correct: no caller gets more than
  the limit in any window, the table does not grow for ever, `Retry-After` is
  worth obeying.
- **Catalogue.** An indicator passes recognition, enrichment, scoring and
  correlation, and comes out through searches, graphs and exports, each with its
  own idea of spelling, order and limits. Correct: what goes in under any
  spelling meets in one row and one node, what comes out reads back in, a score
  has a reason, and look-ups stay inside the policy of the operator.

The complete list of hazards, each at its line and with the properties that
address it, is in `PROJECT.json`.

## Modules

| Module | Models | Used by |
|---|---|---|
| `IocIngest` | ingestion, alert rules and alerts, unit of work; implements `Intake` | `MCIocIngest`, `IocIngestProofs` |
| `Intake` | abstract: what ingestion promises, whatever overlaps or fails | `IocIngest` |
| `AlertFeed` | abstract: what the live stream promises a client | `EventBus` |
| `EventBus` | event bus and SSE streams; implements `AlertFeed` | `EventBusProofs` |
| `CircuitBreaker` | breaker, retry loop, fallback to samples | `CircuitBreakerProofs` |
| `AdminAccounts` | user administration, API keys, authorisation | `MCAdminAccounts`, `AdminAccountsProofs` |
| `AuthSessions` | tokens, revocation store, bearer check | `MCAuthSessions`, `AuthSessionsProofs` |
| `LoginThrottle` | lockout of an identity, Redis and fallback | `LoginThrottleProofs` |
| `RateLimiter` | sliding window, sweep, client address | `MCRateLimiter`, `RateLimiterProofs` |
| `Recognition` | classification and extraction of indicators | `Enrichment`, `Sharing` |
| `Enrichment` | enrichers and the SSRF guard | `Catalogue` |
| `Scoring` | signals, score, level | `Catalogue` |
| `ThreatGraph` | edges, neighbours, pivots, attack chains | `Catalogue` |
| `Collectors` | gating, normalisation, samples | `Catalogue` |
| `Sharing` | STIX and MISP | `Catalogue` |
| `Catalogue` | the pipeline: composes the six above | `MCCatalogue`, `CatalogueProofs` |

`MC...` modules hold the values of constants for TLC, `...Proofs` modules the
theorems. Operators named "mutant of" in a comment are variants of a definition
with a plausible mistake in it; no specification uses them. `PROJECT.json` names
for each property one of them that violates it.

### IocIngest

A request is one transaction. Its step ends where another transaction can
interfere: at an SQL statement or at an await of something external.

| Code | Model |
|---|---|
| `iocs` row with its `engine` enrichment record | `ioc[v]`: sightings, score, explained score |
| `audit_logs` entries of `upsert` | `audits[v]`, a count per indicator |
| uncommitted changes of a session | `tx[r]`, and `mark[r]` at the last SAVEPOINT |
| identity map of the session | `loaded[r]` |
| `upsert`: enrich, SELECT, `selectin` SELECT | `Read`, `LoadEngine` |
| INSERT / unique violation | `Insert` / `InsertConflict` |
| UPDATE of changed columns, engine record | `Update` |
| row lock wait, PostgreSQL deadlock detection | guards with `Lockers`, `DeadlockVictim` |
| `_auto_correlate`, audit entry | `Correlate`, `EdgeConflict` |
| `evaluate_ioc`, `_deliver`, `_publish` | `ActiveRules`, `RaiseAlert`, `RuleGone`, `Deliver` |
| `begin_nested` loop of the batches | `Release`, `ItemFails`, `Advance` |
| `get_session` after its `yield`, `_run` | `Respond`, `Commit`, `RolledBack`, `Crash` |
| POST/DELETE of a rule, `ON DELETE SET NULL` | `CreateRule`, `DeleteRule` |

Scores are any of a set, since enrichment and age may change them at will; which
columns an UPDATE carries depends on the values, as in the code. `Respond` comes
before `Commit` because FastAPI (the version the project requires) resumes a
dependency after its `yield` when the response has been sent. The identity map
is why re-enrichment works on the copy that the endpoint read before the
enrichers ran, and why an item of a batch sees its own earlier item.

Abstracted: derived columns (level, confidence, tags, timestamps), the payload
of enrichment, the text of audit entries; edges, except that a concurrent manual
edge makes an item fail; webhook outcomes, which the code treats alike.

`Intake` says what all this amounts to, without savepoints, locks, copies or
rules: a request pushes alerts while it is under way (`Push`) and then ends, once,
having taken in the items at some of its places (`Take`). That one step adds an
audit entry for each of them, counts an indicator at least as often as the request
took it in and at most as often as the log has it (sightings of *others* may be
lost, its own may not), stores exactly the alerts that were pushed for these items,
and leaves every other indicator as it was. The request's report is the same
set of items. `Promise` in `IocIngest` is the refinement mapping: `ended` are the
requests that are committed or rolled back, `reported` the items reported as imported
by committed ones, `logged` is `audits`, `counted` the sightings of the stored
rows, `pushed` the live feed, and `kept` the alerts stored, with or without their rule.
A commit is a `Take` of the imported items, any other end a `Take` of none, a
delivery a `Push`; every other step is invisible.

### EventBus and AlertFeed

A stream is a coroutine: `loop` (before `queue.get`), `waiting` (in it),
`sending` (writing a frame). `Publish` is one step, since `publish` has no
await. `Heartbeat` may come after an offer has woken the getter, the case in
which `asyncio.wait_for` cancels a `get` that was about to return: the event
stays in the queue. `AlertFeed` says the same of any implementation, without
queues: events in order, at most once, and none skipped that did not have
`Capacity` newer ones. `FeedSpec` maps `joined` to the subscribed streams and
`seen` to the event last taken.

### CircuitBreaker

`state`, `failures`, `probe` are the fields; `since` is the clock minus
`_opened_at`. A caller is `calling` (wants the lock), `request` (in `_do` with
its retries), `result` (has an outcome to report under the lock). `fresh` is a
history variable: admitted callers whose report will find the breaker in the
phase that admitted them. Calls are not cancelled in the model: no code of the
application cancels them; a cancellation passes `except Exception` in `call`
unreported, and the only source of one is the shutdown of the process, which
takes the breaker with it.

### AdminAccounts

A slot serves one request after another with a transaction of its own. `Bearer`
and `ApiKey` are `get_current_principal` with `require`; `Owner` is the second
query of a key; `Read` the lookup of the target and the checks without a query;
`Count`/`RefuseLast` the query of the last-admin rule; `Write` the flush, which
locks rows; `Commit` the end. `told` is the change that the newest entry of
the audit log records, so that a loss can be compared with it; `overlapped` says
that another transaction committed while a request was served. `Script` is the
branch of `app/scripts/create_admin.py` for an existing account. A key's
`last_used_at` locks the key's row until the request ends, which makes requests
with one key take turns and lets keys that revoke each other deadlock.

### AuthSessions

A request is a `login` (from the point where the password was right), a
`refresh`, a `logout` or a `call` with a bearer token. Its steps are what the code
does between two awaits:

| Code | Model |
|---|---|
| `decode` of the token that came | guard of `StartRefresh`, `StartLogout`, `Call`; `Valid` |
| `is_revoked` (Redis `EXISTS`) | `Check` |
| `users.get`, `is_active`; `_remaining_ttl` | `Account`, `Ttl` |
| `revoke` (Redis `SET ... EX`) | `Revoke`, `RevokeAccess`, `SetRevoked` |
| second half of `logout` | `DecodeAccess`, `RevokeAccess` |
| `issue_pair` | `Issue` |
| the response | `Reply` |
| a query or command raises, the process dies | `Fails` |
| `set_user_active` by an administrator | `SetActive` |

`left` and `revoked` are what remains of a token and of its revocation, in ticks
that divide a second: `exp` is cut to the full second, `_remaining_ttl` cuts what
is left of it to whole seconds again (and makes it one second at least), so a
revocation may end before its token does, by less than a second.
An identifier that nothing refers to any more is used again, which is what makes
the model finite; the code draws random UUIDs. The clocks of Redis and of the API
are taken to agree. The in-process store of a development setup behaves the
same without failures. History variables: `ended` (tokens whose end a client
has been told), and of a request `late`, `last` and `off`.

### LoginThrottle

A request is one `authenticate`. `Exists`, `Incr`, `Expire`, `SetLock` and
`Delete` are the Redis commands; the step after a command depends on its reply
only. `AskLocal`, `VerifyWrong` and `VerifyRight` include the calls of the
in-process fallback, which never waits. `CommandFails` is a command that raises,
with or without its effect, and the `except` branch after it. `Restart` kills a
replica with its requests and its memory. The Redis counter stops at
`MaxAttempts`, since the code compares it with 1 and with `MaxAttempts` only;
the fallback's counter is not capped. `checked` counts verified wrong passwords, and
starts again where the code means to forgive: a success, the end of a lock, the
end of a counter.

### RateLimiter

`dispatch` awaits nothing between reading the clock and passing the request on, so
a request is one step, `Admit` or `Refuse`. `hits` are the deques, `known` the
keys of the dictionary (a refused request creates one too, and only admitted
requests sweep), `lastSweep` starts at zero while the monotonic clock (`Boot`)
does not. A request is sent by a caller, with any header of `Forged`, along any
chain of `Paths`: `HeaderOf` is what nginx's `$proxy_add_x_forwarded_for` and
proxies like it make of the header (`deploy/nginx.conf`), `ClientIp` what
`app/api/client_ip.py` reads from it. Time is counted in ticks, `Second` of them
to a second, because `Retry-After` is cut to full seconds. History: `log`, when a
caller was admitted; `heard`, when it last asked; `due`, when it should succeed
according to the first `Retry-After` it was given. A limit of zero, which the
settings allow, refuses everybody (`Retry-After: 60`). One process is modelled,
as the code limits per process and says so; the two exempt paths touch nothing.

### Catalogue and the modules it composes

`IocIngest` shows how requests interleave and takes what they compute for any of a
set; `Catalogue` takes requests one after the other and models what they compute.

| Code | Model |
|---|---|
| `classify_indicator`, `refang` | `Classify`, `Refang` (`Recognition`) |
| `extract_indicators` and the three extractors | `Extract`, `ExtractText`, `ExtractCsv`, `ExtractStix` |
| `SSRFGuard`, the enrichers, `EnrichmentEngine` | `Admits`, `Validates`, `Resolved`, `Enrich` (`Enrichment`), `SignalsFrom` |
| `compute_threat_score` | `Contribution`, `Score`, `Level` (`Scoring`) |
| `upsert_edge`, `ThreatGraph` | `UpsertEdges`, `Neighbors`, `Pivot`, `AttackChains` (`ThreatGraph`) |
| `OfflineFirstCollector`, `_collect_live` | `IsLive`, `Normalised`, `Collect` (`Collectors`) |
| `to_stix_bundle`, `to_misp_event` | `StixBundle`, `MispEvent` (`Sharing`) |
| `upsert`, `_auto_correlate` | `Upsert`, `Scored`, `Correlated` (`Catalogue`) |
| the endpoints | `Submit`, `Rerun`, `Import`, `RunCollector`, `Relate`, `Listings` |

A string is a member of the constant set `Word`; what regular expressions and
string methods say of it are functions on `Word` (its `Format`, lower case, the host of
a URL, what a pattern finds in it). What the code does with these answers is
defined, and that is where it can go wrong: which test comes first, what is
lower-cased, where a limit cuts, what is a duplicate. Signals are counted in
700ths and confidences in fifths, of which the code's numbers are multiples,
except two whose exponential and logarithm are tables (`Decay`, `Growth`), known
only to be monotone. A resolver may answer anything, failure included, and
differently each time. `by` of a row is a history field: what its score was
computed from. `posted` holds the addresses the guard had vetted when a webhook was
sent; that `httpx` resolves the name again is outside the model, as
`app/core/ssrf.py:14` says of the code.

Simplified: a token or cell holds one match, a sum is rounded exactly (floats may
differ in a tie), URLs have a host, ages are whole days, a search filters by score
only, a bundle holds no objects of other tools. Rows of equal score are listed in any
order (the code's second key is a timestamp the model does not have), so `Listings`
is a set, and what is said of exports is said of each of its members.

## Runs

| Run | Instance | Shows |
|---|---|---|
| `ingest_same_indicator` | two submissions and a re-enrichment of one indicator, a rule, two scores; 67 602 states | `SightingsAreAudited`, `ExplainedUnlessLost`, `EveryImportIsEvaluated` |
| `ingest_crossed_batches` | an import and a collector task with two indicators in opposite orders, the feed repeats one, two rules; 243 672 states | `IntakeSpec`, `PhantomsAreRolledBack`, `RequestsEnd` |
| `breaker` | three callers, threshold 2, two attempts | `FieldsAgree`, `ProbeIsOutstanding`, `HalfOpenEnds`, `CollectEnds`, `Recovers` |
| `bus` | two clients, queues of two, five events | `QueueHoldsNewest`, `FeedSpec`, `ClientsCatchUp` |
| `admin_race` | two slots, two accounts, two roles, one key, symmetric; about 1.7 million states | `LastAdminFallsOnlyToOverlap`, `LossIsAudited` |
| `admin_liveness` | two slots, one account, two keys | `RequestsEnd` |
| `sessions` | two requests, one access and two refresh tokens, lives of 1 and 2 seconds of two ticks, symmetric; 2 million states | `EndedIsRefused`, `DisabledIsRefused` |
| `throttle` | two logins, two replicas, two attempts, lockout of two ticks, one fault; 512 930 states | `ReplicaStaysLimited`, `FleetStaysLimited`, `CountersExpire`, `OwnerGetsIn` |
| `rate_limit` | two callers, a proxy that may stand twice in the way, forged headers, limit 2, window of two seconds of two ticks; 85 506 states | `TypeOK`, `RateIsBounded`, `MemoryIsBounded`, `PatienceIsRewarded` |
| `catalogue` | three requests of any kind, 29 words, three configurations, good and bad answers of resolvers; 38 259 states | `NoneIsCritical`, `ScoreFallsForAReason`, `ContactsAreAllowed`, `UrlsMeetTheirHosts`, `ExportsComeBack`, `GraphViewsAgree`, `RerunKeepsItsRow` |
| `admin_last_admin_race`, `refresh_twice` | the smallest instances that show it | a statement of the documentation that the code violates, see [Findings](#findings) |

Why the bounds are enough to be interesting:

- Two writers and a stale re-enrichment of one row are every kind of overlap
  that `upsert` distinguishes: insert against insert, update against update,
  stale copy against both. Two scores are needed for an explanation to be wrong.
- A lock circle needs two indicators and two batches; the repeated indicator
  makes an item meet its own earlier write, in a batch that may fail in between.
  Two rules, one that always matches and one with a threshold, let a rule be
  deleted while another alert of the same item is pending.
- Three callers allow a late success, a late failure and a probe at one time;
  threshold 2 separates counting from tripping, two attempts retrying from
  giving up.
- A client of the bus can fall three events behind a queue of two, and another
  one can connect in between.
- Two administrators who act on each other are the smallest race for the last
  one; one key lets either act with a role that is out of date. More slots add
  only further requests that overlap, which the theorems cover.

- Two requests and two refresh tokens let a token be used again while it is being
  ended, and a second pair exist beside the first. Two ticks to a second are
  the coarsest clock on which rounding shows; the last second, in which a
  revoked token may pass, is reached.
- Two logins on two replicas overlap in every pair of steps. With two attempts
  one failure counts and the next one locks; a lockout of two ticks can end
  between two steps of a request. One fault is a command without effect, a lost
  answer, or a restart; the theorems have any number.

- Two callers share a proxy and forge each other's address; up to nine ticks
  after a start at two are three windows, so that buckets are trimmed, dropped by
  a sweep and begun again, and a refused caller comes back.
- Three requests let a URL, its host and a change of either follow each other in
  any order, and fit a day passing in between (`MaxAge` = 1); the theorems have any
  number. The words are one name in three spellings, URLs to it with a
  quote and a backslash, a URL and an IPv6 zone in which `refang` finds
  something again after the first time, addresses with ports, an IPv6 address in two cases, and one indicator of every kind that is treated differently; feeds have entries
  without a value inside and outside their limit.

All counters are bounded by the instance (items of a request, events of a run,
`Threshold`, `Recovery`, `MaxFaults`, `MaxTime`, `MaxRequests`, `MaxAge`, the lives of
tokens), so no state constraint is used. Deadlock is checked in every run but
`catalogue`, which ends after `MaxRequests`: `Quiescent` is the explicit end of
`IocIngest`.

## Fairness

- `IocIngest`: weak fairness of each request that has begun. The event loop and
  the worker run what is ready; outbound calls have timeouts; PostgreSQL breaks
  lock circles, and an uncircular lock wait ends with the holder. Nobody has to
  send a request, create a rule or crash.
- `EventBus`: weak fairness of a connected stream. Publishing is not fair.
- `CircuitBreaker`: weak fairness of started calls and of the clock. Nobody has
  to run the collector and the provider need not recover: `Recovers` assumes
  both in its premise.
- `AdminAccounts`: strong fairness of a request in progress. Requests that use
  one key queue for its row lock; PostgreSQL serves a row's waiters in order,
  so one that is admitted again and again gets its turn. Weak fairness would
  let it be overtaken for ever by later requests.
- `LoginThrottle`: weak fairness of every request's next step and of the clock.
  Faults are bounded by `MaxFaults`, and nobody has to log in: `OwnerGetsIn` has in
  its premise that in the end only the owner does, again and again.
- `AuthSessions`, `RateLimiter`, `Catalogue`: none, their properties are safety.

## Theorems

For every set of requests, indicators, rules, scores, callers, clients, accounts
and keys, every threshold, limit and queue size, and every table of words, feeds,
answers and decay:

| Module | Theorem | Says |
|---|---|---|
| `IocIngestProofs` | `TypeCorrect` | types; a batch never works past its last item |
| | `SightingsCovered` | `SightingsAreAudited` |
| | `ScoreExplained` | `ExplainedUnlessLost` |
| | `CommittedWerePublished`, `PhantomsRolledBack` | `CommittedAlertsWerePublished`, `PhantomsAreRolledBack` |
| | `ImportsEvaluated`, `AuditMatches` | `EveryImportIsEvaluated`, `AuditMatchesReport` |
| | `IngestIsIntake` | `IntakeSpec`, refinement of `Intake` |
| | `DisjointLosesNothing` | `EveryUpsertCounts`, if no two open requests submit the same indicator (`NoneShared`) |
| `CircuitBreakerProofs` | `TypeCorrect`, `BreakerFieldsAgree`, `OneProbeIsOutstanding` | `TypeOK`, `FieldsAgree`, `ProbeIsOutstanding` |
| `EventBusProofs` | `TypeCorrect`, `QueuesHoldNewest`, `BusIsFeed` | `TypeOK`, `QueueHoldsNewest`, refinement of `AlertFeed` |
| | `PromptGetsAll` | `PromptMissesNothing`: a client at most a queue behind gets exactly the next event |
| `AdminAccountsProofs` | `TypeCorrect`, `LastAdminProtected`, `LossesAudited` | `TypeOK`, `LastAdminFallsOnlyToOverlap`, `LossIsAudited` |
| | `SerialAdminRemains` | with requests one after the other an administrator remains |
| `AuthSessionsProofs` | `TypeCorrect`, `EndedStaysRefused`, `DisabledStaysRefused` | `TypeOK`, `EndedIsRefused`, `DisabledIsRefused` |
| | `SpentStaysRefused` | `SpentIsRefused`: nobody passes the check with a refresh token another request holds a pair for |
| `LoginThrottleProofs` | `TypeCorrect`, `ReplicaIsLimited`, `FleetIsLimited`, `CountersDoExpire` | `TypeOK`, `ReplicaStaysLimited`, `FleetStaysLimited`, `CountersExpire` |
| `RateLimiterProofs` | `RateTypeCorrect`, `RateBounded`, `MemoryBounded`, `PatienceRewarded` | `TypeOK`, `RateIsBounded`, `MemoryIsBounded`, `PatienceIsRewarded` |
| `CatalogueProofs` | `RowsExplained` | every row is that of its last submission |
| | `NoneRatedCritical`, `ScoresFallForAReason` | `NoneIsCritical`, `ScoreFallsForAReason` |
| | `ContactsAllowed`, `UrlsMeet` | `ContactsAreAllowed`, `UrlsMeetTheirHosts` |
| | `CatalogueTyped`, `ViewsAgree`, `ExportsReturn` | `TypeOK`, `GraphViewsAgree`, `ExportsComeBack` |
| | `RerunStaysOnRow` | `RerunKeepsItsRow` |

The assumptions are those the modules name (`IngestAssumption`,
`BreakerAssumption`, `BusAssumption`, `AdminAssumption`, `SessionAssumption`,
`ThrottleAssumption`, `RateAssumption`, and for the catalogue one per module):
types of the constants, positive bounds, distinct NULLs, a finite set of
concurrent logins. Of words (`SpellingAssumption`) it is assumed that a normal form
is recognised as what it is the normal form of and is its own normal form, that an
IPv4 address has one spelling, and that `refang`, having been over a word, finds
nothing more in its normal form, URLs and IPv6 addresses aside (`Loose`): what it puts
in for `hxxp` and `fxp` makes no new one, and the regular expressions of the other
formats admit no bracket, blank or backslash, which its other tokens have;
of `Decay` and `Growth` that they are monotone. `CatalogueAssumption` is about
what comes from outside: documents, feeds and postings are well formed, limits are
positive, a resolver's answer is finite. TLC evaluates all of them on the instances.

- **Ingestion.** What is stored says too little about what is still on its way,
  so the invariant `Ledger` speaks of every copy of a row. With `n` the audit
  entries a transaction sees (committed ones and its own), a row is `Good` for
  `n` if it counts between 1 and `n` sightings and, should it count all `n`,
  its score is the explained one. Committed rows are good for the committed
  entries; uncommitted rows and those at a SAVEPOINT for these plus their own,
  of which there is at least one; a loaded row is good, and if it counts all `n`
  it is still the visible one. An UPDATE from a copy that misses a sighting makes
  a row that misses one too, whose explanation may be wrong; from a copy that
  misses none, columns that are not sent have the same value anyway. A commit
  only raises the others' `n`, and strictly where it changes a row. Row locks
  are not used: the argument would survive their removal. `LoadedExists` and
  `EngineOfLoaded` complete the types (what was loaded is not deleted).
- **Alerts and reports.** `AlertInv` adds to the types what a request has behind it.
  `Course`: which items are reported, and that the transaction is the one at the
  last SAVEPOINT wherever the code is between items. `Announced`: all alerts of a
  transaction are published, but for the one being delivered; those at the
  SAVEPOINT are of earlier items, so rolling back to it drops only alerts of an
  item that fails (`Kept`). `Heeded`: a rule active all along is raised
  for every imported item, and raised or still to be raised for the current one.
  `Reported`: the audit entries of a transaction are as many as its imported items,
  one more from the current item's entry on; a commit adds them to the log and a
  disjoint set of pairs to `Imported` (`Matches`), which stays finite.
- **Intake.** The mapping needs one fact that the invariants above lack, `OwnInv`: a
  row a transaction has written counts *at least* what the transaction itself adds
  to the log for it (`OwnCounted`; `Ledger` gives the upper bound), and its alerts
  are of items it reports (`AlertsReported`). It is inductive with them: an update
  starts from the visible row or from the transaction's own write, never from a copy
  older than its own, and an insert finds nothing of its own. With it `CommitTakes` shows
  that a commit is a `Take`, `NothingTaken` that every other end takes nothing,
  `DeliverPushes` the third visible step, and `RulesInvisible` that a deleted rule
  leaves the stored alerts what they were.
- **Lost sightings.** `DisjointLosesNothing` says where the lost update under
  Findings cannot happen. `SerialInv`: every copy of a row counts *all* audit entries
  its transaction sees (`FullyCounted`), and a transaction writes only what it submits
  (`Confined`). A commit raises those entries only for indicators that, by
  `NoneShared`, no other open request submits, hence none has loaded or written;
  crashes, rollbacks to a SAVEPOINT and a batch that repeats an indicator do no harm.
  Nothing in the code enforces `NoneShared`; without it TLC finds a lost sighting on
  the instance of `MCIngestSame.cfg`.
- **Breaker.** Types together with both properties are inductive.
- **Bus.** `QueueHoldsNewest` with the types is inductive; it determines the
  head of a queue, hence which event `Take` maps to in `AlertFeed`. `HandInv` relates
  the event in hand to what was received; with it the next write is the next event as
  long as nothing was dropped, which takes a backlog of more than `QueueSize`.
- **Administration.** `CheckedInvariant`: a request that removes an
  administrator and has passed the count either saw another one, and nothing has
  been committed since, or is marked overlapped. Audit: the entry is part of the
  step that changes the row.

- **Sessions.** `SessionInv`: a token whose end was acknowledged is `Covers`ed, that
  is, its revocation lacks less than a second of its life; and what a request
  carries is `Good`: the time it has computed is long enough for its token even
  though the clock runs on before the revocation arrives, and what it has revoked
  is covered. Time takes the same from both sides; a later revocation of the same
  token is again long enough. A request that came late therefore finds the
  key in `Check`, or less than a second left. For disabled accounts `OffInv` adds
  that a refresh which is about to revoke has seen the account enabled.
  `SpentStaysRefused` follows from `Covers` too: a request that holds a pair has
  revoked its token, so whoever passes the check later finds less than a second
  left. But for that second, the race of `refresh_twice` is therefore the only way to
  two pairs: both requests ask before either has revoked.
- **Throttle.** `ReplicaInv`: once a replica's count has reached the limit, count
  and requests past its check together stay within limit plus requests, for
  nobody else passes the check until the lockout ends and the count is cleared.
  `FleetInv` says the same of all replicas together, in three phases: below the
  limit what was verified is in the Redis counter or about to be counted
  (`Pending`); at the limit without a lock, a request that is not about to count
  or to lock may still verify one password (`Free`); under the lock only those
  past the check may (`Passed`).
- **Rate limit.** `ClientIsCaller`: walking the header from the right, past the
  trusted hops, ends at what the first trusted proxy wrote, hence at the caller.
  `Fits`: a bucket is the end of the caller's log, and what was dropped from it, hit by
  hit or by a sweep, lies more than a window back. So a full window is always in
  the bucket, and hits `Limit` apart are more than a window apart. The first
  `Retry-After` is an upper bound for the oldest hit, and hits only leave.
- **Catalogue.** `Explained`: a row's score is that of the signals made of its last
  submission and its sightings. Scores are sums of products with fixed
  weights, so an upper bound of each signal bounds the sum (84, since one source
  counts half and no ports are passed), and a sum falls only if a signal does; of those,
  sightings only grow and the indicator's own evidence does not depend on answers.
  `Outgoing`, `DnsPublic`: contacts and edges come through the guard. `LinksOK`: every
  stored URL has the edge to the node of its host; the node of a stored host is the
  row itself, by the spelling assumptions.

- **Catalogue, its types.** `Explained` bounds scores from above; types add that every
  signal lies between 0 and 1, so that a score is in 0..100, and that what is
  extracted, collected and normalised are sequences of postings. Extraction is made of
  functions defined by recursion and of the community modules' `FlattenSeq`, so the
  proofs first unfold such a definition once for all (`Recursion`: by the
  least-number principle, from the well-foundedness of the naturals, two functions
  that satisfy the same recursion agree) and then argue by least counterexample. That
  replaces the library's induction theorems, which take an operator as parameter.
- **Graph.** `ViewsAgree` holds of every set of edges, reachable or not: what a pivot
  reaches in n+1 rounds is what it reaches in n and its neighbours, hence grows, and the
  n-th node of a chain is reached by the n-th round.
- **Exports.** A listing has no repetitions, by the same induction; the literals of its
  bundle read back as its values (the premise), each is recognised as the indicator it was
  made from, since stored values are normal (an invariant), and therefore
  `Distinct` keeps all of them, in order, as they are at most `MaxIndicators`. In a
  MISP event distinct indicators stay distinct attributes or tags, which counts them.
- **Re-enrichment.** The stored value is classified as the indicator it was stored
  as, by the same invariant; so `Upsert` is of that row. The score then compares as in
  `ScoresFallForAReason`.

In no run are: `AuditMatchesReport` and `CommittedAlertsWerePublished`, which are what
`IntakeSpec`, which is run, says of `logged` and of `kept` (invariants of `Intake`);
the types of the catalogue, which only serve its other proofs; and four theorems that
bound a finding or a property that is run: `DisjointLosesNothing`, `SerialAdminRemains`
and `SpentStaysRefused` (when the known races cannot happen) and `PromptGetsAll`
(who never misses an event). TLC agreed with each on the instances before the proof.

Only model-checked: liveness under fairness (`RequestsEnd`, `HalfOpenEnds`,
`CollectEnds`, `Recovers`, `ClientsCatchUp`, `OwnerGetsIn`), which is beyond the
prover. Every other property of a passing run is a theorem. The two runs that
expect a violation have, of course, none.

## Findings

| Run | What the code does | What is said |
|---|---|---|
| `admin_last_admin_race` | two administrators can remove each other (`auth_service.py:162`) | `README.md:188` |
| `refresh_twice` | two overlapping refreshes of one token both get a pair (`auth_service.py:109`) | `docs/security.md:35`: one-time use |

Noted while modelling, without a run of their own:

- of two concurrent submissions one sighting may be lost (`ioc_service.py:87`;
  `models/ioc.py:43`: number of times seen/submitted); `SightingsAreAudited` says
  that the audit log still has both, `DisjointLosesNothing` that it takes two that
  overlap;
- an API key keeps the role of its minting when its owner's changes (`deps.py:150`;
  `docs/security.md:44`, `CHANGELOG.md:37`);
- after two concurrent upserts the stored score may be one request's and the
  explanation the other's (`ioc_service.py:125`); `ExplainedUnlessLost` says when;
- the response precedes the commit (`session.py:59`; `docs/architecture.md:84`
  has it the other way round);
- scheduled collection evaluates no alert rule (`tasks.py:59`; `README.md:48`: on
  every ingest); `new_ioc` rules match every upsert, re-sightings included
  (`alert_service.py:38`);
- with one active administrator a *disabled* administrator cannot be demoted
  (`auth_service.py:180`);
- the audit entry of a failed login is rolled back with it (`auth_service.py:91`,
  `session.py:55`);
- a Redis counter can be left without expiry by a fault (`throttle.py:142`;
  `CountersExpire` holds without faults), and a success on one replica leaves the
  fallback counters of the others (`throttle.py:152`); `OwnerGetsIn` shows that
  neither locks the owner out for ever;
- no indicator can be rated critical: 84 is the highest score an upsert can reach
  (`NoneIsCritical`), since it passes one source and no ports (`ioc_service.py:95`);
- a resubmission with a weaker source or without enrichment overwrites score and
  engine record, and re-enrichment uses source and confidence of the *first*
  submission (`ioc_service.py:299`); `ScoreFallsForAReason` lists all the ways;
- IPv6 addresses are kept as spelled, so two spellings make two rows and a URL is
  linked to the lower-case node only (`ioc_service.py:163` means them to meet);
  compressed ones are not found in text;
- `extract_from_text` yields indicators by pattern, then by place (`extract.py:106`:
  order of first appearance); a file name is a domain when submitted or in STIX,
  but dropped from text and CSV;
- STIX export doubles backslashes, import only unescapes quotes (`stix.py:49`),
  hence the exception in `ExportsComeBack`;
- `refang` is not idempotent: re-enriching a stored URL or IPv6 zone in which it still
  finds something (submitted as `...[(dot)]...`, stored as `...[.]...`) adds a second row
  and leaves the first as it was (`ioc_service.py:299`), and its export reads back as
  another indicator; hence
  the exception in `RerunKeepsItsRow` and `ExportsComeBack`;
- a collector run is reported live when samples were served after a failure
  (`api/v1/collectors.py:37`); an AbuseIPDB row without an address makes the
  whole feed fall back; an RSS title is offered as indicator and nearly always skipped;
- a refused request makes a bucket, and only admitted ones sweep
  (`middleware.py:79`); `Retry-After` may be a second short (`middleware.py:89`).

## Not modelled

- Account creation (`register`, the second branch of the script): one insert.
- The task queue: beat, redelivery and clean-up of the audit log. A redelivered
  collection is one more worker request of `IocIngest`; the code does not tell the
  two apart, so nothing can be said of it but that both are audited. Clean-up
  deletes old entries, while the models' audit log is that of recent days.
- Regular expressions, float arithmetic and string methods: tables and exact sums.
- Signatures, password hashes and random identifiers are taken to be sound.
- Acknowledging an alert: one column, no reader but the client. Threat actor
  profiles: rows nothing else reads.
- CSV, HTML and PDF reports, schemas, settings, logging, dashboard, migrations,
  deployment (but for the headers nginx sets): declarations, text and layout without
  control or state of their own; unit tests are the right tool.
- Performance, SQLite (used by the tests, it serialises writers), and failures
  of PostgreSQL other than a lost connection.

## Plan

Done, in this order: ingestion, bus, breaker, administration, sessions, throttle,
rate limiter, catalogue, and the proofs of each. What is left:

1. `ScheduledWork`: tasks with time limits, redelivery after `acks_late`, the reset
   of the breakers between tasks, and clean-up against a longer audit log.
2. Several indicators per token and overlapping patterns in `Recognition`.
3. `Catalogue` as an implementation of `Intake`, which `IocIngest` already is: an audit
   log in `Catalogue` would join the two views of ingestion.
