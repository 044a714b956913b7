# Verification of the crypto omnichain tracker API

TLA+ models of the API under `src/` of this repository (`src/src/` in the paths below, when
the repository is checked out as `src/`), the TLC configurations that check them, and TLAPS
proofs of the results that matter most. Comments in the modules name the code behaviour each
property is about; `PROJECT.json` maps every definition to the lines it models.

- [The system](#the-system): parts, state, operations, what is hard, what must hold
- [The modules](#the-modules): which models what, and how
- [The runs](#the-runs): what each checks, bounds, fairness, mutants
- [The proofs](#the-proofs): what holds for every value of the constants, and why
- [Where code and documents disagree](#where-code-and-documents-disagree)
- [Not modelled](#not-modelled) and [the plan](#the-plan)

## The system

One NestJS process (`docs/DEPLOYMENT.md:3`) answers lookups of blockchain transactions out of
two kinds of provider, caches what it finds in Redis, and keeps anonymous sessions, search
history and request logs in PostgreSQL. Node runs the code between two `await`s without
interruption, so everything that interleaves does so at an `await`: an action of a model is
what happens from one `await` to the next.

### Parts

| Part | State it keeps | Operations | Talks to |
|---|---|---|---|
| Transaction lookup, `transactions/transactions.service.ts` | `inFlightLookups` (executions by chain and hash), `refreshAfter` (cooldowns of manual refreshes) | `lookupTransaction`, `executeLookup`, `executeUtxoLookup`, `executeEvmLookup` | Redis, both providers, history, request log |
| Story generator, `transactions/story/` | none | coverage, decoding of logs, explanations | called by the lookup |
| EVM RPC provider, `providers/rpc/evm-rpc.{service,client}.ts` | set of verified chains | `enrichTransaction`, `createBaseTransaction` | RPC nodes, metadata cache |
| Token metadata cache, `providers/rpc/token-metadata.cache.ts` | LRU `Map` with expiry, `inFlight` fetches | `get`, `set`, `deduplicate` | the RPC client |
| Blockchair provider, `providers/blockchair/` | none | transaction, batch and per-chain statistics, normalisation | Blockchair |
| Redis client, `cache/cache.service.ts` | connection flag | `get`, `set`, `del`, `ping`; every failure is swallowed | Redis |
| Sessions, `sessions/` | rows of `user_sessions`; a signed cookie in the browser | create, validate, touch; the middleware | PostgreSQL |
| Search history, `history/` | rows of `search_histories` | record, list | PostgreSQL |
| Retention script, `scripts/cleanup.cjs` | none | reads three batches, deletes in one transaction | PostgreSQL |
| Network overview, `overview/` | `inFlight`, `lastValid`, `retryAt`, `limited` | `getOverview`, `refresh`, `merge`, `present` | Redis, Blockchair |
| Health, `health/` | `inFlight` | `getReadyStatus` | PostgreSQL, Redis |

They interact by shared promises (callers of one key await one execution; lookups that mention
one token await one fetch; overview and health share theirs), by shared objects (the partial
enrichment that the deadline hands out while steps are still filling it), by abort signals
(one per enrichment, carried into fetches that other lookups may be awaiting), by the cache
(one call writes what another, or a later process, reads), and by rows (the script deletes
what requests are renewing).

### What is hard

The list with its lines is in `PROJECT.json` under `hazards`. In short:

- joining, refusing and starting executions while others settle, and who is told what;
- the cooldown map, bounded by a size test and shrunk only when somebody refreshes;
- a second read of the cache, then a write, with an `await` and a swallowed failure between;
- answers cached for longer than their contents deserve (pending, low-confirmation, degraded);
- an enrichment that is cut at its deadline while its steps go on, one of them a fetch that
  another lookup is waiting for under the first one's abort signal;
- two providers that disagree, or of which one or neither answers;
- an LRU that must neither outgrow its limit nor evict for a key it already holds;
- a session whose expiry is read with one query and written back with another, while the
  retention script deletes what it read as expired some time before;
- values that several refreshes carry on, in two places that may hold different envelopes, each
  value under an age of its own;
- a provider that reports its quota now in a status and now in the body of a success;
- a flag beside the state of a connection, both of which outlive what they speak of;
- a restart: memory is gone and Redis stays.

### What makes each part correct

- *Lookup.* One execution per transaction at any time; each caller gets the result of an
  execution for its own key that was under way when it called; nobody waits for ever;
  refreshes of one transaction are a cooldown apart and a refusal costs nothing; the cache
  holds nothing longer than its contents deserve; a refresh is not answered from what it was to
  replace; a receipt once cached is not lost for want of one.
- *Decisions.* A long life is corroborated, nothing is called complete with more missing than the
  name of a token, no provider's verdict is reported against the other's, a poorer answer never
  lives longer.
- *Enrichment.* The result is consistent in whatever order calls answer, fail or are cut; it
  keeps what was obtained, is not changed after it was handed out, and no work is started after
  the deadline.
- *Metadata.* Calls for one token share one fetch; the cache is bounded, holds a token once,
  forgets the least recently used first, and forgets failures early.
- *Sessions.* Expiry is earned by use and use keeps a session alive; active sessions are not
  deleted, nor is history with them; what is expired goes.
- *Providers.* "Not found" is told from a provider that failed, but for the forms of failure the
  code takes for an answer (see [below](#where-code-and-documents-disagree)); a
  status is only given of the transaction that was asked for; confirmations are never
  overestimated from a height that lags.
- *Overview.* Nothing older than 300 s is shown and nothing is shown as younger than it is; a
  failed or partial refresh gives up no value of the envelope it started from before its time;
  after a quota error a process does not ask for 60 s; every poll is answered.
- *Health and the Redis client.* A service out of reach is never called ready; every probe ends;
  Redis is used again after any losses; a shutdown is final.

## The modules

| Module | Models | Composition |
|---|---|---|
| `TransactionPolicy` | the pure decisions of a lookup: base transaction, reconciliation of statuses, coverage and its reasons, lifetime, monotonicity | extended by `TransactionLookup` and `EvmEnrichment` |
| `BlockchairProvider` | the pure part of the provider: what responses become, errors, status, confirmations, quota | composed with `TransactionPolicy` in `MCTransactionPolicy`; extended by `OverviewRefresh` |
| `SharedFlight` | *abstract*: work for a key is a flight; callers board it, are served its result, may be turned away; a crash loses all | implemented by `TransactionLookup` and `TokenMetadataCache` |
| `TransactionLookup` | the lookup service, from call to answer, with Redis, providers, clock and restarts | extends `TransactionPolicy`; `Flights == INSTANCE SharedFlight` |
| `TokenMetadataCache` | the metadata cache and its shared fetches | `Flights == INSTANCE SharedFlight` |
| `EvmEnrichment` | `enrichTransaction` and `performEnrichment` racing a deadline | extends `TransactionPolicy`; composed with the cache by `Metadata == INSTANCE TokenMetadataCache` |
| `SessionLifecycle` | sessions, cookies, history and the retention script | |
| `OverviewRefresh` | the overview, polled by many and refreshed by one, with Redis, provider, clock and restarts | extends `BlockchairProvider` |
| `Readiness` | the readiness probe and the connection of the Redis client it asks | |
| `MC...` | small instances for TLC; `MCTokenMetadataCache` adds a history variable for the order of use, `MCTransactionPolicy` takes responses of Blockchair through both pure modules | extend their module |
| `...Proofs` | theorems about `TransactionLookup`, `SharedFlight`, `TokenMetadataCache` (`MetadataProofs`), `EvmEnrichment` (`EnrichmentProofs`), `TransactionPolicy` with `BlockchairProvider` (`PolicyProofs`), `OverviewRefresh`, `Readiness`, `SessionLifecycle` | extend it, or its MC module where that has the history or the relation the theorem is about |

### State and code

**TransactionLookup.** A request is one call of `lookupTransaction`; an execution is named
after the request that started it, its *leader*. `inFlight` is `inFlightLookups`,
`refreshAfter` the map of the same name (0: no key), `redis` the entries and when they expire,
`phase` where a call is, `exec` the local variables of its execution. `Join`, `Refuse` and
`Lead` are the three ways through `lookupTransaction` up to its first `await`; `ReadCache`,
`AskUtxo`, `AskEvm`, `Recheck` and `WriteCache` are the steps of an execution; `Receive` and
`Answer` are what a caller does after its promise settles and after its two records are
written. `Settle` is the `finally` handler together with the settlement of the promise. A read
of Redis may return nothing whatever is there, and a write may be lost: `CacheService` swallows
every failure. `Tick` lets entries expire, `Restart` clears memory and keeps Redis.

**TransactionPolicy.** An answer of a provider is a record of what decisions read: receipt,
transaction (none, in the pool, of block `'0x0'`, mined), hash, block, status, failed and
unresolved metadata, unrecognised logs. Block `'0x0'` is a kind of its own because the code takes
it neither for a pool nor for a block. `RpcCall` is what the client makes of one call of the node:
a result, nothing, or an exception. Amounts,
addresses and wording are left out; blocks and hashes are members of small sets. `WellFormed`
states what every enrichment satisfies; `EvmEnrichment` shows that it does.

**TokenMetadataCache.** `cache` is the `Map` as a sequence in order of use; `Hit`, `Miss`,
`Land` and `Resume` are the segments of `deduplicate`; a fetch never throws, it degrades. Its
result is of one of five qualities: everything, a symbol but no decimals, blank (neither), some
call failed with the decimals known, or not even those.

**EvmEnrichment.** `run` holds the local variables of `performEnrichment`, `partial` the
object it fills, `outcome` and `returned` what the caller was given. `wire` is the set of RPC
calls without answer, so they end in any order. `Deadline` hands out a shallow copy: its map of
tokens is still shared with the running steps (`Given`), which is why `ResultFrozen` is worth
checking. A fetch of metadata runs under the signal of the lookup that started it: once that one
is over the fetch can only degrade, for everyone who shares it (`FetchEnds`). The instance of
the cache is driven by the enrichment's own actions (`AskForToken`, `FetchEnds`,
`FetchResumes`), and the calls of one batch start one after another with nothing between
(`Idle`). Left out: a receipt whose `gasUsed` is not a number.

**SessionLifecycle.** A session is named by the request it was issued to, a row of history by
the request that wrote it. `Validate`, `TouchRead`, `TouchWrite` and `Create` are one query
each; the answer of a write may be lost (the request fails, the row stays); the row may be gone
by the time it is updated (`QueryFails`). `at` is the time an expiry is computed from. The
cookie's life is counted by the browser from the arrival of the answer (`maxAge`). The script
reads history, reads sessions and deletes in one step each, may fail between them, and takes
any oldest batch. One transaction of PostgreSQL is one step: isolation inside it is the
database's.

**BlockchairProvider.** A response is its class of HTTP status, whether a 404 is a page of the
site, whether the request ran into its timeout, the code in its body and whether that has a
dictionary; a dashboard is where the requested hash is found, whether there is a sender, and what
its fields say of status and block. `EvmCode` and `UtxoCode` follow a request through the client
and the normalisation, `AsChairAnswer` and `AsUtxoAnswer` give `TransactionPolicy` its input.

**OverviewRefresh.** `lastValid` and `retryAt` are the fields of the same names; `refresh` is
`inFlight` with the local variables of `refresh`; `redis` is the envelope there. A value carries
the time the provider gave it (`seen`, which the code does not have: the properties compare the
code's `stamp` with it). A call of `getOverview` begins when Redis reads (`Poll`: a lost read
answers nothing) and resumes later (`Show`, `Join`, `Lead`), by which time everything may have
changed. `BatchAnswers`, `HoleAnswers` and `Saved` are the segments of `refresh` between its
awaits; `Conclude` is what both answers end with. All fields of a section are treated alike, so
a network has one set of fields. Blockchair answers with any part of the statistics. Two
simplifications: the order in which left-out networks are asked for is open, and an answer given
to several polls at once is shown in the same step. Two history variables watch the provider:
`quotaAt`, when it last reported a quota error, which no restart erases, and `forgotten`, whether
the process has been restarted since and lost the pause with `retryAt`.

**Readiness.** `status` is that of the ioredis client, `flag` is `isConnected`, `link` whether the
server at the other end is still there. The handlers of `connect`, `ready`, `error` and `close`
are part of the step in which the client changes its state. `check` is the check of
`HealthService` under way, with what is known of each service; `Answers` and `Fails` are the two
ways the race of `bounded` ends, and neither is bound to happen first.

## The runs

| Run | Question | Instance |
|---|---|---|
| `LookupSafety` | deduplication, cooldowns and receipts | 3 calls, 1 transaction of a chain with both providers, cooldown 2, clock to 3, 1 restart |
| `LookupProviders` | capacity of the cooldowns; what is cached, how long, and what is served from it; implements `SharedFlight`; every call is answered | 2 calls over an RPC-only and a UTXO transaction, room for one cooldown, 8 kinds of node answer, clock to 2, 1 restart, fairness |
| `PolicyDecisions` | error, status, coverage and lifetime of every response of Blockchair with every view of the node, and of every pair that differs by lost information | all responses and dashboards, all views of the node, two calls of any outcome where it has nothing, heights to 8 |
| `MetadataUse` | sharing, order of use, bounds and expiry of the metadata cache; implements `SharedFlight` | 4 calls over 3 tokens, room for 2, clock to 2, fairness |
| `EnrichmentSafety` | the result of an enrichment against its deadline | 2 enrichments sharing a token, one with two batches; every order of answers, failures and deadlines |
| `EnrichmentBatches` | the same for all kinds of receipts and sightings, three qualities of metadata, and termination | 1 enrichment, 3 tokens in batches of 2, clock to 2, fairness |
| `SessionRetention` | expiry, deletion and retention | 1 browser with a session, 2 more requests, life 5, queries up to 2, batches of 1, clock to 6, fairness |
| `OverviewSharing` | ages, failures, quota and answers of the overview | 2 clients, 2 networks with a value each, fresh for 1, kept for 2, pauses 2 and 3, clock from 1 to 4, any restarts, fairness |
| `ReadinessProbes` | verdicts, probes, reconnection and shutdown | 2 monitors, 8 counted attempts, fairness |
| `LookupPoorer`, `SessionHistory`, `ProviderQuota` | the disagreements below | as needed |

**Bounds, and why they are enough.** Three calls for one transaction are the least that let one
lead, one join and one come after the settlement; two keys are the least that let cooldowns
compete for room. Clocks are long enough for what the first steps write to expire: in
`LookupSafety`, `LookupProviders` and `OverviewSharing` it is gone at the last tick, in
`EnrichmentBatches` and the session runs one tick before. In `MetadataUse` only short-lived
metadata expires, which is what `CacheSound` is about there; `EnrichmentSafety` has no time.
Lifetimes that could be confused differ, in the lookup runs, `PolicyDecisions`, `MetadataUse` and
`OverviewSharing`. Two tokens in a first batch and a third in the next are the least with
concurrency inside a batch and order between batches; the run that shares a token has batches of
one so that sharing happens across batches. A session life of 5 with queries of up to 2 is the
least in which a request can validate a session, see it expire, and renew it after the script has
read it. Two networks are the least of which a batch can bring one and leave out the other; the
clock of the overview outlives a value that a second refresh carries on, and reaches the end of
the pause after a quota error of the first refresh; two clients let one of them hold an answer of
Redis while the other refreshes. Eight attempts are one more than the delay of the Redis client
grows over. The clocks, the restarts of the lookup, the attempts and the batches of the script are
the only bounds; each is a constant named where it is declared.

**Fairness.** Weak fairness of the steps of an execution and of resuming callers: every `await`
is bounded, Redis by its command timeout (`cache.service.ts`), Blockchair and RPC by HTTP
timeouts and the enrichment deadline, PostgreSQL by `query_timeout` (`prisma.service.ts`). The
same timers bound the RPC calls of a fetch and the queries of a session, the requests and the
write of a refresh of the overview, and, as the race of `bounded`, a probe; the Redis client's
own timers and events bring it from each of its states to the next. No fairness is assumed of
new calls, of restarts, of the clock, or of a service that answers. `ExpiredRemoved` also assumes
an operator who repeats the script, as `docs/DEPLOYMENT.md:114` says ("Repeat bounded batches
until no eligible records remain"), and a script that does not fail for ever (strong fairness of
its second and third steps).

**Mutants.** Each property of a passing run is broken, under the run's own configuration, by a
variant of a modelled definition that a slip in the code would produce: a map entry not removed,
a cooldown that slides, a lifetime that ignores failed metadata, a batch recorded after the
deadline, an expiry not looked at again. They stand beside the definitions they vary, and
`PROJECT.json` lists them.

## The proofs

TLAPS proves the following for any sets of requests, keys and answers, any cooldown, capacity
and lifetimes, any tokens, batches and size of the metadata cache, any networks, fields, clients
and ages of an overview, and with no bound on the clock or on restarts other than that they are
natural numbers. Every safety property a passing run checks is among them.

| Theorem | States | Module |
|---|---|---|
| `TypeCorrect`, `Deduplication`, `NobodyStranded` | types; one execution per key; nobody boards a settled flight or waits in vain | `TransactionLookupProofs` |
| `RefreshesSpaced`, `CooldownsEarned`, `CapacityRespected` | the cooldown of refreshes and the size of its map | `TransactionLookupProofs` |
| `LifetimesDeserved`, `HitsTrusted`, `RefreshesBypass`, `ReceiptsKept` | what the cache holds, for how long, what is served from it, what replaces what | `TransactionLookupProofs` |
| `ImplementsFlights` | `Spec => Flights!Spec` | `TransactionLookupProofs` |
| `NotFoundIsAlwaysKnown`, `LongLifeIsAlwaysCorroborated`, `OnlyNamesAreEverMissing`, `VerdictsAgree`, `PoorerLivesNoLonger` | what the decisions make of every response of Blockchair and every view of the node | `PolicyProofs` |
| `MetadataTyped`, `CacheStaysSound` | types; size, uniqueness and lives of cached metadata, and that nothing being fetched is in the cache | `MetadataProofs` |
| `FetchesAreShared` | `Spec => Flights!Spec` for the metadata cache | `MetadataProofs` |
| `LeastRecentGoesFirst` | order of eviction, told by a history of use | `MetadataProofs` |
| `EnrichmentTyped`, `ResultsStayWellFormed`, `NothingObtainedIsLost`, `MetadataIsWhole` | types, and what a result holds | `EnrichmentProofs` |
| `GivenIsFrozen`, `OverMeansOver` | what happens to a result, and what is asked for, after it was handed out | `EnrichmentProofs` |
| `ProbersAwaitACheck`, `PollersAwaitARefresh`, `CallersAwaitAFetch` | whoever waits does so for something under way | `ReadinessProofs`, `OverviewProofs`, `MetadataProofs` |
| `TokensCanBeAsked` | the loop over the batches of tokens never gets stuck and leaves no token | `EnrichmentProofs` |
| `ShutdownLasts` | a Redis client that was shut down never connects again | `ReadinessProofs` |
| `CacheUsedAsSpecified` | the enrichments use the cache as `TokenMetadataCache` says | `EnrichmentProofs` |
| `ServedByOwnFlight`, `BoardedInTime` | what `SharedFlight` promises: own results, and no boarding after the landing | `SharedFlightProofs` |
| `OverviewTyped`, `ShownAgesAreTrue`, `FailedRefreshKeeps`, `ProviderIsSpared` | types, ages, carried values, and the pause after quota errors in the life of a process | `OverviewProofs` |
| `VerdictsEarned` | readiness verdicts | `ReadinessProofs` |
| `SessionsTyped`, `SessionsEarnTheirLife`, `SessionsKeptInUse`, `ScriptSparesTheActive` | types, expiries, and what the script deletes | `SessionProofs` |

**Assumptions.** `LookupAssumption` (`NoOne` is no request, there are finitely many keys, the
cooldown and the capacity are positive, provider answers are well formed), `TTLAssumption` (full
and degraded lifetimes are positive: what the start-up validation and the defaults give) and
`BlocksAssumption`; for the metadata cache `MetadataAssumption` (room for one entry, a short life
no longer than the full one: 500 entries and 24 hours in `evm-rpc.constants.ts:10-11`, 60 seconds
in `token-metadata.cache.ts:46`) and for enrichments `EnrichmentAssumption`, which adds that
batches are not empty, that a receipt mentions each token once (`candidateTokens` is a `Set`,
`evm-rpc.service.ts:198`), that fetches come back with what the cache may hold, and that there is
a block to be mined in; for the responses of Blockchair
`HeightsAssumption` (block ids are integers, heights natural numbers); for the overview `OverviewAssumption` (its times are natural numbers, the two
ages positive); for sessions `SessionAssumption` (two query times are less than a lifetime). TLC
evaluates them on every run of a module that extends theirs. The theorems about `SharedFlight`
state what they assume: that "no caller" is no caller and "no result" no result. `Readiness`
assumes nothing. One theorem has a hypothesis of its own: `PoorerLivesNoLonger` needs
`TTLsRanked`, that the pending lifetime is at most the degraded and that at most the full one.
The defaults rank so (0, 60 and 3600 s, `cache.constants.ts`); `environment.ts:61-63` bounds each
of the three and does not compare them, so a deployment may configure lifetimes for which a
poorer answer lives longer.

**The arguments.** None of the properties is inductive alone.

- `FlightInv` adds to the types that every running execution is in the map under its own key
  (`Published`), that the map holds nothing else (`NoStaleFlight`) and that whoever waits is on
  an execution that runs or has settled. `Published` makes `Lead` start only where nothing
  runs; without it two executions could both be running and one be unknown to the map.
- `CooldownInv` adds `CooldownRemembered`: a refresh that was carried out is out of its
  cooldown, or the map still has an entry that ends no earlier. It needs `StartedInThePast`, so
  that a new refresh starts after the old ones, and `NewIsIdle`, so that a call that has not
  begun has no execution to lose. `Purged` must then be shown to drop only what has run out.
  `BoundInv` adds the size of the map, an argument about cardinalities that needs the keys to be
  finite.
- `CacheInv` follows a value from the providers to the caller: the lifetime an execution
  carries is the one its answer deserves (`DeservedTtl`); what it compared its answer with is
  still in Redis, or has expired, because only one execution per key can write there
  (`ComparedEntry`); only cacheable answers reach Redis (`OnlyCacheable`), and replies out of it
  are trusted (`RepliesTrusted`). `ReceiptsKept` is an action property that follows from these:
  an execution that writes has compared its answer with the very entry it replaces.
- `ViewInv` adds that a call that has not begun is untouched and that whatever has settled has a
  reply (`Untouched`, `Resulted`), so that the mapped variables of `SharedFlight` change only as
  its actions allow: `Join` and `Lead` board, `Refuse` turns away, a settlement lands, `Receive`
  serves, `Restart` crashes, and everything else stutters.
- `PolicyInv` only says that the views are ones an enrichment or Blockchair may send (`WellFormed`,
  heights the chain has reached); the work is in the operators. Lemmas say once when a response is
  accepted (`AcceptedIsRequested`), when "not found" is its verdict (`NotFoundIsSaid`) and when
  confirmations suffice (`DeepEnough`); each theorem is then a case distinction over the kind of
  lookup and the provider the base transaction is of. That `WellFormed` may be presumed of the node's view
  is what `ResultsStayWellFormed` proves.
- `CacheInv` of the metadata cache (the same name, another module) is `CacheSound` with the types
  and with what every call waits for or was given. It holds the two halves together: a fetch
  starts only on a miss, which has just removed the token from the cache, and the only entry it
  can find under way is the one it joins; so `set` always appends and the size test before it is
  enough. The lemmas say what removing, appending and evicting do to positions. `UseInv` adds the
  order (`UseOrdered`): whatever stands behind an entry has been used since that entry was. The
  entry that goes is the first, so all the others have been used since, and as entries have
  different tokens there are as many of those as the cache has room for.
- `EnrichmentInv` is one conjunct per lookup, `LookupInv`, with the types and with
  `MetadataCalls` underneath. `Recorded` says that what is known locally has been saved for the
  deadline; `StatusFits` that the status saved follows from the receipt saved, and is "pending"
  only after both early calls; `NothingForgotten` that each token mentioned is known, awaited,
  about to be asked for, or in the rest of the list; `TokensLast` that none of that begins
  without receipt; `HandedOut` ties what was returned to what had been saved. A lemma per action
  shows that it keeps `LookupInv` of its lookup, leaves every other lookup alone, and, once its
  lookup is over, changes nothing the caller can see (`Kept`): `GivenIsFrozen` and `OverMeansOver`
  are read off those lemmas. `HandedOut` has `due = <<>>` of a lookup that is over because a
  deadline cannot fall between the calls of one batch; without it `OverMeansOver` is not
  inductive. The lookups touch each other only through the cache, which is used as it is specified
  (`CacheUsedAsSpecified`; `CacheIsGivenWhatItAssumes` for its constants). That the theorems of
  `MetadataProofs` therefore hold of it is the meaning of `INSTANCE` and is not restated: the
  prover does not unfold theorems of an instance.
- `IInv` of the overview types everything by sets of *honest* values: those seen no later than a
  given time that stand under a time no later than that. `Merge` stays within them, so does every
  envelope wherever it is kept, and `Present` looks at the age once more. `OldAndNew` adds that
  what a refresh gathers is younger than what it started with, which makes carrying over safe;
  `QuotaRespected` adds that a quota error is over once a refresh is under way, or else `retryAt`
  outlasts it, unless a restart has made the process forget it.
- `Justified` of readiness: what is known to be up has been within reach since the check began.
- `SessionInv` carries the two properties through the writes: what a request is about to write
  is earned by some use and leaves half a life after its own (`Writing`), and the use an expiry
  serves is of a settled request, whose instant no step moves any more (`Kept`); every other
  request of the session resolved within `Lag` of it.

- What liveness rests on is safety, and is proved where it takes an invariant. `CheckKnown`:
  a check under way has asked every service, so the timers of `bounded` are all a probe needs.
  `PollsAreUnderWay` and `WaitsForAFetch`: whoever waits has a refresh or a fetch that will end
  its waiting (for the lookup that is `NobodyStranded`). `ProgressInv` adds `ListsFit` to
  `EnrichmentInv`: the lists of a lookup hold no token twice and none that has been asked for.
  The guard of `AskForToken` is then always true of the token that is due, so the step it is
  part of comes to its end and `Idle`, which every other action waits for, comes back. Without
  the assumption that a receipt mentions a token once this is false: the second call of one
  lookup for a token is not in the model. `FlagIsReady` ties the state of the Redis client to its
  flag and to how it is being closed.

**Only model-checked.** Liveness (`EveryCallAnswered`, `EveryRunEnds`, `ExpiredRemoved`,
`EveryPollAnswered`, `EveryProbeAnswered`, `RedisUsedAgain`, `ShutdownEnds`) and `ENABLED` are
out of the prover's reach, as are induction over data and `RECURSIVE` operators; no module here
needs the last two. The other way round, the type invariant of the overview
is proved (`OverviewTyped`) and in no run.

## Where code and documents disagree

1. `LookupPoorer`. A comment (`transactions.service.ts:345`) says poorer responses are kept from
   overwriting complete ones. The comparison looks at the receipt only, so an answer that was
   cut at the enrichment deadline, partial for another reason, replaces a complete one.
2. `SessionHistory`. `docs/DEPLOYMENT.md:114` retains history for 30 days and removes that of
   expired sessions. The script deletes the history it has read by id alone. A request that
   validated a session just before it expired can renew it after the script's first read: the
   session is then active, stays, and loses its history.
3. `ProviderQuota`. `docs/API.md:14` promises `UPSTREAM_RATE_LIMITED` for quota errors. A request
   for a transaction recognises them by the HTTP status only: a success with code 402 or 429 in
   its body and no data becomes `TRANSACTION_NOT_FOUND`. Requests for statistics recognise both.

Three more are stated where the properties that meet them are defined, and have no run:

4. `docs/api-contract.md:158` calls a story with missing metadata partial. The code asks for the
   decimals only: a token without symbol or name leaves the story complete. If the call for one
   failed, its reasons have `temporary_enrichment_failure` and it is cached as a degraded one.
   `CompleteLacksNamesOnly` says that this is all a complete story may lack.
5. `docs/mvp-spec.md:113` has 502 for a provider that is not available. On a chain without
   Blockchair, an error of the node that is not in the client's list of transient ones
   (`evm-rpc.client.ts:64-82`) and a chain without a URL (line 47) read as "nothing there", which
   ends in 404. `NotFoundIsKnown` allows these two and the quota body of 3, and no other failure.
6. `docs/DEPLOYMENT.md:93` cools down for 60 seconds after a quota failure. The pause is in memory
   only: a restarted process asks at once. `ProviderSpared` excuses a process that was restarted
   since the last quota error, and nobody else.

Also without a run: `docs/mvp-spec.md:98` wants provider data validated before use, and the hash of an
RPC node's transaction is not compared with the requested one (Blockchair's is). What is served
*from the cache* is trusted nonetheless: `IsValidCachedData` compares the hash, which
`HitsTrusted` proves enough.

## Not modelled

- *Decoding of logs into transfers, approvals and swaps; amounts, ABI strings, timestamps*: pure
  conversions without state, of which no decision of the lookup depends on more than is in the
  records of the models. The movement of tokens that coverage looks at is one flag.
- *`getLatestBlockAndGas`*: called by no code of the API.
- *Statistics of an undeclared type*: `item` would throw and the refresh fail without a pause (a
  hazard in `PROJECT.json`).
- *Wording of stories, reasons and labels, URLs, DTO shapes*: no behaviour depends on them.
- *Signing of cookies, validation pipes, throttling, Prisma's pool*: libraries, modelled by what
  the code relies on.
- *`api_request_logs`*: written and pruned independently of everything else.
- *Several API processes*: the deployment has one.

## The plan

Done, in this order: `TransactionPolicy`, `SharedFlight`, `TransactionLookup` and its proofs;
`TokenMetadataCache`, `EvmEnrichment`; `SessionLifecycle`; `BlockchairProvider`;
`OverviewRefresh` and its proofs; `Readiness`; the proofs of `SharedFlight`, `Readiness`,
`SessionLifecycle`, the decisions, the metadata cache and `EvmEnrichment`.

Next:

1. Theorems: the same for the lookup (a running execution is always at a step it can take), and for
   the script and the sessions (what is read is still what it was, or gone, when it is deleted).
2. Pure operators: log decoding, `formatUnits` and ABI strings against reference definitions.
3. Verification of chain IDs and the fallback order of the RPC client's endpoints.
