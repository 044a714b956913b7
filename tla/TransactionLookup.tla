-------------------------- MODULE TransactionLookup --------------------------
(***************************************************************************)
(* TransactionsService: concurrent lookups of one API process that share    *)
(* provider work per transaction, read and write the Redis cache around it,  *)
(* limit manual refreshes and record every call.                             *)
(*                                                                           *)
(* A request is identified with the call of lookupTransaction it makes; an   *)
(* execution (executeLookup) with the request that started it, its leader.   *)
(* Node runs the code between two awaits without interruption, so an action  *)
(* is what happens from one await to the next.                               *)
(***************************************************************************)
EXTENDS TransactionPolicy, FiniteSets

CONSTANTS
    Requests,       \* the calls of lookupTransaction
    Keys,           \* the chain:hash pairs they ask for
    NoOne,          \* "no request", the empty slot of a map
    KindOf,         \* how the chain of a key is looked up
    Cooldown,       \* REFRESH_COOLDOWN_SECONDS
    Capacity,       \* most cooldowns remembered at once (10000 in the code)
    Enrichments,    \* the RPC enrichments considered
    ChairAnswers,   \* the Blockchair answers considered, EVM
    UtxoAnswers,    \* the Blockchair answers considered, UTXO
    MaxClock,       \* bound of the clock
    MaxRestarts     \* bound of the restarts

ASSUME LookupAssumption ==
    /\ NoOne \notin Requests
    /\ IsFiniteSet(Keys)
    /\ KindOf \in [Keys -> {"utxo", "dual", "rpc"}]
    /\ Cooldown \in Nat \ {0}
    /\ Capacity \in Nat \ {0}
    /\ Enrichments \subseteq {e \in Enrichment : WellFormed(e)}
    /\ ChairAnswers \subseteq ChairAnswer
    /\ UtxoAnswers \subseteq UtxoAnswer
    /\ MaxClock \in Nat
    /\ MaxRestarts \in Nat

VARIABLES
    clock,         \* Date.now() of the process, and the clock of Redis
    redis,         \* [Keys -> cache entry]; until <= clock: there is none
    refreshAfter,  \* [Keys -> time]; 0: the map has no such key
    inFlight,      \* inFlightLookups: [Keys -> leader of the execution, or NoOne]
    input,         \* [Requests -> what the caller asked]
    phase,         \* [Requests -> where the call is]
    leader,        \* [Requests -> whose execution it awaits]
    reply,         \* [Requests -> what the caller gets]
    exec,          \* [Requests -> the execution this request leads]
    restarts       \* how often the process has restarted

vars == <<clock, redis, refreshAfter, inFlight, input, phase, leader, reply,
          exec, restarts>>
callVars == <<input, phase, leader, reply>>

-----------------------------------------------------------------------------
(* Types.                                                                    *)

Phases == {"new", "waiting", "recording", "answered", "lost"}
Stages == {"none", "reading", "asking", "checking", "writing", "settled", "dead"}
Running == {"reading", "asking", "checking", "writing"}

Replies ==
    [kind : {"none", "data", "error"}, code : ErrorCodes \cup {"OK"},
     snap : Snapshot \cup {NoSnapshot}, hit : BOOLEAN]

NoReply      == [kind |-> "none", code |-> "OK", snap |-> NoSnapshot, hit |-> FALSE]
Data(s, hit) == [kind |-> "data", code |-> "OK", snap |-> s, hit |-> hit]
\* Mutant: a code of the framework gets through.
FailureUntranslated(c) == [kind |-> "error", code |-> "HTTP_429", snap |-> NoSnapshot, hit |-> FALSE]

Failure(c)   == [kind |-> "error", code |-> c, snap |-> NoSnapshot, hit |-> FALSE]

\* fresh and ttl: the answer computed from the providers and how long it may be
\* cached; existing: what the second read of the cache returned.
Execution ==
    [stage : Stages, startedAt : Nat, fresh : Snapshot \cup {NoSnapshot}, ttl : Nat,
     existing : Snapshot \cup {NoSnapshot}, reply : Replies]

NoExecution ==
    [stage |-> "none", startedAt |-> 0, fresh |-> NoSnapshot, ttl |-> 0,
     existing |-> NoSnapshot, reply |-> NoReply]

Entry   == [snap : Snapshot \cup {NoSnapshot}, until : Nat]
NoEntry == [snap |-> NoSnapshot, until |-> 0]

TypeOK ==
    /\ clock \in Nat
    /\ redis \in [Keys -> Entry]
    /\ refreshAfter \in [Keys -> Nat]
    /\ inFlight \in [Keys -> Requests \cup {NoOne}]
    /\ input \in [Requests -> [key : Keys, refresh : BOOLEAN]]
    /\ phase \in [Requests -> Phases]
    /\ leader \in [Requests -> Requests \cup {NoOne}]
    /\ reply \in [Requests -> Replies]
    /\ exec \in [Requests -> Execution]
    /\ restarts \in Nat

-----------------------------------------------------------------------------
Init ==
    /\ clock = 0
    /\ redis = [k \in Keys |-> NoEntry]
    /\ refreshAfter = [k \in Keys |-> 0]
    /\ inFlight = [k \in Keys |-> NoOne]
    /\ input \in [Requests -> [key : Keys, refresh : BOOLEAN]]
    /\ phase = [r \in Requests |-> "new"]
    /\ leader = [r \in Requests |-> NoOne]
    /\ reply = [r \in Requests |-> NoReply]
    /\ exec = [r \in Requests |-> NoExecution]
    /\ restarts = 0

-----------------------------------------------------------------------------
(* A call of lookupTransaction, up to its first await.                       *)

\* Mutant: only ordinary lookups join.
UnderWayForReaders(r) == inFlight[input[r].key] # NoOne /\ ~input[r].refresh

\* The map holds a lookup of the same transaction.
UnderWay(r) == inFlight[input[r].key] # NoOne

\* Mutants: dropped a second early; a cooldown that slides with every attempt.
PurgedTooEarly == [k \in Keys |-> IF refreshAfter[k] <= clock + 1 THEN 0 ELSE refreshAfter[k]]
PurgedSliding  == [k \in Keys |-> IF refreshAfter[k] <= clock THEN 0 ELSE clock + Cooldown]

\* The cooldowns left once the expired ones are dropped.
Purged == [k \in Keys |-> IF refreshAfter[k] <= clock THEN 0 ELSE refreshAfter[k]]

Remembered(f) == Cardinality({k \in Keys : f[k] # 0})

\* Mutant: one cooldown too many.
RefusedLate(k) == Purged[k] > clock \/ Remembered(Purged) > Capacity

RefreshRefused(k) == Purged[k] > clock \/ Remembered(Purged) >= Capacity

\* An identical lookup is already under way: await it, refresh or not.
Join(r) ==
    /\ phase[r] = "new"
    /\ UnderWay(r)
    /\ leader' = [leader EXCEPT ![r] = inFlight[input[r].key]]
    /\ phase' = [phase EXCEPT ![r] = "waiting"]
    /\ UNCHANGED <<clock, redis, refreshAfter, inFlight, input, reply, exec, restarts>>

\* A manual refresh during its cooldown, or with too many cooldowns remembered.
Refuse(r) ==
    /\ phase[r] = "new"
    /\ ~UnderWay(r)
    /\ input[r].refresh
    /\ RefreshRefused(input[r].key)
    /\ refreshAfter' = Purged
    /\ reply' = [reply EXCEPT ![r] = Failure("RATE_LIMIT_EXCEEDED")]
    /\ phase' = [phase EXCEPT ![r] = "recording"]
    /\ UNCHANGED <<clock, redis, inFlight, input, leader, exec, restarts>>

\* Start an execution and publish it for the callers that follow.
Lead(r) ==
    /\ phase[r] = "new"
    /\ ~UnderWay(r)
    /\ IF input[r].refresh
       THEN /\ ~RefreshRefused(input[r].key)
            /\ refreshAfter' = [Purged EXCEPT ![input[r].key] = clock + Cooldown]
       ELSE UNCHANGED refreshAfter
    /\ inFlight' = [inFlight EXCEPT ![input[r].key] = r]
    /\ exec' = [exec EXCEPT ![r] = [@ EXCEPT !.stage = "reading", !.startedAt = clock]]
    /\ leader' = [leader EXCEPT ![r] = r]
    /\ phase' = [phase EXCEPT ![r] = "waiting"]
    /\ UNCHANGED <<clock, redis, input, reply, restarts>>

-----------------------------------------------------------------------------
(* An execution, from one of its awaits to the next.                         *)

Cached(k) == IF redis[k].until > clock THEN redis[k].snap ELSE NoSnapshot

\* A read of Redis that fails, times out or finds Redis away answers "nothing".
MayRead(k) == {Cached(k), NoSnapshot}

\* Mutants: the map keeps the execution; a failure never reaches its callers.
SettleWithoutDelete(e, result) ==
    /\ exec' = [exec EXCEPT ![e] = [@ EXCEPT !.stage = "settled", !.reply = result,
                                             !.ttl = 0, !.existing = NoSnapshot]]
    /\ UNCHANGED inFlight
SettleOnlyData(e, result) ==
    /\ exec' = [exec EXCEPT ![e] = [@ EXCEPT
                  !.stage = IF result.kind = "data" THEN "settled" ELSE "dead",
                  !.reply = result, !.ttl = 0, !.existing = NoSnapshot]]
    /\ inFlight' = [inFlight EXCEPT ![input[e].key] = NoOne]

\* The promise of e settles: its finally handler, registered before any caller
\* awaits it, clears the map, and the callers resume after it.
Settle(e, result) ==
    /\ exec' = [exec EXCEPT ![e] = [@ EXCEPT !.stage = "settled", !.reply = result,
                                             !.ttl = 0, !.existing = NoSnapshot]]
    /\ inFlight' = [inFlight EXCEPT ![input[e].key] = NoOne]

\* The first read: a valid entry is the answer, unless the caller bypasses it.
ReadCache(e) ==
    /\ exec[e].stage = "reading"
    /\ \E got \in MayRead(input[e].key) :
         IF ~input[e].refresh /\ IsValidCachedData(got)
         THEN Settle(e, Data(got, TRUE))
         ELSE /\ exec' = [exec EXCEPT ![e] = [@ EXCEPT !.stage = "asking"]]
              /\ UNCHANGED inFlight
    /\ UNCHANGED <<callVars, clock, redis, refreshAfter, restarts>>

\* executeUtxoLookup once Blockchair has answered.
AskUtxo(e) ==
    /\ exec[e].stage = "asking"
    /\ KindOf[input[e].key] = "utxo"
    /\ \E u \in UtxoAnswers :
         IF u.code # "OK" THEN Settle(e, Failure(u.code))
         ELSE IF UtxoTtl(u) > 0
         THEN /\ exec' = [exec EXCEPT ![e] = [@ EXCEPT !.stage = "writing",
                             !.fresh = UtxoSnapshot(u), !.ttl = UtxoTtl(u)]]
              /\ UNCHANGED inFlight
         ELSE Settle(e, Data(UtxoSnapshot(u), FALSE))
    /\ UNCHANGED <<callVars, clock, redis, refreshAfter, restarts>>

\* executeEvmLookup once both providers, or the only one, have answered.
AskEvm(e) ==
    /\ exec[e].stage = "asking"
    /\ KindOf[input[e].key] \in {"dual", "rpc"}
    /\ \E b \in ChairAnswers, rpc \in Enrichments :
         LET kind == KindOf[input[e].key]
             base == BaseTransaction(kind, b, rpc)
         IN  IF EvmError(kind, b, rpc) # "OK"
             THEN Settle(e, Failure(EvmError(kind, b, rpc)))
             ELSE /\ exec' = [exec EXCEPT ![e] = [@ EXCEPT !.stage = "checking",
                                 !.fresh = EvmSnapshot(base, rpc), !.ttl = EvmTtl(base, rpc)]]
                  /\ UNCHANGED inFlight
    /\ UNCHANGED <<callVars, clock, redis, refreshAfter, restarts>>

\* The second read: a richer cached answer for the same block wins.
Recheck(e) ==
    /\ exec[e].stage = "checking"
    /\ \E got \in MayRead(input[e].key) :
         IF KeepsExisting(got, exec[e].fresh) THEN Settle(e, Data(got, TRUE))
         ELSE IF exec[e].ttl > 0
         THEN /\ exec' = [exec EXCEPT ![e] = [@ EXCEPT !.stage = "writing", !.existing = got]]
              /\ UNCHANGED inFlight
         ELSE Settle(e, Data(exec[e].fresh, FALSE))
    /\ UNCHANGED <<callVars, clock, redis, refreshAfter, restarts>>

\* The write of Redis, which may be lost; the answer does not depend on it.
WriteCache(e) ==
    /\ exec[e].stage = "writing"
    /\ \/ redis' = [redis EXCEPT ![input[e].key] =
                      [snap |-> exec[e].fresh, until |-> clock + exec[e].ttl]]
       \/ UNCHANGED redis
    /\ Settle(e, Data(exec[e].fresh, FALSE))
    /\ UNCHANGED <<callVars, clock, refreshAfter, restarts>>

-----------------------------------------------------------------------------
(* A call of lookupTransaction, after its await.                             *)

\* The shared promise has settled; catch and finally start the two records.
Receive(r) ==
    /\ phase[r] = "waiting"
    /\ exec[leader[r]].stage = "settled"
    /\ reply' = [reply EXCEPT ![r] = exec[leader[r]].reply]
    /\ phase' = [phase EXCEPT ![r] = "recording"]
    /\ UNCHANGED <<clock, redis, refreshAfter, inFlight, input, leader, exec, restarts>>

\* safeLogApiRequest and safeRecordHistory have both ended, in either order and
\* each stored or swallowed: the response is returned, or the error thrown.
Answer(r) ==
    /\ phase[r] = "recording"
    /\ phase' = [phase EXCEPT ![r] = "answered"]
    /\ UNCHANGED <<clock, redis, refreshAfter, inFlight, input, leader, reply, exec, restarts>>

-----------------------------------------------------------------------------
(* The environment.                                                          *)

\* A second passes; Redis forgets the entries that expire.
Tick ==
    /\ clock < MaxClock
    /\ clock' = clock + 1
    /\ redis' = [k \in Keys |-> IF redis[k].until <= clock + 1 THEN NoEntry ELSE redis[k]]
    /\ UNCHANGED <<callVars, refreshAfter, inFlight, exec, restarts>>

\* The process dies and is started again: its two maps and the calls under way
\* are gone, Redis keeps what was written.
Restart ==
    /\ restarts < MaxRestarts
    /\ restarts' = restarts + 1
    /\ refreshAfter' = [k \in Keys |-> 0]
    /\ inFlight' = [k \in Keys |-> NoOne]
    /\ exec' = [e \in Requests |->
                  IF exec[e].stage = "none" THEN exec[e] ELSE [NoExecution EXCEPT !.stage = "dead"]]
    /\ phase' = [r \in Requests |->
                   IF phase[r] \in {"waiting", "recording"} THEN "lost" ELSE phase[r]]
    /\ UNCHANGED <<clock, redis, input, leader, reply>>

\* Every call has ended and nothing is left to happen.
Finished ==
    /\ \A r \in Requests : phase[r] \in {"answered", "lost"}
    /\ UNCHANGED vars

-----------------------------------------------------------------------------
Call(r)  == Join(r) \/ Refuse(r) \/ Lead(r)
Step(e)  == ReadCache(e) \/ AskUtxo(e) \/ AskEvm(e) \/ Recheck(e) \/ WriteCache(e)
Resume(r) == Receive(r) \/ Answer(r)

Next ==
    \/ \E r \in Requests : Call(r) \/ Step(r) \/ Resume(r)
    \/ Tick
    \/ Restart
    \/ Finished

\* Every await of an execution is bounded (Redis command timeout, Blockchair and
\* RPC deadlines) and so are the two writes (query timeout of PostgreSQL); no
\* fairness for new calls, for the clock or for restarts.
Fairness == \A r \in Requests : WF_vars(Step(r)) /\ WF_vars(Resume(r))

Spec == Init /\ [][Next]_vars /\ Fairness

-----------------------------------------------------------------------------
(* Properties.                                                               *)

IsRunning(e) == exec[e].stage \in Running

\* Deduplication: however the calls interleave, and across restarts, the
\* providers are never asked twice at the same time for one transaction
\* (inFlightLookups in lookupTransaction).
OneExecutionPerKey ==
    \A e, f \in Requests :
        IsRunning(e) /\ IsRunning(f) /\ input[e].key = input[f].key => e = f

\* A lookup that has ended never answers a call that starts later: the map holds
\* only executions that are still running, each under its own key (the finally
\* handler of lookupTransaction).
NoStaleFlight ==
    \A k \in Keys : inFlight[k] # NoOne =>
        input[inFlight[k]].key = k /\ IsRunning(inFlight[k])

\* Every caller that waits is on an execution for its own transaction that is
\* running or has just settled: no join, settlement or restart strands a caller.
NobodyWaitsInVain ==
    \A r \in Requests : phase[r] = "waiting" =>
        /\ leader[r] \in Requests
        /\ input[leader[r]].key = input[r].key
        /\ exec[leader[r]].stage \in Running \cup {"settled"}

\* Every running execution can be found by the callers that follow.
Published == \A e \in Requests : IsRunning(e) => inFlight[input[e].key] = e

\* The refreshes of one transaction that this process carried out are at least a
\* cooldown apart, whatever was joined, refused or purged between them.
RefreshSpacing ==
    \A e, f \in Requests :
        /\ e # f /\ input[e] = input[f] /\ input[e].refresh
        /\ exec[e].stage \notin {"none", "dead"} /\ exec[f].stage \notin {"none", "dead"}
        => \/ exec[e].startedAt >= exec[f].startedAt + Cooldown
           \/ exec[f].startedAt >= exec[e].startedAt + Cooldown

\* A transaction is in cooldown only because a refresh of it was carried out: a
\* refused refresh never starts or prolongs a cooldown.
CooldownEarned ==
    \A k \in Keys : refreshAfter[k] # 0 =>
        \E e \in Requests :
            /\ input[e] = [key |-> k, refresh |-> TRUE]
            /\ exec[e].stage \notin {"none", "dead"}
            /\ refreshAfter[k] = exec[e].startedAt + Cooldown

\* The map of cooldowns never outgrows its capacity.
CooldownsBounded == Remembered(refreshAfter) <= Capacity

\* How long an answer may be kept, told from its contents alone.
Shaky(s) ==
    \/ s.status = "unknown" \/ s.recent \/ s.coverage = "partial"
    \/ s.reasons \cap {"provider_discrepancy", "temporary_enrichment_failure",
                       "receipt_unavailable", "metadata_unavailable"} # {}
Lifetime(s) ==
    IF s.status = "pending" THEN PendingTTL ELSE IF Shaky(s) THEN DegradedTTL ELSE FullTTL

\* "Pending transactions are not cached; degraded and low-confirmation results use
\* shorter TTLs": whatever is in Redis never has more life left than its own
\* contents deserve, so a pending answer is there only if PendingTTL allows it.
CacheQuality ==
    \A k \in Keys : Cached(k) # NoSnapshot =>
        redis[k].until - clock <= Lifetime(redis[k].snap)

\* A live answer with a receipt is replaced by an answer of the same block without
\* one only by an execution whose second read of Redis returned nothing (the
\* monotonicity check is a check followed, after an await, by a write).
LosesReceipt(k) ==
    /\ IsValidCachedData(Cached(k))
    /\ "receipt_unavailable" \notin Cached(k).reasons
    /\ redis'[k].until > clock
    /\ redis'[k].snap.block = Cached(k).block
    /\ "receipt_unavailable" \in redis'[k].snap.reasons
ReceiptKept ==
    [][\A k \in Keys : LosesReceipt(k) =>
          \E e \in Requests :
              /\ input[e].key = k /\ exec[e].stage = "writing"
              /\ exec[e].existing = NoSnapshot]_vars

\* A refresh that leads its own execution gets a cached answer only when the
\* providers came back without the receipt the cache already had.
RefreshBypassesCache ==
    \A e \in Requests :
        input[e].refresh /\ exec[e].stage = "settled" /\ exec[e].reply.hit =>
            /\ "receipt_unavailable" \in exec[e].fresh.reasons
            /\ "receipt_unavailable" \notin exec[e].reply.snap.reasons
            /\ exec[e].reply.snap.block = exec[e].fresh.block

\* Whatever a caller is given out of the cache was obtained for the hash it asked
\* for and is not a pending answer (unless PendingTTL allows those to be cached),
\* although another call, a refresh or an earlier process wrote it.
CachedAnswersTrusted ==
    \A r \in Requests :
        reply[r].kind = "data" /\ reply[r].hit =>
            /\ reply[r].snap.hash = "requested"
            /\ PendingTTL = 0 => reply[r].snap.status # "pending"

\* transactions.service.ts:345, "Prevent poorer responses from overwriting complete
\* responses": an execution whose second read saw a complete answer for the block
\* does not replace it by a partial one.
CompleteKept ==
    [][\A e \in Requests :
          /\ exec[e].stage = "writing" /\ exec'[e].stage = "settled"
          /\ exec[e].existing.coverage = "complete"
          /\ exec[e].existing.block = exec[e].fresh.block
          /\ exec[e].fresh.coverage = "partial"
          => redis'[input[e].key] = redis[input[e].key]]_vars

\* Every call is answered, whatever Redis, the providers and PostgreSQL do, unless
\* the process dies under it.
EveryCallAnswered ==
    \A r \in Requests :
        phase[r] \in {"waiting", "recording"} ~> phase[r] \in {"answered", "lost"}

-----------------------------------------------------------------------------
(* The lookups as callers see them: flights shared per key.                  *)

Flights == INSTANCE SharedFlight WITH
    Callers <- Requests,
    Results <- Replies \ {NoReply},
    NoResult <- NoReply,
    asked <- [r \in Requests |-> input[r].key],
    standing <- [r \in Requests |->
                   IF phase[r] \in {"recording", "answered"}
                   THEN IF leader[r] = NoOne THEN "refused" ELSE "served"
                   ELSE phase[r]],
    flight <- inFlight,
    awaits <- leader,
    landed <- [r \in Requests |->
                 IF exec[r].stage = "settled" THEN exec[r].reply ELSE NoReply],
    got <- [r \in Requests |-> IF leader[r] = NoOne THEN NoReply ELSE reply[r]]

\* The service implements shared flights: every caller gets the result of one
\* execution for its own key that was under way when it called.
SharesFlights == Flights!Spec
=============================================================================
