----------------------- MODULE TransactionLookupProofs -----------------------
(***************************************************************************)
(* Theorems about TransactionLookup, for every value of its constants: its   *)
(* executions, the flights they implement, the cooldowns of refreshes, and   *)
(* what goes into Redis and comes out of it.                                 *)
(***************************************************************************)
EXTENDS TransactionLookup, TLAPS, FiniteSetTheorems

-----------------------------------------------------------------------------
(* What the policy computes has the right type.                              *)

LEMMA EvmSnapshotType ==
    ASSUME NEW kind, NEW b \in ChairAnswer, NEW e \in Enrichment
    PROVE  /\ EvmSnapshot(BaseTransaction(kind, b, e), e) \in Snapshot
           /\ EvmTtl(BaseTransaction(kind, b, e), e) \in Nat
<1> DEFINE base == BaseTransaction(kind, b, e)
<1>1. base.hash \in Hashes /\ base.status \in Statuses /\ base.block \in ChairBlocks
  BY DEF BaseTransaction, ChairAnswer, ChairBlocks, Enrichment, Hashes
<1>2. ResolvedStatus(base, e) \in Statuses
  BY <1>1 DEF ResolvedStatus, Statuses, Enrichment
<1>3. Coverage(base, e) \in {"complete", "partial", "unsupported", "none"}
  BY DEF Coverage
<1>4. CoverageReasons(base, e) \in SUBSET Reasons
  BY DEF CoverageReasons
<1>5. EvmTtl(base, e) \in Nat
  BY TTLAssumption DEF EvmTtl, ResolveTransactionCacheTtl
<1>6. EvmSnapshot(base, e) \in Snapshot
  <2> HIDE DEF base
  <2> QED
    BY <1>1, <1>2, <1>3, <1>4 DEF EvmSnapshot, Snapshot
<1> QED
  BY <1>5, <1>6

LEMMA UtxoSnapshotType ==
    ASSUME NEW u \in UtxoAnswer
    PROVE  UtxoSnapshot(u) \in Snapshot /\ UtxoTtl(u) \in Nat
<1>1. UtxoSnapshot(u) \in Snapshot
  BY DEF UtxoSnapshot, UtxoAnswer, Snapshot, Statuses, Hashes
<1>2. UtxoTtl(u) \in Nat
  BY TTLAssumption DEF UtxoTtl, ResolveTransactionCacheTtl
<1> QED
  BY <1>1, <1>2

LEMMA EvmErrorType ==
    ASSUME NEW kind, NEW b \in ChairAnswer, NEW e \in Enrichment,
           EvmError(kind, b, e) # "OK"
    PROVE  EvmError(kind, b, e) \in ErrorCodes
BY DEF EvmError, ChairAnswer, ErrorCodes

-----------------------------------------------------------------------------
(* Type correctness.                                                         *)

LEMMA RepliesType ==
    /\ NoReply \in Replies
    /\ \A c \in ErrorCodes : Failure(c) \in Replies
    /\ \A s \in Snapshot, h \in BOOLEAN : Data(s, h) \in Replies
    /\ NoExecution \in Execution
    /\ NoEntry \in Entry
<1>1. NoReply \in Replies
  BY DEF NoReply, Replies
<1>2. \A c \in ErrorCodes : Failure(c) \in Replies
  BY DEF Failure, Replies
<1>3. \A s \in Snapshot, h \in BOOLEAN : Data(s, h) \in Replies
  BY DEF Data, Replies
<1>4. NoExecution \in Execution
  BY <1>1 DEF NoExecution, Execution, Stages
<1>5. NoEntry \in Entry
  BY DEF NoEntry, Entry
<1> QED
  BY <1>1, <1>2, <1>3, <1>4, <1>5

\* A valid entry read from the cache is a snapshot, never the mark of a miss.
LEMMA ReadType ==
    ASSUME TypeOK, NEW k \in Keys, NEW got \in MayRead(k)
    PROVE  /\ got \in Snapshot \cup {NoSnapshot}
           /\ IsValidCachedData(got) => got \in Snapshot
<1>1. redis[k].snap \in Snapshot \cup {NoSnapshot}
  BY DEF TypeOK, Entry
<1>2. got \in Snapshot \cup {NoSnapshot}
  BY <1>1 DEF MayRead, Cached
<1>3. ~IsValidCachedData(NoSnapshot)
  BY DEF IsValidCachedData, NoSnapshot
<1> QED
  BY <1>2, <1>3

LEMMA SettleType ==
    ASSUME TypeOK, NEW e \in Requests, NEW result \in Replies, Settle(e, result)
    PROVE  exec' \in [Requests -> Execution] /\ inFlight' \in [Keys -> Requests \cup {NoOne}]
<1>1. exec' \in [Requests -> Execution]
  BY DEF Settle, TypeOK, Execution, Stages
<1>2. inFlight' \in [Keys -> Requests \cup {NoOne}]
  BY DEF Settle, TypeOK
<1> QED
  BY <1>1, <1>2

LEMMA TypeInit == Init => TypeOK
BY RepliesType DEF Init, TypeOK, Phases

LEMMA TypeCall ==
    ASSUME TypeOK, NEW r \in Requests, Call(r)
    PROVE  TypeOK'
<1>1. CASE Join(r)
  BY <1>1 DEF Join, UnderWay, TypeOK, Phases
<1>2. CASE Refuse(r)
  <2>1. Failure("RATE_LIMIT_EXCEEDED") \in Replies
    BY RepliesType DEF ErrorCodes
  <2>2. Purged \in [Keys -> Nat]
    BY DEF Purged, TypeOK
  <2> QED
    BY <1>2, <2>1, <2>2 DEF Refuse, TypeOK, Phases
<1>3. CASE Lead(r)
  <2>1. refreshAfter' \in [Keys -> Nat]
    <3>1. Purged \in [Keys -> Nat] /\ clock + Cooldown \in Nat
      BY LookupAssumption DEF Purged, TypeOK
    <3> QED
      BY <1>3, <3>1 DEF Lead, UnderWay, TypeOK
  <2>2. exec' \in [Requests -> Execution]
    <3>1. [exec[r] EXCEPT !.stage = "reading", !.startedAt = clock] \in Execution
      BY DEF TypeOK, Execution, Stages
    <3> QED
      BY <1>3, <3>1 DEF Lead, UnderWay, TypeOK
  <2>3. inFlight' \in [Keys -> Requests \cup {NoOne}]
    BY <1>3 DEF Lead, UnderWay, TypeOK
  <2>4. leader' \in [Requests -> Requests \cup {NoOne}] /\ phase' \in [Requests -> Phases]
    BY <1>3 DEF Lead, UnderWay, TypeOK, Phases
  <2> QED
    BY <1>3, <2>1, <2>2, <2>3, <2>4 DEF Lead, UnderWay, TypeOK
<1> QED
  BY <1>1, <1>2, <1>3 DEF Call

\* The steps of an execution change Redis, the map and the execution only.
LEMMA TypeStep ==
    ASSUME TypeOK, NEW e \in Requests, Step(e)
    PROVE  TypeOK'
<1>1. SUFFICES /\ exec' \in [Requests -> Execution]
               /\ inFlight' \in [Keys -> Requests \cup {NoOne}]
               /\ redis' \in [Keys -> Entry]
               /\ UNCHANGED <<callVars, clock, refreshAfter, restarts>>
  BY DEF TypeOK, callVars
<1>2. input[e].key \in Keys /\ exec[e] \in Execution
  BY DEF TypeOK
<1>3. CASE ReadCache(e)
  <2>1. PICK got \in MayRead(input[e].key) :
          IF ~input[e].refresh /\ IsValidCachedData(got)
          THEN Settle(e, Data(got, TRUE))
          ELSE exec' = [exec EXCEPT ![e] = [@ EXCEPT !.stage = "asking"]] /\ UNCHANGED inFlight
    BY <1>3 DEF ReadCache
  <2>2. CASE ~input[e].refresh /\ IsValidCachedData(got)
    <3>1. Data(got, TRUE) \in Replies
      BY <1>2, <2>2, ReadType, RepliesType
    <3> QED
      BY <1>3, <2>1, <2>2, <3>1, SettleType DEF ReadCache, TypeOK
  <2>3. CASE ~(~input[e].refresh /\ IsValidCachedData(got))
    <3>1. [exec[e] EXCEPT !.stage = "asking"] \in Execution
      BY <1>2 DEF Execution, Stages
    <3> QED
      BY <1>3, <2>1, <2>3, <3>1 DEF ReadCache, TypeOK
  <2> QED
    BY <2>2, <2>3
<1>4. CASE AskUtxo(e)
  <2>1. PICK u \in UtxoAnswers :
          IF u.code # "OK" THEN Settle(e, Failure(u.code))
          ELSE IF UtxoTtl(u) > 0
          THEN /\ exec' = [exec EXCEPT ![e] = [@ EXCEPT !.stage = "writing",
                              !.fresh = UtxoSnapshot(u), !.ttl = UtxoTtl(u)]]
               /\ UNCHANGED inFlight
          ELSE Settle(e, Data(UtxoSnapshot(u), FALSE))
    BY <1>4 DEF AskUtxo
  <2>2. u \in UtxoAnswer
    BY LookupAssumption
  <2>3. UtxoSnapshot(u) \in Snapshot /\ UtxoTtl(u) \in Nat
    BY <2>2, UtxoSnapshotType
  <2>4. u.code # "OK" => Failure(u.code) \in Replies
    BY <2>2, RepliesType DEF UtxoAnswer
  <2>5. Data(UtxoSnapshot(u), FALSE) \in Replies
    BY <2>3, RepliesType
  <2>6. [exec[e] EXCEPT !.stage = "writing", !.fresh = UtxoSnapshot(u),
                        !.ttl = UtxoTtl(u)] \in Execution
    BY <1>2, <2>3 DEF Execution, Stages
  <2> QED
    BY <1>4, <2>1, <2>4, <2>5, <2>6, SettleType DEF AskUtxo, TypeOK
<1>5. CASE AskEvm(e)
  <2> DEFINE kind == KindOf[input[e].key]
             base(b, rpc) == BaseTransaction(kind, b, rpc)
  <2>1. PICK b \in ChairAnswers, rpc \in Enrichments :
          IF EvmError(kind, b, rpc) # "OK"
          THEN Settle(e, Failure(EvmError(kind, b, rpc)))
          ELSE /\ exec' = [exec EXCEPT ![e] = [@ EXCEPT !.stage = "checking",
                              !.fresh = EvmSnapshot(base(b, rpc), rpc),
                              !.ttl = EvmTtl(base(b, rpc), rpc)]]
               /\ UNCHANGED inFlight
    BY <1>5 DEF AskEvm
  <2>2. b \in ChairAnswer /\ rpc \in Enrichment
    BY LookupAssumption
  <2>3. EvmSnapshot(base(b, rpc), rpc) \in Snapshot /\ EvmTtl(base(b, rpc), rpc) \in Nat
    BY <2>2, EvmSnapshotType
  <2>4. EvmError(kind, b, rpc) # "OK" => Failure(EvmError(kind, b, rpc)) \in Replies
    BY <2>2, EvmErrorType, RepliesType
  <2>5. [exec[e] EXCEPT !.stage = "checking", !.fresh = EvmSnapshot(base(b, rpc), rpc),
                        !.ttl = EvmTtl(base(b, rpc), rpc)] \in Execution
    BY <1>2, <2>3 DEF Execution, Stages
  <2> HIDE DEF kind, base
  <2> QED
    BY <1>5, <2>1, <2>4, <2>5, SettleType DEF AskEvm, TypeOK
<1>6. CASE Recheck(e)
  <2>1. PICK got \in MayRead(input[e].key) :
          IF KeepsExisting(got, exec[e].fresh) THEN Settle(e, Data(got, TRUE))
          ELSE IF exec[e].ttl > 0
          THEN /\ exec' = [exec EXCEPT ![e] = [@ EXCEPT !.stage = "writing", !.existing = got]]
               /\ UNCHANGED inFlight
          ELSE Settle(e, Data(exec[e].fresh, FALSE))
    BY <1>6 DEF Recheck
  <2>2. got \in Snapshot \cup {NoSnapshot} /\ (IsValidCachedData(got) => got \in Snapshot)
    BY <1>2, ReadType
  <2>3. KeepsExisting(got, exec[e].fresh) => Data(got, TRUE) \in Replies
    BY <2>2, RepliesType DEF KeepsExisting
  <2>4. Data(exec[e].fresh, FALSE) \in Replies
    BY <1>2 DEF Execution, Data, Replies
  <2>5. [exec[e] EXCEPT !.stage = "writing", !.existing = got] \in Execution
    BY <1>2, <2>2 DEF Execution, Stages
  <2> QED
    BY <1>6, <2>1, <2>3, <2>4, <2>5, SettleType DEF Recheck, TypeOK
<1>7. CASE WriteCache(e)
  <2>1. Data(exec[e].fresh, FALSE) \in Replies
    BY <1>2 DEF Execution, Data, Replies
  <2>2. [snap |-> exec[e].fresh, until |-> clock + exec[e].ttl] \in Entry
    BY <1>2 DEF Execution, Entry, TypeOK
  <2>3. redis' \in [Keys -> Entry]
    BY <1>2, <1>7, <2>2 DEF WriteCache, TypeOK
  <2> QED
    BY <1>7, <2>1, <2>3, SettleType DEF WriteCache
<1> QED
  BY <1>3, <1>4, <1>5, <1>6, <1>7 DEF Step

LEMMA TypeResume ==
    ASSUME TypeOK, NobodyWaitsInVain, NEW r \in Requests, Resume(r)
    PROVE  TypeOK'
<1>1. CASE Receive(r)
  <2>1. leader[r] \in Requests
    BY <1>1 DEF Receive, NobodyWaitsInVain
  <2>2. exec[leader[r]].reply \in Replies
    BY <2>1 DEF TypeOK, Execution
  <2> QED
    BY <1>1, <2>2 DEF Receive, TypeOK, Phases
<1>2. CASE Answer(r)
  BY <1>2 DEF Answer, TypeOK, Phases
<1> QED
  BY <1>1, <1>2 DEF Resume

LEMMA TypeTick == TypeOK /\ Tick => TypeOK'
BY RepliesType DEF Tick, TypeOK, callVars

LEMMA TypeRestart == TypeOK /\ Restart => TypeOK'
<1> SUFFICES ASSUME TypeOK, Restart PROVE TypeOK'
  OBVIOUS
<1>1. [NoExecution EXCEPT !.stage = "dead"] \in Execution
  BY RepliesType DEF Execution, Stages
<1>2. exec' \in [Requests -> Execution]
  BY <1>1 DEF Restart, TypeOK
<1>3. phase' \in [Requests -> Phases]
  BY DEF Restart, TypeOK, Phases
<1>4. inFlight' \in [Keys -> Requests \cup {NoOne}] /\ refreshAfter' \in [Keys -> Nat]
  BY DEF Restart
<1>5. UNCHANGED <<clock, redis, input, leader, reply>> /\ restarts' \in Nat
  BY DEF Restart, TypeOK
<1> QED
  BY <1>2, <1>3, <1>4, <1>5 DEF TypeOK

-----------------------------------------------------------------------------
(* The shape of a step of an execution: it goes on, or its promise settles.   *)

GoesOn(e) ==
    /\ exec'[e].stage \in Running
    /\ exec'[e].startedAt = exec[e].startedAt
    /\ exec'[e].reply = exec[e].reply
    /\ \A f \in Requests \ {e} : exec'[f] = exec[f]
    /\ UNCHANGED inFlight

Settles(e) ==
    /\ exec'[e].stage = "settled"
    /\ exec'[e].startedAt = exec[e].startedAt
    /\ exec'[e].reply \in Replies \ {NoReply}
    /\ \A f \in Requests \ {e} : exec'[f] = exec[f]
    /\ inFlight' = [inFlight EXCEPT ![input[e].key] = NoOne]

LEMMA SettleShape ==
    ASSUME TypeOK, NEW e \in Requests, NEW result \in Replies,
           result.kind # "none", Settle(e, result)
    PROVE  Settles(e)
<1> DEFINE new == [exec[e] EXCEPT !.stage = "settled", !.reply = result,
                                  !.ttl = 0, !.existing = NoSnapshot]
<1>1. exec' = [exec EXCEPT ![e] = new] /\ exec \in [Requests -> Execution]
  BY DEF Settle, TypeOK
<1>2. /\ exec[e] \in Execution
      /\ new.stage = "settled" /\ new.startedAt = exec[e].startedAt /\ new.reply = result
  BY <1>1 DEF Execution
<1>3. result # NoReply
  BY DEF NoReply
<1> HIDE DEF new
<1> QED
  BY <1>1, <1>2, <1>3 DEF Settle, Settles

LEMMA GoesOnShape ==
    ASSUME TypeOK, NEW e \in Requests, NEW new, exec' = [exec EXCEPT ![e] = new],
           new.stage \in Running, new.startedAt = exec[e].startedAt,
           new.reply = exec[e].reply, UNCHANGED inFlight
    PROVE  GoesOn(e)
BY DEF TypeOK, GoesOn

LEMMA StepShape ==
    ASSUME TypeOK, NEW e \in Requests, Step(e)
    PROVE  /\ IsRunning(e)
           /\ UNCHANGED <<input, phase, leader, reply, clock, refreshAfter, restarts>>
           /\ GoesOn(e) \/ Settles(e)
<1>1. input[e].key \in Keys /\ exec \in [Requests -> Execution] /\ exec[e] \in Execution
  BY DEF TypeOK
<1>2. \A s, h : Data(s, h).kind # "none"
  BY DEF Data
<1>3. \A c : Failure(c).kind # "none"
  BY DEF Failure
<1>4. CASE ReadCache(e)
  <2>1. PICK got \in MayRead(input[e].key) :
          IF ~input[e].refresh /\ IsValidCachedData(got)
          THEN Settle(e, Data(got, TRUE))
          ELSE exec' = [exec EXCEPT ![e] = [@ EXCEPT !.stage = "asking"]] /\ UNCHANGED inFlight
    BY <1>4 DEF ReadCache
  <2>2. IsValidCachedData(got) => Data(got, TRUE) \in Replies
    BY <1>1, ReadType, RepliesType
  <2>3. Settles(e) \/ GoesOn(e)
    <3>1. CASE ~input[e].refresh /\ IsValidCachedData(got)
      BY <1>2, <2>1, <2>2, <3>1, SettleShape
    <3>2. CASE ~(~input[e].refresh /\ IsValidCachedData(got))
      BY <1>1, <2>1, <3>2 DEF GoesOn, Running, Execution
    <3> QED
      BY <3>1, <3>2
  <2> QED
    BY <1>4, <2>3 DEF ReadCache, IsRunning, Running, callVars
<1>5. CASE AskUtxo(e)
  <2>1. PICK u \in UtxoAnswers :
          IF u.code # "OK" THEN Settle(e, Failure(u.code))
          ELSE IF UtxoTtl(u) > 0
          THEN /\ exec' = [exec EXCEPT ![e] = [@ EXCEPT !.stage = "writing",
                              !.fresh = UtxoSnapshot(u), !.ttl = UtxoTtl(u)]]
               /\ UNCHANGED inFlight
          ELSE Settle(e, Data(UtxoSnapshot(u), FALSE))
    BY <1>5 DEF AskUtxo
  <2>2. u \in UtxoAnswer
    BY LookupAssumption
  <2>3. u.code # "OK" => Failure(u.code) \in Replies
    BY <2>2, RepliesType DEF UtxoAnswer
  <2>4. Data(UtxoSnapshot(u), FALSE) \in Replies
    BY <2>2, UtxoSnapshotType, RepliesType
  <2>5. CASE u.code = "OK" /\ UtxoTtl(u) > 0
    BY <1>1, <2>1, <2>5, <1>5 DEF GoesOn, Running, Execution, AskUtxo, IsRunning, callVars
  <2>6. CASE ~(u.code = "OK" /\ UtxoTtl(u) > 0)
    <3>1. Settles(e)
      BY <1>2, <1>3, <2>1, <2>3, <2>4, <2>6, SettleShape
    <3> QED
      BY <1>5, <3>1 DEF AskUtxo, IsRunning, Running, callVars
  <2> QED
    BY <2>5, <2>6
<1>6. CASE AskEvm(e)
  <2> DEFINE kind == KindOf[input[e].key]
             base(b, rpc) == BaseTransaction(kind, b, rpc)
  <2>1. PICK b \in ChairAnswers, rpc \in Enrichments :
          IF EvmError(kind, b, rpc) # "OK"
          THEN Settle(e, Failure(EvmError(kind, b, rpc)))
          ELSE /\ exec' = [exec EXCEPT ![e] = [@ EXCEPT !.stage = "checking",
                              !.fresh = EvmSnapshot(base(b, rpc), rpc),
                              !.ttl = EvmTtl(base(b, rpc), rpc)]]
               /\ UNCHANGED inFlight
    BY <1>6 DEF AskEvm
  <2>2. b \in ChairAnswer /\ rpc \in Enrichment
    BY LookupAssumption
  <2>3. EvmError(kind, b, rpc) # "OK" => Failure(EvmError(kind, b, rpc)) \in Replies
    BY <2>2, EvmErrorType, RepliesType
  <2> HIDE DEF kind, base
  <2>4. CASE EvmError(kind, b, rpc) = "OK"
    <3> DEFINE new == [exec[e] EXCEPT !.stage = "checking",
                         !.fresh = EvmSnapshot(base(b, rpc), rpc),
                         !.ttl = EvmTtl(base(b, rpc), rpc)]
    <3>1. exec' = [exec EXCEPT ![e] = new] /\ UNCHANGED inFlight
      BY <2>1, <2>4
    <3>2. /\ new.stage = "checking" /\ new.startedAt = exec[e].startedAt
          /\ new.reply = exec[e].reply
      BY <1>1 DEF Execution
    <3> HIDE DEF new
    <3>3. GoesOn(e)
      BY <3>1, <3>2, GoesOnShape DEF Running
    <3> QED
      BY <1>6, <3>3 DEF AskEvm, IsRunning, Running, callVars
  <2>5. CASE EvmError(kind, b, rpc) # "OK"
    <3>1. Settles(e)
      BY <1>3, <2>1, <2>3, <2>5, SettleShape
    <3> QED
      BY <1>6, <3>1 DEF AskEvm, IsRunning, Running, callVars
  <2> QED
    BY <2>4, <2>5
<1>7. CASE Recheck(e)
  <2>1. PICK got \in MayRead(input[e].key) :
          IF KeepsExisting(got, exec[e].fresh) THEN Settle(e, Data(got, TRUE))
          ELSE IF exec[e].ttl > 0
          THEN /\ exec' = [exec EXCEPT ![e] = [@ EXCEPT !.stage = "writing", !.existing = got]]
               /\ UNCHANGED inFlight
          ELSE Settle(e, Data(exec[e].fresh, FALSE))
    BY <1>7 DEF Recheck
  <2>2. KeepsExisting(got, exec[e].fresh) => Data(got, TRUE) \in Replies
    BY <1>1, ReadType, RepliesType DEF KeepsExisting
  <2>3. Data(exec[e].fresh, FALSE) \in Replies
    BY <1>1 DEF Execution, Data, Replies
  <2>4. CASE ~KeepsExisting(got, exec[e].fresh) /\ exec[e].ttl > 0
    <3> DEFINE new == [exec[e] EXCEPT !.stage = "writing", !.existing = got]
    <3>1. exec' = [exec EXCEPT ![e] = new] /\ UNCHANGED inFlight
      BY <2>1, <2>4
    <3>2. /\ new.stage = "writing" /\ new.startedAt = exec[e].startedAt
          /\ new.reply = exec[e].reply
      BY <1>1 DEF Execution
    <3> HIDE DEF new
    <3>3. GoesOn(e)
      BY <3>1, <3>2, GoesOnShape DEF Running
    <3> QED
      BY <1>7, <3>3 DEF Recheck, IsRunning, Running, callVars
  <2>5. CASE ~(~KeepsExisting(got, exec[e].fresh) /\ exec[e].ttl > 0)
    <3>1. Settles(e)
      BY <1>2, <2>1, <2>2, <2>3, <2>5, SettleShape
    <3> QED
      BY <1>7, <3>1 DEF Recheck, IsRunning, Running, callVars
  <2> QED
    BY <2>4, <2>5
<1>8. CASE WriteCache(e)
  <2>1. Data(exec[e].fresh, FALSE) \in Replies
    BY <1>1 DEF Execution, Data, Replies
  <2>2. Settles(e)
    BY <1>2, <1>8, <2>1, SettleShape DEF WriteCache
  <2> QED
    BY <1>8, <2>2 DEF WriteCache, IsRunning, Running, callVars
<1> QED
  BY <1>4, <1>5, <1>6, <1>7, <1>8 DEF Step

-----------------------------------------------------------------------------
(* The map of lookups in flight and the executions agree.                    *)

FlightInv == TypeOK /\ NoStaleFlight /\ Published /\ NobodyWaitsInVain

LEMMA FlightInit == Init => FlightInv
<1> SUFFICES ASSUME Init PROVE FlightInv
  OBVIOUS
<1>1. TypeOK
  BY TypeInit
<1>2. NoStaleFlight
  BY DEF Init, NoStaleFlight
<1>3. Published
  BY DEF Init, Published, IsRunning, Running, NoExecution
<1>4. NobodyWaitsInVain
  BY DEF Init, NobodyWaitsInVain
<1> QED
  BY <1>1, <1>2, <1>3, <1>4 DEF FlightInv

LEMMA FlightCall ==
    ASSUME FlightInv, NEW r \in Requests, Call(r)
    PROVE  FlightInv'
<1>1. TypeOK /\ TypeOK'
  BY TypeCall DEF FlightInv
<1>2. CASE Join(r)
  <2>1. NoStaleFlight' /\ Published'
    BY <1>2 DEF FlightInv, Join, UnderWay, NoStaleFlight, Published, IsRunning
  <2>2. NobodyWaitsInVain'
    <3>1. inFlight[input[r].key] \in Requests
      BY <1>1, <1>2 DEF Join, UnderWay, TypeOK
    <3> QED
      BY <1>1, <1>2, <3>1
      DEF FlightInv, Join, UnderWay, NoStaleFlight, NobodyWaitsInVain, IsRunning, TypeOK
  <2> QED
    BY <1>1, <2>1, <2>2 DEF FlightInv
<1>3. CASE Refuse(r)
  BY <1>1, <1>3 DEF FlightInv, Refuse, NoStaleFlight, Published, NobodyWaitsInVain, IsRunning, TypeOK
<1>4. CASE Lead(r)
  <2> DEFINE k == input[r].key
  <2>1. /\ k \in Keys /\ inFlight[k] = NoOne /\ UNCHANGED input
        /\ inFlight' = [inFlight EXCEPT ![k] = r]
        /\ leader' = [leader EXCEPT ![r] = r]
        /\ phase' = [phase EXCEPT ![r] = "waiting"]
    BY <1>1, <1>4 DEF Lead, UnderWay, TypeOK
  <2>2. exec'[r].stage = "reading" /\ \A f \in Requests \ {r} : exec'[f] = exec[f]
    BY <1>1, <1>4 DEF Lead, UnderWay, TypeOK, Execution
  <2> HIDE DEF k
  <2>3. ~IsRunning(r)
    BY <2>1, LookupAssumption DEF FlightInv, Published, k
  <2>4. NoStaleFlight'
    BY <1>1, <2>1, <2>2, <2>3 DEF FlightInv, NoStaleFlight, IsRunning, Running, TypeOK, k
  <2>5. Published'
    BY <1>1, <2>1, <2>2, LookupAssumption DEF FlightInv, Published, IsRunning, TypeOK, k
  <2>6. NobodyWaitsInVain'
    BY <1>1, <2>1, <2>2 DEF FlightInv, NobodyWaitsInVain, Running, TypeOK, k
  <2> QED
    BY <1>1, <2>4, <2>5, <2>6 DEF FlightInv
<1> QED
  BY <1>2, <1>3, <1>4 DEF Call

LEMMA FlightStep ==
    ASSUME FlightInv, NEW e \in Requests, Step(e)
    PROVE  FlightInv'
<1>1. TypeOK /\ TypeOK'
  BY TypeStep DEF FlightInv
<1>2. /\ IsRunning(e) /\ UNCHANGED <<input, phase, leader>>
      /\ GoesOn(e) \/ Settles(e)
  BY <1>1, StepShape
<1>3. CASE GoesOn(e)
  <2>1. /\ IsRunning(e)' /\ UNCHANGED inFlight
        /\ \A f \in Requests : f # e => exec'[f] = exec[f]
    BY <1>3 DEF GoesOn, IsRunning
  <2>2. NoStaleFlight'
    BY <1>1, <1>2, <2>1 DEF FlightInv, NoStaleFlight, IsRunning, TypeOK
  <2>3. Published'
    BY <1>2, <2>1 DEF FlightInv, Published, IsRunning
  <2>4. NobodyWaitsInVain'
    BY <1>2, <2>1 DEF FlightInv, NobodyWaitsInVain, IsRunning
  <2> QED
    BY <1>1, <2>2, <2>3, <2>4 DEF FlightInv
<1>4. CASE Settles(e)
  <2>1. inFlight[input[e].key] = e
    BY <1>2 DEF FlightInv, Published
  <2>2. NoStaleFlight'
    BY <1>1, <1>2, <1>4, <2>1 DEF FlightInv, Settles, NoStaleFlight, IsRunning, TypeOK
  <2>3. Published'
    BY <1>1, <1>2, <1>4, <2>1 DEF FlightInv, Settles, Published, IsRunning, Running, TypeOK
  <2>4. NobodyWaitsInVain'
    BY <1>1, <1>2, <1>4 DEF FlightInv, Settles, NobodyWaitsInVain, TypeOK
  <2> QED
    BY <1>1, <2>2, <2>3, <2>4 DEF FlightInv
<1> QED
  BY <1>2, <1>3, <1>4

LEMMA FlightResume ==
    ASSUME FlightInv, NEW r \in Requests, Resume(r)
    PROVE  FlightInv'
<1>1. TypeOK /\ TypeOK'
  BY TypeResume DEF FlightInv
<1>2. /\ UNCHANGED <<inFlight, input, leader, exec>>
      /\ \A x \in Requests : phase'[x] = "waiting" => phase[x] = "waiting"
  <2>1. CASE Receive(r)
    BY <1>1, <2>1 DEF Receive, TypeOK
  <2>2. CASE Answer(r)
    BY <1>1, <2>2 DEF Answer, TypeOK
  <2> QED
    BY <2>1, <2>2 DEF Resume
<1>3. NoStaleFlight' /\ Published'
  BY <1>2 DEF FlightInv, NoStaleFlight, Published, IsRunning
<1>4. NobodyWaitsInVain'
  BY <1>2 DEF FlightInv, NobodyWaitsInVain
<1> QED
  BY <1>1, <1>3, <1>4 DEF FlightInv

LEMMA FlightEnvironment ==
    ASSUME FlightInv, Tick \/ Restart \/ UNCHANGED vars
    PROVE  FlightInv'
<1>1. CASE Tick
  BY <1>1, TypeTick
  DEF FlightInv, Tick, NoStaleFlight, Published, NobodyWaitsInVain, IsRunning, callVars
<1>2. CASE Restart
  <2>1. TypeOK /\ TypeOK'
    BY <1>2, TypeRestart DEF FlightInv
  <2>2. NoStaleFlight'
    BY <1>2 DEF Restart, NoStaleFlight
  <2>3. \A e \in Requests : exec'[e].stage \in {"none", "dead"}
    BY <1>2 DEF Restart, NoExecution
  <2>4. Published'
    BY <2>3 DEF Published, IsRunning, Running
  <2>5. NobodyWaitsInVain'
    BY <1>2, <2>1 DEF Restart, NobodyWaitsInVain, TypeOK
  <2> QED
    BY <2>1, <2>2, <2>4, <2>5 DEF FlightInv
<1>3. CASE UNCHANGED vars
  BY <1>3 DEF vars, FlightInv, TypeOK, NoStaleFlight, Published, NobodyWaitsInVain, IsRunning
<1> QED
  BY <1>1, <1>2, <1>3

LEMMA FlightNext == FlightInv /\ [Next]_vars => FlightInv'
BY FlightCall, FlightStep, FlightResume, FlightEnvironment DEF Next, Finished

\* The invariant the theorems about executions follow from.
THEOREM FlightInvariance == Spec => []FlightInv
BY FlightInit, FlightNext, PTL DEF Spec

\* Every variable keeps its type, whatever the numbers of calls and transactions.
THEOREM TypeCorrect == Spec => []TypeOK
BY FlightInvariance, PTL DEF FlightInv

\* Provider work is never duplicated for a transaction (inFlightLookups).
THEOREM Deduplication == Spec => []OneExecutionPerKey
<1>1. FlightInv => OneExecutionPerKey
  BY DEF FlightInv, Published, OneExecutionPerKey
<1> QED
  BY FlightInvariance, <1>1, PTL

\* No call is left waiting for an execution that cannot settle.
THEOREM NobodyStranded == Spec => [](NoStaleFlight /\ NobodyWaitsInVain)
BY FlightInvariance, PTL DEF FlightInv

-----------------------------------------------------------------------------
-----------------------------------------------------------------------------
(***************************************************************************)
(* TransactionLookup implements SharedFlight: every step of the service is a *)
(* step of shared flights, or changes nothing its callers can see of them.   *)
(***************************************************************************)

(* What the mapping needs beyond FlightInv: a call that has not begun has     *)
(* neither an execution nor a reply, and settled executions have a result.   *)

Untouched == \A r \in Requests : phase[r] = "new" =>
                leader[r] = NoOne /\ reply[r] = NoReply /\ exec[r].stage = "none"
Resulted == \A e \in Requests : exec[e].stage = "settled" => exec[e].reply # NoReply

ViewInv == FlightInv /\ Untouched /\ Resulted

LEMMA ViewInit == Init => ViewInv
<1>1. Init => Untouched /\ Resulted
  BY DEF Init, Untouched, Resulted, NoExecution
<1> QED
  BY <1>1, FlightInit DEF ViewInv

LEMMA ViewNext == ViewInv /\ [Next]_vars => ViewInv'
<1> SUFFICES ASSUME ViewInv, [Next]_vars PROVE ViewInv'
  OBVIOUS
<1>1. FlightInv' /\ TypeOK /\ TypeOK'
  BY FlightNext DEF ViewInv, FlightInv
<1>2. ASSUME NEW r \in Requests, Call(r) PROVE Untouched' /\ Resulted'
  <2>1. CASE Join(r)
    BY <1>1, <2>1 DEF Join, ViewInv, Untouched, Resulted, TypeOK
  <2>2. CASE Refuse(r)
    BY <1>1, <2>2 DEF Refuse, ViewInv, Untouched, Resulted, TypeOK
  <2>3. CASE Lead(r)
    <3>1. /\ exec'[r].stage = "reading" /\ \A x \in Requests \ {r} : exec'[x] = exec[x]
          /\ phase'[r] = "waiting" /\ \A x \in Requests \ {r} : phase'[x] = phase[x]
          /\ \A x \in Requests \ {r} : leader'[x] = leader[x]
          /\ reply' = reply
      BY <1>1, <2>3 DEF Lead, TypeOK, Execution
    <3> QED
      BY <3>1 DEF ViewInv, Untouched, Resulted
  <2> QED
    BY <1>2, <2>1, <2>2, <2>3 DEF Call
<1>3. ASSUME NEW e \in Requests, Step(e) PROVE Untouched' /\ Resulted'
  <2>1. /\ IsRunning(e) /\ phase' = phase /\ leader' = leader /\ reply' = reply
        /\ GoesOn(e) \/ Settles(e)
    BY <1>1, <1>3, StepShape
  <2>2. Untouched'
    BY <2>1 DEF ViewInv, Untouched, GoesOn, Settles, IsRunning, Running
  <2>3. Resulted'
    BY <2>1 DEF ViewInv, Resulted, GoesOn, Settles, Running
  <2> QED
    BY <2>2, <2>3
<1>4. ASSUME NEW r \in Requests, Resume(r) PROVE Untouched' /\ Resulted'
  <2>1. CASE Receive(r)
    BY <1>1, <2>1 DEF Receive, ViewInv, Untouched, Resulted, TypeOK
  <2>2. CASE Answer(r)
    BY <1>1, <2>2 DEF Answer, ViewInv, Untouched, Resulted, TypeOK
  <2> QED
    BY <1>4, <2>1, <2>2 DEF Resume
<1>5. CASE Tick
  BY <1>1, <1>5 DEF Tick, callVars, ViewInv, Untouched, Resulted
<1>6. CASE Restart
  <2>1. \A r \in Requests : phase'[r] = "new" => phase[r] = "new"
    BY <1>6 DEF Restart
  <2>2. \A e \in Requests : /\ exec'[e].stage \in {"none", "dead"}
                            /\ exec[e].stage = "none" => exec'[e] = exec[e]
    BY <1>6 DEF Restart, NoExecution
  <2> QED
    BY <1>1, <1>6, <2>1, <2>2 DEF Restart, ViewInv, Untouched, Resulted
<1>7. CASE UNCHANGED vars
  BY <1>1, <1>7 DEF vars, ViewInv, Untouched, Resulted
<1> QED
  BY <1>1, <1>2, <1>3, <1>4, <1>5, <1>6, <1>7 DEF Next, Finished, ViewInv

-----------------------------------------------------------------------------
(* The step of shared flights behind each step of the service.               *)

\* The variables of SharedFlight as the service implements them.
AskedView    == [r \in Requests |-> input[r].key]
StandingOf(r) == IF phase[r] \in {"recording", "answered"}
                 THEN IF leader[r] = NoOne THEN "refused" ELSE "served"
                 ELSE phase[r]
LandedOf(r)  == IF exec[r].stage = "settled" THEN exec[r].reply ELSE NoReply
GotOf(r)     == IF leader[r] = NoOne THEN NoReply ELSE reply[r]
StandingView == [r \in Requests |-> StandingOf(r)]
LandedView   == [r \in Requests |-> LandedOf(r)]
GotView      == [r \in Requests |-> GotOf(r)]

LEMMA MapInit == Init => Flights!Init
BY DEF Init, Flights!Init, NoExecution, NoReply

LEMMA MapCall ==
    ASSUME ViewInv, NEW r \in Requests, Call(r)
    PROVE  Flights!Board(r) \/ Flights!TurnAway(r)
<1> DEFINE k == input[r].key
<1>1. /\ TypeOK /\ k \in Keys
      /\ phase[r] = "new" /\ leader[r] = NoOne /\ reply[r] = NoReply /\ exec[r].stage = "none"
      /\ input' = input
  BY DEF ViewInv, FlightInv, TypeOK, Untouched, Call, Join, Refuse, Lead
<1>2. CASE Join(r)
  <2>1. /\ inFlight[k] # NoOne /\ inFlight' = inFlight /\ exec' = exec /\ reply' = reply
        /\ leader' = [leader EXCEPT ![r] = inFlight[k]]
        /\ phase' = [phase EXCEPT ![r] = "waiting"]
    BY <1>2 DEF Join, UnderWay
  <2> HIDE DEF k
  <2>2. /\ inFlight' = [inFlight EXCEPT ![k] = inFlight[k]]
        /\ LandedView' = LandedView /\ AskedView' = AskedView
        /\ StandingView' = [StandingView EXCEPT ![r] = "waiting"]
        /\ GotView' = GotView
    BY <1>1, <2>1 DEF TypeOK, LandedView, LandedOf, AskedView, StandingView, StandingOf,
                      GotView, GotOf
  <2> QED
    BY <1>1, <2>1, <2>2
    DEF Flights!Board, LandedView, LandedOf, AskedView, StandingView, StandingOf, GotView, GotOf, k
<1>3. CASE Refuse(r)
  <2>1. /\ inFlight[k] = NoOne /\ inFlight' = inFlight /\ exec' = exec /\ leader' = leader
        /\ phase' = [phase EXCEPT ![r] = "recording"]
        /\ reply' = [reply EXCEPT ![r] = Failure("RATE_LIMIT_EXCEEDED")]
    BY <1>3 DEF Refuse, UnderWay
  <2>2. /\ LandedView' = LandedView /\ AskedView' = AskedView
        /\ StandingView' = [StandingView EXCEPT ![r] = "refused"]
        /\ GotView' = GotView
    BY <1>1, <2>1 DEF TypeOK, LandedView, LandedOf, AskedView, StandingView, StandingOf,
                      GotView, GotOf
  <2> QED
    BY <1>1, <2>1, <2>2
    DEF Flights!TurnAway, LandedView, LandedOf, AskedView, StandingView, StandingOf, GotView, GotOf
<1>4. CASE Lead(r)
  <2>1. /\ inFlight[k] = NoOne /\ inFlight' = [inFlight EXCEPT ![k] = r] /\ reply' = reply
        /\ leader' = [leader EXCEPT ![r] = r]
        /\ phase' = [phase EXCEPT ![r] = "waiting"]
    BY <1>4 DEF Lead, UnderWay
  <2>2. exec'[r].stage = "reading" /\ \A x \in Requests \ {r} : exec'[x] = exec[x]
    BY <1>1, <1>4 DEF Lead, TypeOK, Execution
  <2> HIDE DEF k
  <2>3. /\ LandedView' = LandedView /\ AskedView' = AskedView
        /\ StandingView' = [StandingView EXCEPT ![r] = "waiting"]
        /\ GotView' = GotView
    BY <1>1, <2>1, <2>2, LookupAssumption
    DEF TypeOK, LandedView, LandedOf, AskedView, StandingView, StandingOf, GotView, GotOf
  <2> QED
    BY <1>1, <2>1, <2>3
    DEF Flights!Board, LandedView, LandedOf, AskedView, StandingView, StandingOf, GotView, GotOf, k
<1> QED
  BY <1>2, <1>3, <1>4 DEF Call

LEMMA MapStep ==
    ASSUME ViewInv, NEW e \in Requests, Step(e), NEW k \in Keys, k = input[e].key
    PROVE  Flights!Land(k) \/ UNCHANGED Flights!flightVars
<1>1. /\ TypeOK /\ TypeOK'
  BY TypeStep DEF ViewInv, FlightInv
<1>2. /\ IsRunning(e)
      /\ GoesOn(e) \/ Settles(e)
      /\ inFlight[k] = e /\ e # NoOne
  BY <1>1, StepShape, LookupAssumption DEF ViewInv, FlightInv, Published
<1>3. input' = input /\ phase' = phase /\ leader' = leader /\ reply' = reply
  BY <1>1, StepShape
<1>4. AskedView' = AskedView /\ StandingView' = StandingView /\ GotView' = GotView
  BY <1>3 DEF AskedView, StandingView, StandingOf, GotView, GotOf
<1>5. CASE GoesOn(e)
  <2>1. inFlight' = inFlight /\ LandedView' = LandedView
    BY <1>2, <1>5 DEF GoesOn, IsRunning, Running, LandedView, LandedOf
  <2> QED
    BY <1>3, <1>4, <2>1
    DEF Flights!flightVars, LandedView, LandedOf, AskedView, StandingView, StandingOf, GotView, GotOf
<1>6. CASE Settles(e)
  <2>1. /\ inFlight' = [inFlight EXCEPT ![k] = NoOne]
        /\ LandedView'[e] \in Replies \ {NoReply}
        /\ \A f \in Requests \ {e} : LandedView'[f] = LandedView[f]
    BY <1>1, <1>6 DEF TypeOK, Settles, LandedView, LandedOf
  <2>2. LandedView' \in [Requests -> (Replies \ {NoReply}) \cup {NoReply}]
    BY <1>1 DEF TypeOK, Execution, LandedView, LandedOf
  <2> QED
    BY <1>2, <1>3, <1>4, <2>1, <2>2
    DEF Flights!Land, LandedView, LandedOf, AskedView, StandingView, StandingOf, GotView, GotOf
<1> QED
  BY <1>2, <1>5, <1>6

LEMMA MapResume ==
    ASSUME ViewInv, NEW r \in Requests, Resume(r)
    PROVE  Flights!Serve(r) \/ UNCHANGED Flights!flightVars
<1>1. TypeOK /\ inFlight' = inFlight /\ input' = input /\ leader' = leader /\ exec' = exec
  BY DEF ViewInv, FlightInv, Resume, Receive, Answer
<1>2. AskedView' = AskedView /\ LandedView' = LandedView
  BY <1>1 DEF AskedView, LandedView, LandedOf
<1>3. CASE Receive(r)
  <2>1. /\ phase[r] = "waiting" /\ leader[r] \in Requests /\ leader[r] # NoOne
        /\ exec[leader[r]].stage = "settled" /\ exec[leader[r]].reply # NoReply
        /\ reply' = [reply EXCEPT ![r] = exec[leader[r]].reply]
        /\ phase' = [phase EXCEPT ![r] = "recording"]
    BY <1>3, LookupAssumption DEF Receive, ViewInv, FlightInv, NobodyWaitsInVain, Resulted
  <2>2. /\ StandingView[r] = "waiting" /\ LandedView[leader[r]] # NoReply
        /\ StandingView' = [StandingView EXCEPT ![r] = "served"]
        /\ GotView' = [GotView EXCEPT ![r] = LandedView[leader[r]]]
    BY <1>1, <2>1 DEF TypeOK, StandingView, StandingOf, LandedView, LandedOf, GotView, GotOf
  <2> QED
    BY <1>1, <1>2, <2>2
    DEF Flights!Serve, LandedView, LandedOf, AskedView, StandingView, StandingOf, GotView, GotOf
<1>4. CASE Answer(r)
  <2>1. StandingView' = StandingView /\ GotView' = GotView
    BY <1>1, <1>4 DEF Answer, TypeOK, StandingView, StandingOf, GotView, GotOf
  <2> QED
    BY <1>1, <1>2, <2>1
    DEF Flights!flightVars, LandedView, LandedOf, AskedView, StandingView, StandingOf, GotView, GotOf
<1> QED
  BY <1>3, <1>4 DEF Resume

LEMMA MapEnvironment ==
    ASSUME ViewInv, Tick \/ Restart \/ UNCHANGED vars
    PROVE  Flights!Crash \/ UNCHANGED Flights!flightVars
<1>1. CASE Tick \/ UNCHANGED vars
  BY <1>1 DEF Tick, vars, callVars, Flights!flightVars
<1>2. CASE Restart
  <2>1. /\ TypeOK /\ input' = input /\ leader' = leader /\ reply' = reply
        /\ inFlight' = [k \in Keys |-> NoOne]
        /\ phase' = [r \in Requests |->
                        IF phase[r] \in {"waiting", "recording"} THEN "lost" ELSE phase[r]]
    BY <1>2 DEF Restart, ViewInv, FlightInv
  <2>2. \A e \in Requests : exec'[e].stage \in {"none", "dead"}
    BY <1>2 DEF Restart, NoExecution
  <2>3. AskedView' = AskedView /\ GotView' = GotView
    BY <2>1 DEF AskedView, GotView, GotOf
  <2>4. LandedView' = [r \in Requests |-> NoReply]
    BY <2>2 DEF LandedView, LandedOf
  <2> DEFINE gone == {c \in Requests : phase[c] = "recording"}
  <2>5. gone \in SUBSET {c \in Requests : StandingView[c] \in {"served", "refused"}}
    BY DEF StandingView, StandingOf
  <2>6. StandingView' = [c \in Requests |->
           IF StandingView[c] = "waiting" \/ c \in gone THEN "lost" ELSE StandingView[c]]
    BY <2>1 DEF TypeOK, Phases, StandingView, StandingOf
  <2> HIDE DEF gone
  <2> QED
    BY <2>1, <2>3, <2>4, <2>5, <2>6
    DEF Flights!Crash, LandedView, LandedOf, AskedView, StandingView, StandingOf, GotView, GotOf
<1> QED
  BY <1>1, <1>2

\* However calls, provider answers, refusals and restarts interleave, every caller
\* gets the result of one execution for its own key that was under way when it
\* called (the sharing of promises in lookupTransaction).
THEOREM ImplementsFlights == Spec => SharesFlights
<1>1. ViewInv /\ [Next]_vars => [Flights!Next]_(Flights!flightVars)
  <2> SUFFICES ASSUME ViewInv, [Next]_vars
               PROVE  Flights!Next \/ UNCHANGED Flights!flightVars
    OBVIOUS
  <2>1. ASSUME NEW r \in Requests, Call(r) PROVE Flights!Next
    BY <2>1, MapCall DEF Flights!Next
  <2>2. ASSUME NEW r \in Requests, Step(r) PROVE Flights!Next \/ UNCHANGED Flights!flightVars
    <3>1. PICK k \in Keys : k = input[r].key
      BY DEF ViewInv, FlightInv, TypeOK
    <3>2. Flights!Land(k) \/ UNCHANGED Flights!flightVars
      BY <2>2, <3>1, MapStep
    <3> QED
      BY <3>2 DEF Flights!Next
  <2>3. ASSUME NEW r \in Requests, Resume(r) PROVE Flights!Next \/ UNCHANGED Flights!flightVars
    BY <2>3, MapResume DEF Flights!Next
  <2>4. CASE Tick \/ Restart \/ UNCHANGED vars
    BY <2>4, MapEnvironment DEF Flights!Next
  <2> QED
    BY <2>1, <2>2, <2>3, <2>4 DEF Next, Finished
<1> QED
  BY ViewInit, ViewNext, MapInit, <1>1, PTL DEF Spec, SharesFlights, Flights!Spec

-----------------------------------------------------------------------------
-----------------------------------------------------------------------------
(***************************************************************************)
(* Theorems about the cooldowns of manual refreshes in TransactionLookup.    *)
(* The memory of a refresh is its entry in refreshAfter, or the clock once   *)
(* the cooldown has passed: that is what the inductive invariant says.       *)
(***************************************************************************)

Started(e)   == exec[e].stage \notin {"none", "dead"}
Refreshed(e) == Started(e) /\ input[e].refresh

NewIsIdle == \A r \in Requests : phase[r] = "new" => exec[r].stage = "none"

StartedInThePast == \A e \in Requests : Started(e) => exec[e].startedAt <= clock

CooldownRemembered ==
    \A e \in Requests : Refreshed(e) =>
        \/ exec[e].startedAt + Cooldown <= refreshAfter[input[e].key]
        \/ exec[e].startedAt + Cooldown <= clock

CooldownInv ==
    /\ FlightInv
    /\ NewIsIdle
    /\ StartedInThePast
    /\ CooldownRemembered
    /\ RefreshSpacing
    /\ CooldownEarned

LEMMA CooldownInit == Init => CooldownInv
<1> SUFFICES ASSUME Init PROVE CooldownInv
  OBVIOUS
<1>1. FlightInv
  BY FlightInit
<1>2. \A e \in Requests : exec[e].stage = "none"
  BY DEF Init, NoExecution
<1>3. NewIsIdle /\ StartedInThePast /\ CooldownRemembered /\ RefreshSpacing
  BY <1>2 DEF NewIsIdle, StartedInThePast, CooldownRemembered, Started, Refreshed, RefreshSpacing
<1>4. CooldownEarned
  BY DEF Init, CooldownEarned
<1> QED
  BY <1>1, <1>3, <1>4 DEF CooldownInv

\* Whatever neither starts an execution nor touches a cooldown keeps the
\* invariant: the executions that count are among those that counted before.
LEMMA CooldownKept ==
    ASSUME CooldownInv, FlightInv', UNCHANGED <<input, refreshAfter>>, clock <= clock',
           \A r \in Requests : phase'[r] = "new" => phase[r] = "new",
           \A e \in Requests : /\ Started(e)' <=> Started(e)
                               /\ exec[e].stage = "none" => exec'[e].stage = "none"
                               /\ exec'[e].startedAt = exec[e].startedAt
    PROVE  CooldownInv'
<1>1. TypeOK /\ TypeOK'
  BY DEF CooldownInv, FlightInv
<1>2. clock \in Nat /\ clock' \in Nat
  BY <1>1 DEF TypeOK
<1>3. \A e \in Requests : exec[e].startedAt \in Nat
  BY <1>1 DEF TypeOK, Execution
<1>4. NewIsIdle'
  BY DEF CooldownInv, NewIsIdle
<1>5. StartedInThePast'
  BY <1>2, <1>3 DEF CooldownInv, StartedInThePast
<1>6. CooldownRemembered'
  BY <1>2, <1>3, LookupAssumption DEF CooldownInv, CooldownRemembered, Refreshed
<1>7. RefreshSpacing'
  BY DEF CooldownInv, RefreshSpacing, Started
<1>8. CooldownEarned'
  BY DEF CooldownInv, CooldownEarned, Started
<1> QED
  BY <1>4, <1>5, <1>6, <1>7, <1>8 DEF CooldownInv

\* Dropping the expired cooldowns forgets nothing that the clock does not tell.
LEMMA PurgeKept ==
    ASSUME CooldownInv
    PROVE  /\ Purged \in [Keys -> Nat]
           /\ \A k \in Keys : Purged[k] # 0 => Purged[k] = refreshAfter[k]
           /\ \A k \in Keys : refreshAfter[k] <= clock \/ Purged[k] = refreshAfter[k]
           /\ \A e \in Requests : Refreshed(e) =>
                \/ exec[e].startedAt + Cooldown <= Purged[input[e].key]
                \/ exec[e].startedAt + Cooldown <= clock
<1>1. /\ clock \in Nat /\ refreshAfter \in [Keys -> Nat]
      /\ \A e \in Requests : input[e].key \in Keys /\ exec[e].startedAt \in Nat
  BY DEF CooldownInv, FlightInv, TypeOK, Execution
<1>2. /\ Purged \in [Keys -> Nat]
      /\ \A k \in Keys : Purged[k] # 0 => Purged[k] = refreshAfter[k]
      /\ \A k \in Keys : refreshAfter[k] <= clock \/ Purged[k] = refreshAfter[k]
  BY <1>1 DEF Purged
<1>3. ASSUME NEW e \in Requests, Refreshed(e)
      PROVE  \/ exec[e].startedAt + Cooldown <= Purged[input[e].key]
             \/ exec[e].startedAt + Cooldown <= clock
  <2>1. \/ exec[e].startedAt + Cooldown <= refreshAfter[input[e].key]
        \/ exec[e].startedAt + Cooldown <= clock
    BY <1>3 DEF CooldownInv, CooldownRemembered
  <2> QED
    BY <1>1, <1>2, <2>1, LookupAssumption
<1> QED
  BY <1>2, <1>3

LEMMA CooldownCall ==
    ASSUME CooldownInv, NEW r \in Requests, Call(r)
    PROVE  CooldownInv'
<1>1. FlightInv /\ FlightInv' /\ TypeOK /\ TypeOK'
  BY FlightCall DEF CooldownInv, FlightInv
<1>2. /\ clock \in Nat /\ input[r].key \in Keys
      /\ \A e \in Requests : exec[e].startedAt \in Nat
  BY <1>1 DEF TypeOK, Execution
<1>3. CASE Join(r)
  <2>1. \A x \in Requests : phase'[x] = "new" => phase[x] = "new"
    BY <1>1, <1>3 DEF Join, TypeOK
  <2> QED
    BY <1>1, <1>2, <1>3, <2>1, CooldownKept DEF Join, Started
<1>4. CASE Refuse(r)
  <2>1. /\ UNCHANGED <<clock, input, exec>> /\ refreshAfter' = Purged
        /\ \A x \in Requests : phase'[x] = "new" => phase[x] = "new"
    BY <1>1, <1>4 DEF Refuse, TypeOK
  <2>2. NewIsIdle' /\ StartedInThePast' /\ RefreshSpacing'
    BY <2>1 DEF CooldownInv, NewIsIdle, StartedInThePast, RefreshSpacing, Started
  <2>3. CooldownRemembered'
    BY <2>1, PurgeKept DEF CooldownRemembered, Refreshed, Started
  <2>4. CooldownEarned'
    BY <2>1, PurgeKept DEF CooldownInv, CooldownEarned
  <2> QED
    BY <1>1, <2>2, <2>3, <2>4 DEF CooldownInv
<1>5. CASE Lead(r)
  <2> DEFINE k == input[r].key
  <2>1. /\ UNCHANGED <<clock, input>> /\ exec[r].stage = "none"
        /\ phase'[r] # "new" /\ \A x \in Requests \ {r} : phase'[x] = phase[x]
    BY <1>1, <1>5 DEF Lead, TypeOK, CooldownInv, NewIsIdle
  <2>2. /\ exec'[r].stage = "reading" /\ exec'[r].startedAt = clock
        /\ \A x \in Requests \ {r} : exec'[x] = exec[x]
    BY <1>1, <1>5 DEF Lead, TypeOK, Execution
  <2>3. Started(r)' /\ ~Started(r) /\ \A x \in Requests \ {r} : Started(x)' <=> Started(x)
    BY <2>1, <2>2 DEF Started
  <2>4. NewIsIdle' /\ StartedInThePast'
    BY <1>2, <2>1, <2>2, <2>3 DEF CooldownInv, NewIsIdle, StartedInThePast
  <2>5. CASE ~input[r].refresh
    <3>1. UNCHANGED refreshAfter
      BY <1>5, <2>5 DEF Lead
    <3>2. CooldownRemembered'
      BY <2>1, <2>2, <2>3, <2>5, <3>1 DEF CooldownInv, CooldownRemembered, Refreshed
    <3>3. RefreshSpacing'
      BY <2>1, <2>2, <2>3, <2>5 DEF CooldownInv, RefreshSpacing, Started
    <3>4. CooldownEarned'
      BY <2>1, <2>2, <2>3, <2>5, <3>1 DEF CooldownInv, CooldownEarned, Started
    <3> QED
      BY <1>1, <2>4, <3>2, <3>3, <3>4 DEF CooldownInv
  <2>6. CASE input[r].refresh
    <3>1. refreshAfter' = [Purged EXCEPT ![k] = clock + Cooldown] /\ Purged[k] <= clock
      BY <1>2, <1>5, <2>6, PurgeKept DEF Lead, RefreshRefused
    <3>2. /\ refreshAfter'[k] = clock + Cooldown /\ k \in Keys
          /\ \A j \in Keys \ {k} : refreshAfter'[j] = Purged[j]
      BY <1>2, <3>1, PurgeKept
    <3>3. \A e \in Requests : Refreshed(e) /\ input[e].key = k =>
            exec[e].startedAt + Cooldown <= clock
      BY <1>2, <3>1, PurgeKept, LookupAssumption
    <3> HIDE DEF k
    <3>4. CooldownRemembered'
      <4> SUFFICES ASSUME NEW e \in Requests, Refreshed(e)'
                   PROVE  \/ exec'[e].startedAt + Cooldown <= refreshAfter'[input[e].key]
                          \/ exec'[e].startedAt + Cooldown <= clock
        BY <2>1 DEF CooldownRemembered
      <4>1. CASE e = r
        BY <1>2, <2>2, <3>2, <4>1, LookupAssumption DEF k
      <4>2. CASE e # r
        <5>1. Refreshed(e) /\ exec'[e] = exec[e] /\ input[e].key \in Keys
          BY <1>1, <2>1, <2>2, <2>3, <4>2 DEF Refreshed, TypeOK
        <5>2. CASE input[e].key = k
          BY <3>3, <5>1, <5>2
        <5>3. CASE input[e].key # k
          BY <3>2, <5>1, <5>3, PurgeKept
        <5> QED
          BY <5>2, <5>3
      <4> QED
        BY <4>1, <4>2
    <3>5. RefreshSpacing'
      <4>1. \A f \in Requests \ {r} : Started(f)' /\ input[f] = input[r] =>
              exec'[r].startedAt >= exec'[f].startedAt + Cooldown
        BY <2>2, <2>3, <2>6, <3>3 DEF Refreshed, k
      <4> QED
        BY <2>1, <2>2, <2>3, <4>1 DEF CooldownInv, RefreshSpacing, Started
    <3>6. CooldownEarned'
      <4> SUFFICES ASSUME NEW j \in Keys, refreshAfter'[j] # 0
                   PROVE  \E e \in Requests :
                            /\ input[e] = [key |-> j, refresh |-> TRUE]
                            /\ Started(e)'
                            /\ refreshAfter'[j] = exec'[e].startedAt + Cooldown
        BY <2>1 DEF CooldownEarned, Started
      <4>1. CASE j = k
        <5>1. input[r] = [key |-> j, refresh |-> TRUE]
          BY <1>1, <2>6, <4>1 DEF TypeOK, k
        <5> QED
          BY <2>2, <2>3, <3>2, <4>1, <5>1
      <4>2. CASE j # k
        <5>1. refreshAfter'[j] = refreshAfter[j] /\ refreshAfter[j] # 0
          BY <3>2, <4>2, PurgeKept
        <5>2. PICK e \in Requests : /\ input[e] = [key |-> j, refresh |-> TRUE]
                                    /\ Started(e)
                                    /\ refreshAfter[j] = exec[e].startedAt + Cooldown
          BY <5>1 DEF CooldownInv, CooldownEarned, Started
        <5> QED
          BY <2>2, <2>3, <5>1, <5>2
      <4> QED
        BY <4>1, <4>2
    <3> QED
      BY <1>1, <2>4, <3>4, <3>5, <3>6 DEF CooldownInv
  <2> QED
    BY <2>5, <2>6
<1> QED
  BY <1>3, <1>4, <1>5 DEF Call

LEMMA CooldownStep ==
    ASSUME CooldownInv, NEW e \in Requests, Step(e)
    PROVE  CooldownInv'
<1>1. FlightInv /\ FlightInv' /\ TypeOK /\ TypeOK'
  BY FlightStep DEF CooldownInv, FlightInv
<1>2. /\ IsRunning(e) /\ UNCHANGED <<input, phase, clock, refreshAfter>>
      /\ GoesOn(e) \/ Settles(e)
  BY <1>1, StepShape
<1>3. /\ exec'[e].stage \in Running \cup {"settled"}
      /\ exec'[e].startedAt = exec[e].startedAt
      /\ \A f \in Requests \ {e} : exec'[f] = exec[f]
  BY <1>2 DEF GoesOn, Settles
<1>4. \A f \in Requests : /\ Started(f)' <=> Started(f)
                          /\ exec[f].stage = "none" => exec'[f].stage = "none"
                          /\ exec'[f].startedAt = exec[f].startedAt
  BY <1>2, <1>3 DEF Started, IsRunning, Running
<1>5. clock <= clock'
  BY <1>1, <1>2 DEF TypeOK
<1> QED
  BY <1>1, <1>2, <1>4, <1>5, CooldownKept

LEMMA CooldownResume ==
    ASSUME CooldownInv, NEW r \in Requests, Resume(r)
    PROVE  CooldownInv'
<1>1. FlightInv /\ FlightInv' /\ TypeOK
  BY FlightResume DEF CooldownInv, FlightInv
<1>2. /\ UNCHANGED <<clock, input, exec, refreshAfter>>
      /\ \A x \in Requests : phase'[x] = "new" => phase[x] = "new"
  <2>1. CASE Receive(r)
    BY <1>1, <2>1 DEF Receive, TypeOK
  <2>2. CASE Answer(r)
    BY <1>1, <2>2 DEF Answer, TypeOK
  <2> QED
    BY <2>1, <2>2 DEF Resume
<1>3. clock <= clock'
  BY <1>1, <1>2 DEF TypeOK
<1> QED
  BY <1>1, <1>2, <1>3, CooldownKept DEF Started

LEMMA CooldownEnvironment ==
    ASSUME CooldownInv, Tick \/ Restart \/ UNCHANGED vars
    PROVE  CooldownInv'
<1>1. FlightInv /\ FlightInv' /\ TypeOK
  BY FlightEnvironment DEF CooldownInv, FlightInv
<1>2. CASE Tick
  <2>1. clock <= clock'
    BY <1>1, <1>2 DEF Tick, TypeOK
  <2> QED
    BY <1>1, <1>2, <2>1, CooldownKept DEF Tick, callVars, Started
<1>3. CASE Restart
  <2>1. \A e \in Requests : /\ ~Started(e)'
                            /\ exec[e].stage = "none" => exec'[e].stage = "none"
    BY <1>3 DEF Restart, Started, NoExecution
  <2>2. \A r \in Requests : phase'[r] = "new" => phase[r] = "new"
    BY <1>3 DEF Restart
  <2>3. NewIsIdle'
    BY <2>1, <2>2 DEF CooldownInv, NewIsIdle
  <2>4. StartedInThePast' /\ CooldownRemembered' /\ RefreshSpacing'
    BY <2>1 DEF StartedInThePast, CooldownRemembered, Refreshed, RefreshSpacing, Started
  <2>5. CooldownEarned'
    BY <1>3 DEF Restart, CooldownEarned
  <2> QED
    BY <1>1, <2>3, <2>4, <2>5 DEF CooldownInv
<1>4. CASE UNCHANGED vars
  <2>1. clock <= clock'
    BY <1>1, <1>4 DEF vars, TypeOK
  <2> QED
    BY <1>1, <1>4, <2>1, CooldownKept DEF vars, Started
<1> QED
  BY <1>2, <1>3, <1>4

\* The invariant the theorems about refreshes follow from.
THEOREM CooldownInvariance == Spec => []CooldownInv
<1>1. CooldownInv /\ [Next]_vars => CooldownInv'
  BY CooldownCall, CooldownStep, CooldownResume, CooldownEnvironment DEF Next, Finished
<1> QED
  BY CooldownInit, <1>1, PTL DEF Spec

\* Two refreshes of one transaction that this process carried out are a cooldown
\* apart (refreshAfter in lookupTransaction).
THEOREM RefreshesSpaced == Spec => []RefreshSpacing
BY CooldownInvariance, PTL DEF CooldownInv

\* A refused refresh never starts or prolongs a cooldown.
THEOREM CooldownsEarned == Spec => []CooldownEarned
BY CooldownInvariance, PTL DEF CooldownInv

-----------------------------------------------------------------------------
(* The capacity of the map.                                                  *)

Marked(f) == {k \in Keys : f[k] # 0}

BoundInv == FlightInv /\ CooldownsBounded

LEMMA FewerMarked ==
    ASSUME NEW f, NEW g, \A k \in Keys : g[k] # 0 => f[k] # 0
    PROVE  Remembered(g) \in Nat /\ Remembered(g) <= Remembered(f) /\ Remembered(f) \in Nat
<1>1. IsFiniteSet(Marked(f)) /\ Marked(g) \subseteq Marked(f)
  BY LookupAssumption, FS_Subset DEF Marked
<1>2. /\ Cardinality(Marked(f)) \in Nat /\ Cardinality(Marked(g)) \in Nat
      /\ Cardinality(Marked(g)) <= Cardinality(Marked(f))
  BY <1>1, FS_Subset, FS_CardinalityType
<1> QED
  BY <1>2 DEF Remembered, Marked

LEMMA BoundNext == BoundInv /\ [Next]_vars => BoundInv'
<1> SUFFICES ASSUME BoundInv, [Next]_vars PROVE BoundInv'
  OBVIOUS
<1>1. FlightInv /\ FlightInv' /\ TypeOK /\ TypeOK'
  BY FlightNext DEF BoundInv, FlightInv
<1>2. Remembered(refreshAfter) \in Nat /\ Remembered(refreshAfter') \in Nat
  BY FewerMarked
<1>3. CASE \A k \in Keys : refreshAfter'[k] # 0 => refreshAfter[k] # 0
  BY <1>1, <1>2, <1>3, FewerMarked, LookupAssumption DEF BoundInv, CooldownsBounded
<1>4. CASE \E r \in Requests : Lead(r) /\ input[r].refresh
  <2>1. PICK r \in Requests : Lead(r) /\ input[r].refresh
    BY <1>4
  <2> DEFINE k == input[r].key
  <2>2. /\ k \in Keys /\ Purged \in [Keys -> Nat]
        /\ ~(Remembered(Purged) >= Capacity)
        /\ refreshAfter' = [Purged EXCEPT ![k] = clock + Cooldown]
    BY <1>1, <2>1 DEF Lead, RefreshRefused, Purged, TypeOK
  <2>3. IsFiniteSet(Marked(Purged)) /\ Marked(refreshAfter') \subseteq Marked(Purged) \cup {k}
    <3>1. Marked(Purged) \subseteq Keys
      BY DEF Marked
    <3>2. Marked(refreshAfter') \subseteq Marked(Purged) \cup {k}
      <4> HIDE DEF k
      <4> QED
        BY <2>2 DEF Marked
    <3> QED
      BY <3>1, <3>2, LookupAssumption, FS_Subset
  <2>4. /\ IsFiniteSet(Marked(Purged) \cup {k})
        /\ Cardinality(Marked(Purged)) \in Nat
        /\ Cardinality(Marked(Purged) \cup {k}) <= Cardinality(Marked(Purged)) + 1
    <3> DEFINE T == Marked(Purged)
    <3>1. IsFiniteSet(T) /\ Cardinality(T) \in Nat
      BY <2>3, FS_CardinalityType
    <3> HIDE DEF T
    <3>2. /\ IsFiniteSet(T \cup {k})
          /\ Cardinality(T \cup {k}) = IF k \in T THEN Cardinality(T) ELSE Cardinality(T) + 1
      BY <3>1, FS_AddElement
    <3>3. Cardinality(T \cup {k}) <= Cardinality(T) + 1
      BY <3>1, <3>2
    <3> QED
      BY <3>1, <3>2, <3>3 DEF T
  <2>5. Cardinality(Marked(refreshAfter')) <= Cardinality(Marked(Purged) \cup {k})
    BY <2>3, <2>4, FS_Subset
  <2>6. Remembered(Purged) = Cardinality(Marked(Purged))
    BY DEF Remembered, Marked
  <2>7. Remembered(refreshAfter') = Cardinality(Marked(refreshAfter'))
    BY DEF Remembered, Marked
  <2>8. Cardinality(Marked(Purged) \cup {k}) \in Nat
    BY <2>4, FS_CardinalityType
  <2> QED
    BY <1>1, <1>2, <2>2, <2>4, <2>5, <2>6, <2>7, <2>8, LookupAssumption
    DEF BoundInv, CooldownsBounded
<1>5. \/ \A k \in Keys : refreshAfter'[k] # 0 => refreshAfter[k] # 0
      \/ \E r \in Requests : Lead(r) /\ input[r].refresh
  <2>1. CASE UNCHANGED refreshAfter
    BY <2>1
  <2>2. CASE \E r \in Requests : Call(r)
    BY <2>2 DEF Call, Join, Refuse, Lead, Purged
  <2>3. CASE Restart
    BY <2>3 DEF Restart
  <2>4. \/ UNCHANGED refreshAfter \/ Restart \/ \E r \in Requests : Call(r)
    BY <1>1, StepShape DEF Next, Resume, Receive, Answer, Tick, Finished, vars
  <2> QED
    BY <2>1, <2>2, <2>3, <2>4
<1> QED
  BY <1>3, <1>4, <1>5

\* However many transactions are refreshed, the map never outgrows its capacity.
THEOREM CapacityRespected == Spec => []CooldownsBounded
<1>1. Init => BoundInv
  <2>1. Init => FlightInv
    BY FlightInit
  <2>2. ASSUME Init PROVE CooldownsBounded
    <3>1. Marked(refreshAfter) = {}
      BY <2>2 DEF Init, Marked
    <3> QED
      BY <3>1, FS_EmptySet, LookupAssumption DEF CooldownsBounded, Remembered, Marked
  <2> QED
    BY <2>1, <2>2 DEF BoundInv
<1> QED
  BY <1>1, BoundNext, PTL DEF Spec, BoundInv

-----------------------------------------------------------------------------
-----------------------------------------------------------------------------
(***************************************************************************)
(* Theorems about what TransactionLookup puts into Redis and serves out of   *)
(* it: how long answers live, when a receipt may be lost, and what a cached  *)
(* answer is.                                                                *)
(***************************************************************************)

(* The lifetime the code computes from the providers' answers is the one the *)
(* contents of the answer deserve.                                           *)

\* A complete story has a receipt.
Consistent(s) == s.coverage = "complete" => "receipt_unavailable" \notin s.reasons

LEMMA EvmConsistent ==
    ASSUME NEW base, NEW e \in Enrichment
    PROVE  Consistent(EvmSnapshot(base, e))
<1> DEFINE s == EvmSnapshot(base, e)
<1>1. s.coverage = Coverage(base, e) /\ s.reasons = CoverageReasons(base, e)
  BY DEF EvmSnapshot
<1> HIDE DEF s
<1>2. Consistent(s)
  BY <1>1 DEF Coverage, Consistent
<1> QED
  BY <1>2 DEF s

LEMMA UtxoConsistent ==
    ASSUME NEW u \in UtxoAnswer
    PROVE  Consistent(UtxoSnapshot(u))
BY DEF UtxoSnapshot, Consistent

LEMMA EvmLifetime ==
    ASSUME NEW base, NEW e \in Enrichment
    PROVE  EvmTtl(base, e) = Lifetime(EvmSnapshot(base, e))
<1> DEFINE s == EvmSnapshot(base, e)
<1>1. /\ s.status = ResolvedStatus(base, e) /\ s.recent = FALSE
      /\ s.coverage = Coverage(base, e) /\ s.reasons = CoverageReasons(base, e)
  BY DEF EvmSnapshot
<1>2. /\ e.temporaryFailure => "temporary_enrichment_failure" \in CoverageReasons(base, e)
      /\ "degraded" \in e.tokens => "temporary_enrichment_failure" \in CoverageReasons(base, e)
      /\ "provider_discrepancy" \in CoverageReasons(base, e) <=> Discrepancy(base, e)
  BY DEF CoverageReasons, Reasons
<1>3. s.status # "pending" =>
        (Shaky(s) <=> s.status = "unknown" \/ IsDegradedOrTemporaryFailure(base, e))
  <2> HIDE DEF s
  <2> QED
    BY <1>1, <1>2 DEF Shaky, IsDegradedOrTemporaryFailure
<1> HIDE DEF s
<1>4. EvmTtl(base, e) = Lifetime(s)
  BY <1>1, <1>3 DEF EvmTtl, ResolveTransactionCacheTtl, Lifetime
<1> QED
  BY <1>4 DEF s

LEMMA UtxoLifetime ==
    ASSUME NEW u \in UtxoAnswer
    PROVE  UtxoTtl(u) = Lifetime(UtxoSnapshot(u))
BY DEF UtxoAnswer, UtxoTtl, ResolveTransactionCacheTtl, Lifetime, Shaky, UtxoSnapshot

-----------------------------------------------------------------------------
(* The four things a step of an execution can do.                            *)

Asks(e) ==
    /\ exec[e].stage = "reading" /\ exec'[e].stage = "asking"
    /\ exec'[e].existing = exec[e].existing /\ exec'[e].reply = exec[e].reply
    /\ UNCHANGED redis

Fetches(e) ==
    /\ exec[e].stage = "asking" /\ exec'[e].stage \in {"checking", "writing"}
    /\ exec'[e].fresh \in Snapshot /\ exec'[e].ttl = Lifetime(exec'[e].fresh)
    /\ Consistent(exec'[e].fresh)
    /\ exec'[e].stage = "writing" => exec'[e].ttl > 0
    /\ exec'[e].existing = exec[e].existing /\ exec'[e].reply = exec[e].reply
    /\ UNCHANGED redis

Compares(e) ==
    /\ exec[e].stage = "checking" /\ exec'[e].stage = "writing"
    /\ exec'[e].fresh = exec[e].fresh /\ exec'[e].ttl = exec[e].ttl /\ exec[e].ttl > 0
    /\ exec'[e].existing \in MayRead(input[e].key)
    /\ ~KeepsExisting(exec'[e].existing, exec[e].fresh)
    /\ exec'[e].reply = exec[e].reply
    /\ UNCHANGED redis

Ends(e) ==
    /\ exec'[e].stage = "settled" /\ exec'[e].existing = NoSnapshot
    /\ exec'[e].fresh = exec[e].fresh
    /\ exec'[e].reply.hit =>
         /\ exec'[e].reply.snap \in MayRead(input[e].key)
         /\ IsValidCachedData(exec'[e].reply.snap)
         /\ input[e].refresh => KeepsExisting(exec'[e].reply.snap, exec[e].fresh)
    /\ \/ UNCHANGED redis
       \/ /\ exec[e].stage = "writing"
          /\ redis' = [redis EXCEPT ![input[e].key] =
                         [snap |-> exec[e].fresh, until |-> clock + exec[e].ttl]]

LEMMA SettleEnds ==
    ASSUME TypeOK, NEW e \in Requests, NEW result, Settle(e, result)
    PROVE  /\ exec'[e].stage = "settled" /\ exec'[e].existing = NoSnapshot
           /\ exec'[e].fresh = exec[e].fresh /\ exec'[e].reply = result
<1> DEFINE new == [exec[e] EXCEPT !.stage = "settled", !.reply = result,
                                  !.ttl = 0, !.existing = NoSnapshot]
<1>1. exec' = [exec EXCEPT ![e] = new] /\ exec \in [Requests -> Execution]
  BY DEF Settle, TypeOK
<1>2. /\ new.stage = "settled" /\ new.existing = NoSnapshot
      /\ new.fresh = exec[e].fresh /\ new.reply = result
  BY <1>1 DEF Execution
<1> HIDE DEF new
<1> QED
  BY <1>1, <1>2

LEMMA HitEnds ==
    ASSUME TypeOK, NEW e \in Requests, NEW got \in MayRead(input[e].key), UNCHANGED redis,
           Settle(e, Data(got, TRUE)), IsValidCachedData(got),
           input[e].refresh => KeepsExisting(got, exec[e].fresh)
    PROVE  Ends(e)
<1>1. /\ exec'[e].stage = "settled" /\ exec'[e].existing = NoSnapshot
      /\ exec'[e].fresh = exec[e].fresh /\ exec'[e].reply = Data(got, TRUE)
  BY SettleEnds
<1>2. exec'[e].reply.snap = got
  BY <1>1 DEF Data
<1> QED
  BY <1>1, <1>2 DEF Ends

LEMMA MissEnds ==
    ASSUME TypeOK, NEW e \in Requests, NEW result, result.hit = FALSE, Settle(e, result),
           \/ UNCHANGED redis
           \/ /\ exec[e].stage = "writing"
              /\ redis' = [redis EXCEPT ![input[e].key] =
                             [snap |-> exec[e].fresh, until |-> clock + exec[e].ttl]]
    PROVE  Ends(e)
<1>1. /\ exec'[e].stage = "settled" /\ exec'[e].existing = NoSnapshot
      /\ exec'[e].fresh = exec[e].fresh /\ exec'[e].reply = result
  BY SettleEnds
<1>2. ~exec'[e].reply.hit
  BY <1>1
<1> QED
  BY <1>1, <1>2 DEF Ends

LEMMA StepEffect ==
    ASSUME TypeOK, NEW e \in Requests, Step(e)
    PROVE  Asks(e) \/ Fetches(e) \/ Compares(e) \/ Ends(e)
<1>1. input[e].key \in Keys /\ exec \in [Requests -> Execution] /\ exec[e] \in Execution
  BY DEF TypeOK
<1>2. /\ \A s : Data(s, FALSE).hit = FALSE
      /\ \A c : Failure(c).hit = FALSE
  BY DEF Data, Failure
<1>3. CASE ReadCache(e)
  <2>1. PICK got \in MayRead(input[e].key) :
          IF ~input[e].refresh /\ IsValidCachedData(got)
          THEN Settle(e, Data(got, TRUE))
          ELSE exec' = [exec EXCEPT ![e] = [@ EXCEPT !.stage = "asking"]]
    BY <1>3 DEF ReadCache
  <2>2. exec[e].stage = "reading" /\ UNCHANGED redis
    BY <1>3 DEF ReadCache
  <2>3. CASE ~input[e].refresh /\ IsValidCachedData(got)
    BY <2>1, <2>2, <2>3, HitEnds
  <2>4. CASE ~(~input[e].refresh /\ IsValidCachedData(got))
    BY <1>1, <2>1, <2>2, <2>4 DEF Asks, Execution
  <2> QED
    BY <2>3, <2>4
<1>4. CASE AskUtxo(e)
  <2>1. PICK u \in UtxoAnswers :
          IF u.code # "OK" THEN Settle(e, Failure(u.code))
          ELSE IF UtxoTtl(u) > 0
          THEN exec' = [exec EXCEPT ![e] = [@ EXCEPT !.stage = "writing",
                              !.fresh = UtxoSnapshot(u), !.ttl = UtxoTtl(u)]]
          ELSE Settle(e, Data(UtxoSnapshot(u), FALSE))
    BY <1>4 DEF AskUtxo
  <2>2. exec[e].stage = "asking" /\ UNCHANGED redis /\ u \in UtxoAnswer
    BY <1>4, LookupAssumption DEF AskUtxo
  <2>3. CASE u.code = "OK" /\ UtxoTtl(u) > 0
    <3> DEFINE new == [exec[e] EXCEPT !.stage = "writing",
                                      !.fresh = UtxoSnapshot(u), !.ttl = UtxoTtl(u)]
    <3>1. exec' = [exec EXCEPT ![e] = new]
      BY <2>1, <2>3
    <3>2. /\ new.stage = "writing" /\ new.fresh = UtxoSnapshot(u) /\ new.ttl = UtxoTtl(u)
          /\ new.existing = exec[e].existing /\ new.reply = exec[e].reply
      BY <1>1 DEF Execution
    <3> HIDE DEF new
    <3> QED
      BY <1>1, <2>2, <2>3, <3>1, <3>2, UtxoSnapshotType, UtxoLifetime, UtxoConsistent DEF Fetches
  <2>4. CASE ~(u.code = "OK" /\ UtxoTtl(u) > 0)
    BY <1>2, <2>1, <2>2, <2>4, MissEnds
  <2> QED
    BY <2>3, <2>4
<1>5. CASE AskEvm(e)
  <2> DEFINE kind == KindOf[input[e].key]
             base(b, rpc) == BaseTransaction(kind, b, rpc)
  <2>1. PICK b \in ChairAnswers, rpc \in Enrichments :
          IF EvmError(kind, b, rpc) # "OK"
          THEN Settle(e, Failure(EvmError(kind, b, rpc)))
          ELSE exec' = [exec EXCEPT ![e] = [@ EXCEPT !.stage = "checking",
                              !.fresh = EvmSnapshot(base(b, rpc), rpc),
                              !.ttl = EvmTtl(base(b, rpc), rpc)]]
    BY <1>5 DEF AskEvm
  <2>2. exec[e].stage = "asking" /\ UNCHANGED redis /\ b \in ChairAnswer /\ rpc \in Enrichment
    BY <1>5, LookupAssumption DEF AskEvm
  <2>3. /\ EvmSnapshot(base(b, rpc), rpc) \in Snapshot
        /\ EvmTtl(base(b, rpc), rpc) = Lifetime(EvmSnapshot(base(b, rpc), rpc))
        /\ Consistent(EvmSnapshot(base(b, rpc), rpc))
    BY <2>2, EvmSnapshotType, EvmLifetime, EvmConsistent
  <2> HIDE DEF kind, base
  <2>4. CASE EvmError(kind, b, rpc) = "OK"
    <3> DEFINE new == [exec[e] EXCEPT !.stage = "checking",
                         !.fresh = EvmSnapshot(base(b, rpc), rpc),
                         !.ttl = EvmTtl(base(b, rpc), rpc)]
    <3>1. exec' = [exec EXCEPT ![e] = new]
      BY <2>1, <2>4
    <3>2. /\ new.stage = "checking" /\ new.fresh = EvmSnapshot(base(b, rpc), rpc)
          /\ new.ttl = EvmTtl(base(b, rpc), rpc)
          /\ new.existing = exec[e].existing /\ new.reply = exec[e].reply
      BY <1>1 DEF Execution
    <3> HIDE DEF new
    <3> QED
      BY <1>1, <2>2, <2>3, <3>1, <3>2 DEF Fetches
  <2>5. CASE EvmError(kind, b, rpc) # "OK"
    BY <1>2, <2>1, <2>2, <2>5, MissEnds
  <2> QED
    BY <2>4, <2>5
<1>6. CASE Recheck(e)
  <2>1. PICK got \in MayRead(input[e].key) :
          IF KeepsExisting(got, exec[e].fresh) THEN Settle(e, Data(got, TRUE))
          ELSE IF exec[e].ttl > 0
          THEN exec' = [exec EXCEPT ![e] = [@ EXCEPT !.stage = "writing", !.existing = got]]
          ELSE Settle(e, Data(exec[e].fresh, FALSE))
    BY <1>6 DEF Recheck
  <2>2. exec[e].stage = "checking" /\ UNCHANGED redis
    BY <1>6 DEF Recheck
  <2>3. CASE KeepsExisting(got, exec[e].fresh)
    <3>1. IsValidCachedData(got)
      BY <2>3 DEF KeepsExisting
    <3> QED
      BY <2>1, <2>2, <2>3, <3>1, HitEnds
  <2>4. CASE ~KeepsExisting(got, exec[e].fresh) /\ exec[e].ttl > 0
    <3> DEFINE new == [exec[e] EXCEPT !.stage = "writing", !.existing = got]
    <3>1. exec' = [exec EXCEPT ![e] = new]
      BY <2>1, <2>4
    <3>2. /\ new.stage = "writing" /\ new.existing = got /\ new.reply = exec[e].reply
          /\ new.fresh = exec[e].fresh /\ new.ttl = exec[e].ttl
      BY <1>1 DEF Execution
    <3> HIDE DEF new
    <3> QED
      BY <1>1, <2>2, <2>4, <3>1, <3>2 DEF Compares
  <2>5. CASE ~KeepsExisting(got, exec[e].fresh) /\ ~(exec[e].ttl > 0)
    BY <1>2, <2>1, <2>2, <2>5, MissEnds
  <2> QED
    BY <2>3, <2>4, <2>5
<1>7. CASE WriteCache(e)
  <2>1. Settle(e, Data(exec[e].fresh, FALSE))
    BY <1>7 DEF WriteCache
  <2>2. Data(exec[e].fresh, FALSE).hit = FALSE
    BY <1>2
  <2> QED
    BY <1>7, <2>1, <2>2, MissEnds DEF WriteCache
<1> QED
  BY <1>3, <1>4, <1>5, <1>6, <1>7 DEF Step

-----------------------------------------------------------------------------
(* The cache and the executions that read and write it.                      *)

\* What is about to be cached has the lifetime its contents deserve.
DeservedTtl ==
    \A e \in Requests : exec[e].stage \in {"checking", "writing"} =>
        /\ exec[e].fresh \in Snapshot
        /\ exec[e].ttl = Lifetime(exec[e].fresh)
        /\ Consistent(exec[e].fresh)
        /\ exec[e].stage = "writing" => exec[e].ttl > 0

\* What an execution read to compare with is still there, or has expired: nobody
\* else writes this entry.
ComparedEntry ==
    \A e \in Requests : exec[e].existing # NoSnapshot =>
        /\ exec[e].stage = "writing"
        /\ Cached(input[e].key) \in {exec[e].existing, NoSnapshot}
        /\ ~KeepsExisting(exec[e].existing, exec[e].fresh)

Cacheable(s) == Consistent(s) /\ (PendingTTL = 0 => s.status # "pending")
OnlyCacheable == \A k \in Keys : Cacheable(redis[k].snap)

Trusted(x) == x.kind = "data" /\ x.hit => x.snap.hash = "requested" /\ Cacheable(x.snap)
RepliesTrusted ==
    /\ \A e \in Requests : Trusted(exec[e].reply)
    /\ \A r \in Requests : Trusted(reply[r])

CacheInv ==
    /\ FlightInv
    /\ DeservedTtl
    /\ ComparedEntry
    /\ CacheQuality
    /\ OnlyCacheable
    /\ RepliesTrusted
    /\ RefreshBypassesCache

LEMMA CacheInit == Init => CacheInv
<1> SUFFICES ASSUME Init PROVE CacheInv
  OBVIOUS
<1>1. FlightInv
  BY FlightInit
<1>2. \A e \in Requests : exec[e] = NoExecution
  BY DEF Init
<1>3. DeservedTtl /\ ComparedEntry /\ RefreshBypassesCache
  BY <1>2 DEF DeservedTtl, ComparedEntry, RefreshBypassesCache, NoExecution
<1>4. CacheQuality
  BY DEF Init, CacheQuality, Cached, NoEntry
<1>5. OnlyCacheable
  BY DEF Init, OnlyCacheable, Cacheable, Consistent, NoEntry, NoSnapshot
<1>6. RepliesTrusted
  BY <1>2 DEF Init, RepliesTrusted, Trusted, NoExecution, NoReply
<1> QED
  BY <1>1, <1>3, <1>4, <1>5, <1>6 DEF CacheInv

\* The answer an execution may write, once it gets there.
LEMMA WritableAnswer ==
    ASSUME CacheInv, NEW e \in Requests, exec[e].stage = "writing"
    PROVE  /\ exec[e].fresh \in Snapshot /\ exec[e].ttl \in Nat
           /\ exec[e].ttl <= Lifetime(exec[e].fresh)
           /\ Cacheable(exec[e].fresh)
<1>1. /\ exec[e].fresh \in Snapshot /\ exec[e].ttl = Lifetime(exec[e].fresh)
      /\ exec[e].ttl > 0
  BY DEF CacheInv, DeservedTtl
<1>2. exec[e].ttl \in Nat
  BY DEF CacheInv, FlightInv, TypeOK, Execution
<1>3. Consistent(exec[e].fresh)
  BY DEF CacheInv, DeservedTtl
<1>4. Cacheable(exec[e].fresh)
  BY <1>1, <1>2, <1>3, TTLAssumption DEF Cacheable, Lifetime
<1> QED
  BY <1>1, <1>2, <1>4

\* A read of Redis never returns a pending answer while those are not cached.
LEMMA ReadIsCacheable ==
    ASSUME CacheInv, NEW k \in Keys, NEW got \in MayRead(k)
    PROVE  Cacheable(got)
BY DEF CacheInv, OnlyCacheable, MayRead, Cached, Cacheable, Consistent, NoSnapshot

\* An execution that ends with a cached answer for a refresh lost its receipt.
LEMMA EndsBypasses ==
    ASSUME CacheInv, NEW e \in Requests, Ends(e), input' = input,
           \A f \in Requests \ {e} : exec'[f] = exec[f]
    PROVE  RefreshBypassesCache'
<1>1. input[e].refresh /\ exec'[e].reply.hit =>
        KeepsExisting(exec'[e].reply.snap, exec[e].fresh)
  BY DEF Ends
<1>2. exec'[e].stage = "settled" /\ exec'[e].fresh = exec[e].fresh
  BY DEF Ends
<1>3. exec'[e].reply.hit => Consistent(exec'[e].reply.snap)
  <2>1. input[e].key \in Keys
    BY DEF CacheInv, FlightInv, TypeOK
  <2> QED
    BY <2>1, ReadIsCacheable DEF Ends, Cacheable
<1>4. input[e].refresh /\ exec'[e].reply.hit =>
        /\ "receipt_unavailable" \in exec'[e].fresh.reasons
        /\ "receipt_unavailable" \notin exec'[e].reply.snap.reasons
        /\ exec'[e].reply.snap.block = exec'[e].fresh.block
  BY <1>1, <1>2, <1>3 DEF KeepsExisting, Consistent
<1>5. \A f \in Requests \ {e} : exec'[f].stage = exec[f].stage
      /\ exec'[f].reply = exec[f].reply /\ exec'[f].fresh = exec[f].fresh
  OBVIOUS
<1> QED
  BY <1>4, <1>5 DEF CacheInv, RefreshBypassesCache

LEMMA CacheStep ==
    ASSUME CacheInv, NEW e \in Requests, Step(e)
    PROVE  CacheInv'
<1> DEFINE k == input[e].key
<1>1. FlightInv /\ FlightInv' /\ TypeOK /\ TypeOK'
  BY FlightStep DEF CacheInv, FlightInv
<1>2. input' = input /\ reply' = reply /\ clock' = clock
  BY <1>1, StepShape
<1>0. Asks(e) \/ Fetches(e) \/ Compares(e) \/ Ends(e)
  BY <1>1, StepEffect
<1>3. /\ \A f \in Requests \ {e} : exec'[f] = exec[f]
      /\ k \in Keys /\ clock \in Nat /\ redis \in [Keys -> Entry]
      /\ IsRunning(e) /\ OneExecutionPerKey
  <2>1. IsRunning(e) /\ (GoesOn(e) \/ Settles(e))
    BY <1>1, StepShape
  <2> QED
    BY <1>1, <2>1
    DEF GoesOn, Settles, TypeOK, OneExecutionPerKey, FlightInv, Published
<1>4. CASE UNCHANGED redis
  <2>1. \A j \in Keys : Cached(j)' = Cached(j)
    BY <1>2, <1>4 DEF Cached
  <2>2. CacheQuality' /\ OnlyCacheable'
    BY <1>2, <1>4, <2>1 DEF CacheInv, CacheQuality, OnlyCacheable
  <2>3. DeservedTtl'
    BY <1>0, <1>2, <1>3 DEF CacheInv, DeservedTtl, Asks, Fetches, Compares, Ends
  <2>4. ComparedEntry'
    <3> SUFFICES ASSUME NEW f \in Requests, exec'[f].existing # NoSnapshot
                 PROVE  /\ exec'[f].stage = "writing"
                        /\ Cached(input[f].key) \in {exec'[f].existing, NoSnapshot}
                        /\ ~KeepsExisting(exec'[f].existing, exec'[f].fresh)
      BY <1>1, <1>2, <2>1 DEF ComparedEntry, TypeOK
    <3>1. CASE f # e
      BY <1>3, <3>1 DEF CacheInv, ComparedEntry
    <3>2. CASE f = e
      <4>1. ~Ends(e)
        BY <3>2 DEF Ends
      <4>2. Asks(e) \/ Fetches(e) => exec[e].existing = NoSnapshot
        BY DEF CacheInv, ComparedEntry, Asks, Fetches
      <4>3. Compares(e)
        BY <1>0, <3>2, <4>1, <4>2 DEF Asks, Fetches
      <4>4. Cached(k) \in {exec'[e].existing, NoSnapshot}
        BY <3>2, <4>3 DEF Compares, MayRead
      <4> QED
        BY <3>2, <4>3, <4>4 DEF Compares
    <3> QED
      BY <3>1, <3>2
  <2>5. RepliesTrusted'
    <3>1. Trusted(exec'[e].reply)
      <4>1. CASE Ends(e)
        <5>1. exec'[e].reply.hit =>
                exec'[e].reply.snap.hash = "requested" /\ Cacheable(exec'[e].reply.snap)
          BY <1>3, <4>1, ReadIsCacheable DEF Ends, IsValidCachedData
        <5> QED
          BY <5>1 DEF Trusted
      <4>2. CASE ~Ends(e)
        <5>1. exec'[e].reply = exec[e].reply
          BY <1>0, <4>2 DEF Asks, Fetches, Compares
        <5> QED
          BY <5>1 DEF CacheInv, RepliesTrusted
      <4> QED
        BY <4>1, <4>2
    <3> QED
      BY <1>2, <1>3, <3>1 DEF CacheInv, RepliesTrusted
  <2>6. RefreshBypassesCache'
    <3>1. CASE Ends(e)
      BY <1>2, <1>3, <3>1, EndsBypasses
    <3>2. CASE ~Ends(e)
      <4>1. exec'[e].stage # "settled"
        BY <1>0, <3>2 DEF Asks, Fetches, Compares
      <4> QED
        BY <1>2, <1>3, <4>1 DEF CacheInv, RefreshBypassesCache
    <3> QED
      BY <3>1, <3>2
  <2> QED
    BY <1>1, <2>2, <2>3, <2>4, <2>5, <2>6 DEF CacheInv
<1>5. CASE redis' # redis
  <2>1. /\ Ends(e) /\ exec[e].stage = "writing"
        /\ redis' = [redis EXCEPT ![k] = [snap |-> exec[e].fresh, until |-> clock + exec[e].ttl]]
    BY <1>0, <1>5 DEF Asks, Fetches, Compares, Ends
  <2>2. /\ redis'[k].snap = exec[e].fresh /\ redis'[k].until = clock + exec[e].ttl
        /\ \A j \in Keys \ {k} : redis'[j] = redis[j]
    BY <1>3, <2>1
  <2>3. CacheQuality'
    <3> SUFFICES ASSUME NEW j \in Keys, Cached(j)' # NoSnapshot
                 PROVE  redis'[j].until - clock <= Lifetime(redis'[j].snap)
      BY <1>2 DEF CacheQuality
    <3>1. CASE j = k
      <4>1. exec[e].ttl \in Nat /\ exec[e].ttl <= Lifetime(exec[e].fresh)
        BY <2>1, WritableAnswer
      <4>2. (clock + exec[e].ttl) - clock = exec[e].ttl
        BY <1>3, <4>1
      <4> QED
        BY <2>2, <3>1, <4>1, <4>2
    <3>2. CASE j # k
      BY <1>2, <2>2, <3>2 DEF CacheInv, CacheQuality, Cached
    <3> QED
      BY <3>1, <3>2
  <2>4. OnlyCacheable'
    BY <2>1, <2>2, WritableAnswer DEF CacheInv, OnlyCacheable
  <2>5. DeservedTtl'
    BY <1>3, <2>1 DEF CacheInv, DeservedTtl, Ends
  <2>6. ComparedEntry'
    <3> SUFFICES ASSUME NEW f \in Requests, exec'[f].existing # NoSnapshot
                 PROVE  /\ exec'[f].stage = "writing"
                        /\ Cached(input[f].key)' \in {exec'[f].existing, NoSnapshot}
                        /\ ~KeepsExisting(exec'[f].existing, exec'[f].fresh)
      BY <1>1, <1>2 DEF ComparedEntry, TypeOK
    <3>1. f # e /\ exec'[f] = exec[f]
      BY <1>3, <2>1 DEF Ends
    <3>2. exec[f].stage = "writing"
      BY <3>1 DEF CacheInv, ComparedEntry
    <3>3. input[f].key # k /\ input[f].key \in Keys
      BY <1>1, <1>2, <1>3, <3>1, <3>2 DEF OneExecutionPerKey, IsRunning, Running, TypeOK
    <3>4. Cached(input[f].key)' = Cached(input[f].key)
      BY <1>2, <2>2, <3>3 DEF Cached
    <3> QED
      BY <3>1, <3>4 DEF CacheInv, ComparedEntry
  <2>7. RepliesTrusted'
    <3>1. exec'[e].reply.hit =>
            exec'[e].reply.snap.hash = "requested" /\ Cacheable(exec'[e].reply.snap)
      BY <1>3, <2>1, ReadIsCacheable DEF Ends, IsValidCachedData
    <3>2. Trusted(exec'[e].reply)
      BY <3>1 DEF Trusted
    <3> QED
      BY <1>2, <1>3, <3>2 DEF CacheInv, RepliesTrusted
  <2>8. RefreshBypassesCache'
    BY <1>2, <1>3, <2>1, EndsBypasses
  <2> QED
    BY <1>1, <2>3, <2>4, <2>5, <2>6, <2>7, <2>8 DEF CacheInv
<1> QED
  BY <1>4, <1>5

LEMMA CacheCall ==
    ASSUME CacheInv, NEW r \in Requests, Call(r)
    PROVE  CacheInv'
<1>1. FlightInv /\ FlightInv' /\ TypeOK /\ TypeOK'
  BY FlightCall DEF CacheInv, FlightInv
<1>2. UNCHANGED <<clock, redis, input>>
  BY DEF Call, Join, Refuse, Lead
<1>3. \A e \in Requests :
        \/ exec'[e] = exec[e]
        \/ /\ exec'[e].stage = "reading"
           /\ exec'[e].existing = exec[e].existing /\ exec'[e].reply = exec[e].reply
           /\ exec[e].stage # "writing"
  <2>1. CASE Lead(r)
    <3> DEFINE new == [exec[r] EXCEPT !.stage = "reading", !.startedAt = clock]
    <3>1. exec' = [exec EXCEPT ![r] = new] /\ exec \in [Requests -> Execution]
      BY <1>1, <2>1 DEF Lead, TypeOK
    <3>2. /\ new.stage = "reading" /\ new.existing = exec[r].existing
          /\ new.reply = exec[r].reply
      BY <3>1 DEF Execution
    <3> HIDE DEF new
    <3>3. exec[r].stage # "writing"
      <4>1. inFlight[input[r].key] = NoOne
        BY <2>1 DEF Lead, UnderWay
      <4> QED
        BY <4>1, <1>1, LookupAssumption DEF FlightInv, Published, IsRunning, Running
    <3> QED
      BY <3>1, <3>2, <3>3
  <2>2. CASE ~Lead(r)
    BY <2>2 DEF Call, Join, Refuse
  <2> QED
    BY <2>1, <2>2
<1>4. /\ reply' = reply \/ reply' = [reply EXCEPT ![r] = Failure("RATE_LIMIT_EXCEEDED")]
      /\ reply \in [Requests -> Replies]
  BY <1>1 DEF Call, Join, Refuse, Lead, TypeOK
<1>5. CacheQuality' /\ OnlyCacheable'
  BY <1>2 DEF CacheInv, CacheQuality, OnlyCacheable, Cached
<1>6. DeservedTtl' /\ RefreshBypassesCache'
  BY <1>2, <1>3 DEF CacheInv, DeservedTtl, RefreshBypassesCache
<1>7. ComparedEntry'
  <2>1. \A j \in Keys : Cached(j)' = Cached(j)
    BY <1>2 DEF Cached
  <2>2. \A e \in Requests : input[e].key \in Keys
    BY <1>1 DEF TypeOK
  <2> QED
    BY <1>2, <1>3, <2>1, <2>2 DEF CacheInv, ComparedEntry
<1>8. RepliesTrusted'
  <2>1. Trusted(Failure("RATE_LIMIT_EXCEEDED"))
    BY DEF Trusted, Failure
  <2>2. \A x \in Requests : Trusted(reply'[x])
    BY <1>4, <2>1 DEF CacheInv, RepliesTrusted
  <2>3. \A e \in Requests : Trusted(exec'[e].reply)
    BY <1>3 DEF CacheInv, RepliesTrusted
  <2> QED
    BY <2>2, <2>3 DEF RepliesTrusted
<1> QED
  BY <1>1, <1>5, <1>6, <1>7, <1>8 DEF CacheInv

LEMMA CacheResume ==
    ASSUME CacheInv, NEW r \in Requests, Resume(r)
    PROVE  CacheInv'
<1>1. FlightInv /\ FlightInv' /\ TypeOK
  BY FlightResume DEF CacheInv, FlightInv
<1>2. UNCHANGED <<clock, redis, input, exec>>
  BY DEF Resume, Receive, Answer
<1>3. /\ DeservedTtl' /\ ComparedEntry' /\ CacheQuality'
      /\ OnlyCacheable' /\ RefreshBypassesCache'
  BY <1>2 DEF CacheInv, DeservedTtl, ComparedEntry, CacheQuality, OnlyCacheable,
              RefreshBypassesCache, Cached
<1>4. RepliesTrusted'
  <2>1. CASE Receive(r)
    <3>1. leader[r] \in Requests /\ reply' = [reply EXCEPT ![r] = exec[leader[r]].reply]
      BY <1>1, <2>1 DEF Receive, FlightInv, NobodyWaitsInVain
    <3> QED
      BY <1>1, <1>2, <3>1 DEF CacheInv, RepliesTrusted, TypeOK
  <2>2. CASE Answer(r)
    BY <1>2, <2>2 DEF Answer, CacheInv, RepliesTrusted
  <2> QED
    BY <2>1, <2>2 DEF Resume
<1> QED
  BY <1>1, <1>3, <1>4 DEF CacheInv

LEMMA CacheEnvironment ==
    ASSUME CacheInv, Tick \/ Restart \/ UNCHANGED vars
    PROVE  CacheInv'
<1>1. FlightInv /\ FlightInv' /\ TypeOK
  BY FlightEnvironment DEF CacheInv, FlightInv
<1>2. CASE Tick
  <2>1. UNCHANGED <<input, exec, reply>> /\ clock' = clock + 1 /\ clock \in Nat
    BY <1>1, <1>2 DEF Tick, callVars, TypeOK
  <2>2. \A j \in Keys : redis'[j] = NoEntry \/ redis'[j] = redis[j]
    BY <1>2 DEF Tick
  <2>3. \A j \in Keys : redis[j].until \in Nat
    BY <1>1 DEF TypeOK, Entry
  <2>4. \A j \in Keys : Cached(j)' = NoSnapshot \/ (Cached(j)' = Cached(j) /\ redis'[j] = redis[j])
    BY <2>1, <2>2, <2>3 DEF Cached, NoEntry
  <2>5. CacheQuality'
    <3> SUFFICES ASSUME NEW j \in Keys, Cached(j)' # NoSnapshot
                 PROVE  redis'[j].until - clock' <= Lifetime(redis'[j].snap)
      BY DEF CacheQuality
    <3>1. redis'[j] = redis[j] /\ redis[j].until - clock <= Lifetime(redis[j].snap)
      BY <2>4 DEF CacheInv, CacheQuality
    <3>2. Lifetime(redis[j].snap) \in Nat
      BY TTLAssumption DEF Lifetime
    <3> QED
      BY <2>1, <2>3, <3>1, <3>2
  <2>6. OnlyCacheable'
    BY <2>2 DEF CacheInv, OnlyCacheable, Cacheable, Consistent, NoEntry, NoSnapshot
  <2>7. ComparedEntry'
    <3>1. \A e \in Requests : input[e].key \in Keys
      BY <1>1 DEF TypeOK
    <3> QED
      BY <2>1, <2>4, <3>1 DEF CacheInv, ComparedEntry
  <2>8. DeservedTtl' /\ RepliesTrusted' /\ RefreshBypassesCache'
    BY <2>1 DEF CacheInv, DeservedTtl, RepliesTrusted, RefreshBypassesCache
  <2> QED
    BY <1>1, <2>5, <2>6, <2>7, <2>8 DEF CacheInv
<1>3. CASE Restart
  <2>1. UNCHANGED <<clock, redis, input, reply>>
    BY <1>3 DEF Restart
  <2>2. \A e \in Requests :
          /\ exec'[e].stage \in {"none", "dead"}
          /\ exec'[e] = exec[e] \/ (exec'[e].existing = NoSnapshot /\ exec'[e].reply = NoReply)
    BY <1>3 DEF Restart, NoExecution
  <2>3. CacheQuality' /\ OnlyCacheable'
    BY <2>1 DEF CacheInv, CacheQuality, OnlyCacheable, Cached
  <2>4. DeservedTtl' /\ RefreshBypassesCache'
    BY <2>2 DEF DeservedTtl, RefreshBypassesCache
  <2>5. ComparedEntry'
    BY <2>1, <2>2 DEF CacheInv, ComparedEntry
  <2>6. RepliesTrusted'
    <3>1. Trusted(NoReply)
      BY DEF Trusted, NoReply
    <3> QED
      BY <2>1, <2>2, <3>1 DEF CacheInv, RepliesTrusted
  <2> QED
    BY <1>1, <2>3, <2>4, <2>5, <2>6 DEF CacheInv
<1>4. CASE UNCHANGED vars
  BY <1>1, <1>4 DEF vars, CacheInv, DeservedTtl, ComparedEntry, CacheQuality, OnlyCacheable,
                    RepliesTrusted, RefreshBypassesCache, Cached
<1> QED
  BY <1>2, <1>3, <1>4

\* The invariant the theorems about cached answers follow from.
THEOREM CacheInvariance == Spec => []CacheInv
<1>1. CacheInv /\ [Next]_vars => CacheInv'
  BY CacheStep, CacheCall, CacheResume, CacheEnvironment DEF Next, Finished
<1> QED
  BY CacheInit, <1>1, PTL DEF Spec

\* Whatever is in Redis has no more life left than its contents deserve.
THEOREM LifetimesDeserved == Spec => []CacheQuality
BY CacheInvariance, PTL DEF CacheInv

\* What is served from the cache is about the requested hash and, unless pending
\* answers may be cached, not pending.
THEOREM HitsTrusted == Spec => []CachedAnswersTrusted
<1>1. CacheInv => CachedAnswersTrusted
  BY DEF CacheInv, RepliesTrusted, Trusted, Cacheable, CachedAnswersTrusted
<1> QED
  BY CacheInvariance, <1>1, PTL

\* A refresh is answered from the cache only in place of an answer without receipt.
THEOREM RefreshesBypass == Spec => []RefreshBypassesCache
BY CacheInvariance, PTL DEF CacheInv

\* A receipt in Redis is lost only to an execution whose second read failed.
THEOREM ReceiptsKept == Spec => ReceiptKept
<1> DEFINE Excused(k) == \E e \in Requests :
                           /\ input[e].key = k /\ exec[e].stage = "writing"
                           /\ exec[e].existing = NoSnapshot
<1>1. ASSUME CacheInv, [Next]_vars, NEW k \in Keys, LosesReceipt(k)
      PROVE  Excused(k)
  <2>1. TypeOK /\ clock \in Nat /\ redis \in [Keys -> Entry]
    BY <1>1 DEF CacheInv, FlightInv, TypeOK
  <2>2. Cached(k) = redis[k].snap
    BY <1>1 DEF LosesReceipt, Cached, IsValidCachedData, NoSnapshot
  <2>3. redis'[k] # redis[k]
    BY <1>1, <2>2 DEF LosesReceipt
  <2>4. redis'[k] # NoEntry
    BY <1>1, <2>1 DEF LosesReceipt, NoEntry
  <2>5. ~Tick
    BY <2>3, <2>4 DEF Tick
  <2>6. PICK e \in Requests : Step(e)
    BY <1>1, <2>3, <2>5
    DEF Next, Call, Join, Refuse, Lead, Resume, Receive, Answer, Restart, Finished, vars
  <2>7. /\ exec[e].stage = "writing"
        /\ redis' = [redis EXCEPT ![input[e].key] =
                       [snap |-> exec[e].fresh, until |-> clock + exec[e].ttl]]
    BY <2>1, <2>3, <2>6, StepEffect DEF Asks, Fetches, Compares, Ends
  <2>8. input[e].key = k /\ redis'[k].snap = exec[e].fresh
    BY <2>1, <2>3, <2>7
  <2>9. ASSUME exec[e].existing # NoSnapshot PROVE FALSE
    <3>1. Cached(k) = exec[e].existing /\ ~KeepsExisting(exec[e].existing, exec[e].fresh)
      BY <1>1, <2>8, <2>9 DEF CacheInv, ComparedEntry, LosesReceipt, IsValidCachedData, NoSnapshot
    <3> QED
      BY <1>1, <2>8, <3>1 DEF LosesReceipt, KeepsExisting
  <2> QED
    BY <2>7, <2>8, <2>9
<1>2. CacheInv /\ [Next]_vars => [\A k \in Keys : LosesReceipt(k) => Excused(k)]_vars
  BY <1>1
<1> QED
  BY CacheInvariance, <1>2, PTL DEF Spec, ReceiptKept
=============================================================================
