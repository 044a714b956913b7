---------------------------- MODULE PolicyProofs ----------------------------
(***************************************************************************)
(* Theorems about the decisions of a lookup, for every lifetime and every     *)
(* block: what they make of each answer of Blockchair and each view of the    *)
(* node, and of each loss of information about a transaction.                 *)
(***************************************************************************)
EXTENDS MCTransactionPolicy, TLAPS

\* The node's view stays one that an enrichment may return, and Blockchair's height
\* one that the chain has reached.
PolicyInv ==
    /\ kind \in {"dual", "rpc", "utxo"}
    /\ rpc \in Views
    /\ kind = "utxo" => rpc = NoView
    /\ kind # "utxo" => NodeSays
    /\ response \in Responses
    /\ dashboard \in Dashboards(Int)
    /\ tip \in Nat /\ height \in Nat
    /\ kind = "utxo" => height <= tip

LEMMA NoViewIsView == NoView \in Views
  BY DEF NoView, Views, Enrichment, Hashes, BlockNos, NoBlock, Statuses, TxKinds, WellFormed

LEMMA ExchangesTyped ==
  ASSUME NEW x \in Exchanges
  PROVE  x[1] \in Responses /\ x[2] \in Dashboards(Int)
<1>1. Answer \in Responses /\ Entry \in Dashboards(Int)
  BY DEF Answer, Entry, Responses, Dashboards
<1>2. CASE x \in Refusals \X {Entry}
  BY <1>1, <1>2 DEF Refusals
<1>3. CASE x \in Bodies \X Entries
  BY <1>3 DEF Bodies, Entries, Dashboards
<1>4. CASE x \in {Answer} \X Sightings
  BY <1>1, <1>4, HeightsAssumption DEF Sightings, Dashboards
<1> QED
  BY <1>2, <1>3, <1>4 DEF Exchanges

LEMMA PolicyInit == Init => PolicyInv
<1> SUFFICES ASSUME Init PROVE PolicyInv
  OBVIOUS
<1>1. Answer \in Responses /\ Entry \in Dashboards(Int)
  BY DEF Answer, Entry, Responses, Dashboards
<1>2. CASE kind = "dual" /\ ChairSends(Exchanges) /\ height = 1 /\ tip = 1 /\ NodeSays
  <2>1. rpc \in Views
    BY <1>2 DEF NodeSays
  <2>2. response \in Responses /\ dashboard \in Dashboards(Int)
    BY <1>2, ExchangesTyped DEF ChairSends
  <2> QED
    BY <1>2, <2>1, <2>2 DEF PolicyInv
<1>3. CASE kind = "rpc" /\ ChairSends({<<Answer, Entry>>}) /\ height = 1 /\ tip = 1 /\ NodeSays
  <2>1. rpc \in Views
    BY <1>3 DEF NodeSays
  <2>2. response = Answer /\ dashboard = Entry
    BY <1>3 DEF ChairSends
  <2> QED
    BY <1>1, <1>3, <2>1, <2>2 DEF PolicyInv
<1>4. CASE /\ kind = "utxo" /\ rpc = NoView /\ heard = {}
           /\ tip \in 1..MaxHeight /\ height \in 0..tip
           /\ \/ ChairSends({x \in Exchanges : x[2].block_id <= tip})
              \/ ChairSends({<<Answer, [Entry EXCEPT !.block_id = n]>> : n \in -1..tip})
  <2>1. tip \in Nat /\ height \in Nat /\ height <= tip
    BY <1>4, HeightsAssumption
  <2>2. response \in Responses /\ dashboard \in Dashboards(Int)
    <3>1. CASE ChairSends({x \in Exchanges : x[2].block_id <= tip})
      BY <3>1, ExchangesTyped DEF ChairSends
    <3>2. CASE ChairSends({<<Answer, [Entry EXCEPT !.block_id = n]>> : n \in -1..tip})
      <4>1. PICK n \in -1..tip : response = Answer /\ dashboard = [Entry EXCEPT !.block_id = n]
        BY <3>2 DEF ChairSends
      <4>2. n \in Int
        BY <2>1
      <4> QED
        BY <1>1, <4>1, <4>2 DEF Dashboards
    <3> QED
      BY <1>4, <3>1, <3>2
  <2> QED
    BY <1>4, <2>1, <2>2, NoViewIsView DEF PolicyInv
<1> QED
  BY <1>2, <1>3, <1>4 DEF Init

\* A view that has lost something is still a view.
LEMMA PolicyNext == PolicyInv /\ [Next]_vars => PolicyInv'
<1> SUFFICES ASSUME PolicyInv, [Next]_vars PROVE PolicyInv'
  OBVIOUS
<1>1. rpc.receipt # "none" => kind # "utxo"
  BY DEF PolicyInv, NoView
<1>2. rpc \in Enrichment /\ WellFormed(rpc)
  BY DEF PolicyInv, Views
<1>3. CASE FailPart
  <2>1. rpc' \in Enrichment /\ WellFormed(rpc') /\ Seen(rpc) /\ Seen(rpc')
    BY <1>2, <1>3 DEF FailPart, Enrichment, WellFormed, Seen
  <2> QED
    BY <1>1, <1>3, <2>1 DEF PolicyInv, Views, NodeSays, FailPart
<1>4. CASE LoseMetadata
  <2>1. rpc' \in Enrichment /\ WellFormed(rpc') /\ Seen(rpc) /\ Seen(rpc')
    BY <1>2, <1>4 DEF LoseMetadata, Enrichment, WellFormed, Seen
  <2> QED
    BY <1>1, <1>4, <2>1 DEF PolicyInv, Views, NodeSays, LoseMetadata
<1>5. CASE LoseReceipt
  <2>1. rpc' \in Enrichment
    BY <1>2, <1>5 DEF LoseReceipt, Enrichment, Statuses, BlockNos
  <2>2. WellFormed(rpc') /\ Seen(rpc) /\ Seen(rpc')
    BY <1>2, <1>5 DEF LoseReceipt, Enrichment, WellFormed, Statuses, Seen
  <2> QED
    BY <1>1, <1>5, <2>1, <2>2 DEF PolicyInv, Views, NodeSays, LoseReceipt
<1>6. CASE UNCHANGED vars
  BY <1>6 DEF PolicyInv, NodeSays, vars
<1> QED
  BY <1>3, <1>4, <1>5, <1>6 DEF Next

LEMMA PolicyInvariance == Spec => []PolicyInv
  BY PolicyInit, PolicyNext, PTL DEF Spec

-----------------------------------------------------------------------------
(* What the lookup is told by Blockchair.                                    *)

\* An answer that is taken holds the requested transaction.
LEMMA AcceptedIsRequested ==
  ASSUME PolicyInv
  PROVE  /\ Utxo.code = "OK" => ChairHasIt
         /\ Chair.code = "OK" => ChairHasIt /\ UtxoCode(response, dashboard) = "OK"
<1> DEFINE code == UtxoCode(response, dashboard)
<1>1. response \in Responses /\ dashboard \in Dashboards(Int)
  BY DEF PolicyInv
<1>2. code = "OK" => ChairHasIt
  BY <1>1 DEF UtxoCode, TransactionError, EntryError, Found, ChairHasIt, Responses, Dashboards
<1>3. Utxo.code = code
  BY DEF Utxo, AsUtxoAnswer
<1>4. Chair.code = "OK" => code = "OK"
  BY DEF Chair, AsChairAnswer, EvmCode
<1> QED
  BY <1>2, <1>3, <1>4

\* "Not found" is what Blockchair says, or what its answer does not hold, were it for
\* want of quota.
LEMMA NotFoundIsSaid ==
  ASSUME PolicyInv, UtxoCode(response, dashboard) = "TRANSACTION_NOT_FOUND"
  PROVE  ChairDeniesIt \/ QuotaInBody
<1>1. response \in Responses /\ dashboard \in Dashboards(Int)
  BY DEF PolicyInv
<1>2. CASE response.status # "2xx"
  BY <1>1, <1>2 DEF UtxoCode, TransactionError, ChairDeniesIt
<1>3. CASE response.status = "2xx"
  <2>1. ~ChairHasIt
    BY <1>1, <1>3 DEF UtxoCode, EntryError, Found, ChairHasIt, Responses, Dashboards
  <2> QED
    BY <1>3, <2>1 DEF ChairDeniesIt, QuotaInBody
<1> QED
  BY <1>2, <1>3

\* For any blocks: "not found" is never said of a transaction the node has seen, nor on
\* the strength of a refusal, a timeout or a page of Blockchair's, a quota error in the
\* body of an answer excepted; nor, of the node alone, after a call that the client
\* took for failed (an error that is not transient, or no node, it takes for an answer).
THEOREM NotFoundIsAlwaysKnown == Spec => []NotFoundIsKnown
<1>1. PolicyInv => NotFoundIsKnown
  <2> SUFFICES ASSUME PolicyInv, Code = "TRANSACTION_NOT_FOUND"
               PROVE  /\ ~Seen(rpc)
                      /\ kind # "rpc" => ChairDeniesIt \/ QuotaInBody
                      /\ kind = "rpc" => heard \subseteq {"null", "error", "unconfigured"}
    BY DEF NotFoundIsKnown
  <2>1. CASE kind = "utxo"
    <3>1. ~Seen(rpc)
      BY <2>1 DEF PolicyInv, NoView, Seen
    <3>2. UtxoCode(response, dashboard) = "TRANSACTION_NOT_FOUND"
      BY <2>1 DEF Code, Utxo, AsUtxoAnswer
    <3> QED
      BY <2>1, <3>1, <3>2, NotFoundIsSaid
  <2>2. CASE kind = "rpc"
    <3>1. ~Seen(rpc) /\ ~rpc.temporaryFailure
      BY <2>2 DEF Code, EvmError
    <3>2. /\ heard \subseteq {"null", "busy", "error", "unreachable", "unconfigured"}
          /\ \A r \in heard : RpcCall(r) # "throws"
      BY <2>2, <3>1 DEF PolicyInv, NodeSays
    <3>3. RpcCall("busy") = "throws" /\ RpcCall("unreachable") = "throws"
      BY DEF RpcCall
    <3> QED
      BY <2>2, <3>1, <3>2, <3>3
  <2>3. CASE kind = "dual"
    <3>1. ~Seen(rpc) /\ Chair.code = "TRANSACTION_NOT_FOUND"
      BY <2>3 DEF Code, EvmError
    <3>2. UtxoCode(response, dashboard) = "TRANSACTION_NOT_FOUND"
      BY <3>1 DEF Chair, AsChairAnswer, EvmCode
    <3> QED
      BY <2>3, <3>1, <3>2, NotFoundIsSaid
  <2> QED
    BY <2>1, <2>2, <2>3 DEF PolicyInv
<1> QED
  BY <1>1, PolicyInvariance, PTL

-----------------------------------------------------------------------------
(* How long an answer is kept.                                               *)

LEMMA StatusTyped == ASSUME PolicyInv PROVE Status \in Statuses
<1>1. Utxo.status \in Statuses /\ Chair.status \in Statuses
  BY DEF Utxo, AsUtxoAnswer, UtxoStatus, Chair, AsChairAnswer, EvmStatus, Statuses
<1>2. rpc.status \in Statuses
  BY DEF PolicyInv, Views, Enrichment
<1>3. Base.status \in Statuses
  BY <1>1, <1>2 DEF Base, BaseTransaction
<1> QED
  BY <1>1, <1>2, <1>3 DEF Status, ResolvedStatus, Statuses

\* What outlives a degraded and a pending answer is neither.
LEMMA LongTtl ==
  ASSUME NEW status \in Statuses, NEW hasTemporaryFailure \in BOOLEAN,
         ResolveTransactionCacheTtl(status, hasTemporaryFailure) \notin {DegradedTTL, PendingTTL}
  PROVE  status \in Final /\ ~hasTemporaryFailure
  BY DEF ResolveTransactionCacheTtl, Statuses, Final

\* Nothing is missing from an EVM answer that is not degraded, unless it is pending.
LEMMA UndegradedIsWhole ==
  ASSUME NEW base, NEW e \in Enrichment, ResolvedStatus(base, e) # "pending",
         ~IsDegradedOrTemporaryFailure(base, e)
  PROVE  /\ e.receipt # "none" /\ ~e.temporaryFailure /\ e.tokens = {}
         /\ Coverage(base, e) # "partial"
<1>1. /\ ~e.temporaryFailure /\ "degraded" \notin e.tokens /\ Coverage(base, e) # "partial"
      /\ "receipt_unavailable" \notin CoverageReasons(base, e)
      /\ "metadata_unavailable" \notin CoverageReasons(base, e)
  BY DEF IsDegradedOrTemporaryFailure
<1>2. e.receipt # "none"
  BY <1>1 DEF CoverageReasons, Reasons
<1>3. "unresolved" \notin e.tokens
  BY <1>1 DEF CoverageReasons, Reasons
<1>4. e.tokens \subseteq {"degraded", "unresolved"}
  BY DEF Enrichment
<1> QED
  BY <1>1, <1>2, <1>3, <1>4

\* Of a UTXO transaction, six blocks are there if Blockchair's height says so.
LEMMA DeepEnough ==
  ASSUME PolicyInv, kind = "utxo", Utxo.code = "OK", Utxo.status = "confirmed", ~Utxo.recent
  PROVE  tip - dashboard.block_id + 1 >= 6
<1>1. dashboard.block_id \in Int /\ tip \in Nat /\ height \in Nat /\ height <= tip
  BY DEF PolicyInv, Dashboards
<1>2. Utxo = [code |-> "OK", status |-> UtxoStatus(dashboard), block |-> BlockOf(dashboard),
              recent |-> Mined(dashboard) /\ Confirmations(dashboard, height) < 6]
  BY DEF Utxo, AsUtxoAnswer
<1>3. Mined(dashboard)
  BY <1>2 DEF UtxoStatus
<1>4. ~(Confirmations(dashboard, height) < 6)
  BY <1>2, <1>3
<1> QED
  BY <1>1, <1>3, <1>4 DEF Confirmations

\* For any lifetimes and heights: an answer that is kept for longer than a degraded and a
\* pending one is final, nothing of it is missing, and it is deep enough.
THEOREM LongLifeIsAlwaysCorroborated == Spec => []LongLifeIsCorroborated
<1>1. PolicyInv => LongLifeIsCorroborated
  <2> SUFFICES ASSUME PolicyInv, Answered, Lifetime \notin {DegradedTTL, PendingTTL}
               PROVE  /\ Status \in Final
                      /\ kind = "utxo" => tip - dashboard.block_id + 1 >= 6
                      /\ kind # "utxo" => /\ rpc.receipt # "none"
                                          /\ ~rpc.temporaryFailure /\ rpc.tokens = {}
                                          /\ Coverage(Base, rpc) # "partial"
    BY DEF LongLifeIsCorroborated
  <2>1. CASE kind = "utxo"
    <3>1. Status = Utxo.status /\ Lifetime = UtxoTtl(Utxo) /\ Utxo.code = "OK"
      BY <2>1 DEF Status, Lifetime, Answered, Code
    <3>2. Utxo.status \in Final /\ ~(Utxo.status = "confirmed" /\ Utxo.recent)
      BY <3>1, LongTtl, StatusTyped DEF UtxoTtl
    <3>3. Utxo.status = "confirmed"
      BY <3>1, <3>2 DEF Utxo, AsUtxoAnswer, UtxoStatus, Final
    <3> QED
      BY <2>1, <3>1, <3>2, <3>3, DeepEnough
  <2>2. CASE kind # "utxo"
    <3>1. Status = ResolvedStatus(Base, rpc) /\ Lifetime = EvmTtl(Base, rpc)
      BY <2>2 DEF Status, Lifetime
    <3>2. IsDegradedOrTemporaryFailure(Base, rpc) \in BOOLEAN
      BY DEF IsDegradedOrTemporaryFailure, PolicyInv, Views, Enrichment
    <3>3. Status \in Final /\ ~IsDegradedOrTemporaryFailure(Base, rpc)
      BY <3>1, <3>2, LongTtl, StatusTyped DEF EvmTtl
    <3>4. ResolvedStatus(Base, rpc) # "pending"
      BY <3>1, <3>3 DEF Final
    <3> QED
      BY <2>2, <3>3, <3>4, UndegradedIsWhole DEF PolicyInv, Views
  <2> QED
    BY <2>1, <2>2
<1> QED
  BY <1>1, PolicyInvariance, PTL

\* For any blocks and lifetimes: a complete answer about a transaction that is not
\* pending has its receipt, the decimals of every token that moves and only logs that were
\* read; if the call for a symbol or a name failed, it says that something did, and is
\* not kept for longer than a degraded one.
THEOREM OnlyNamesAreEverMissing == Spec => []CompleteLacksNamesOnly
<1>1. PolicyInv => CompleteLacksNamesOnly
  <2> SUFFICES ASSUME PolicyInv, kind # "utxo", Coverage(Base, rpc) = "complete",
                      Status # "pending"
               PROVE  /\ rpc.receipt # "none" /\ ~rpc.temporaryFailure
                      /\ "unresolved" \notin rpc.tokens /\ ~rpc.unrecognised
                      /\ "degraded" \in rpc.tokens =>
                           /\ "temporary_enrichment_failure" \in CoverageReasons(Base, rpc)
                           /\ Lifetime = DegradedTTL
    BY DEF CompleteLacksNamesOnly
  <2>1. CoverageReasons(Base, rpc)
           \cap {"unsupported_call", "metadata_unavailable", "receipt_unavailable"} = {}
    BY DEF Coverage
  <2>2. ResolvedStatus(Base, rpc) # "pending"
    BY DEF Status
  <2>3. rpc.receipt # "none" /\ "unresolved" \notin rpc.tokens /\ ~rpc.unrecognised
    BY <2>1, <2>2 DEF CoverageReasons, Reasons
  <2>4. ~rpc.temporaryFailure
    BY DEF Coverage
  <2>5. ASSUME "degraded" \in rpc.tokens
        PROVE  /\ "temporary_enrichment_failure" \in CoverageReasons(Base, rpc)
               /\ Lifetime = DegradedTTL
    <3>1. "temporary_enrichment_failure" \in CoverageReasons(Base, rpc)
      BY <2>5 DEF CoverageReasons, Reasons
    <3>2. IsDegradedOrTemporaryFailure(Base, rpc)
      BY <2>5 DEF IsDegradedOrTemporaryFailure
    <3>3. Lifetime = EvmTtl(Base, rpc)
      BY DEF Lifetime
    <3> QED
      BY <2>2, <3>1, <3>2, <3>3 DEF EvmTtl, ResolveTransactionCacheTtl
  <2> QED
    BY <2>3, <2>4, <2>5
<1> QED
  BY <1>1, PolicyInvariance, PTL

-----------------------------------------------------------------------------
(* The verdict.                                                              *)

\* For any blocks: no verdict, of success or of failure, contradicts the verdict of the
\* node or of Blockchair where they have the transaction, and one that rests on
\* Blockchair alone is about the transaction that was asked for.
THEOREM VerdictsAgree == Spec => []NoVerdictAgainstAProvider
<1>1. PolicyInv => NoVerdictAgainstAProvider
  <2> SUFFICES ASSUME PolicyInv, Answered, Status \in Final
               PROVE  /\ rpc.status \in Final => rpc.status = Status
                      /\ kind = "dual" /\ Chair.code = "OK" =>
                           /\ ChairFailsIt => Status = "failed"
                           /\ ChairSucceeds => Status = "confirmed"
                      /\ kind # "rpc" /\ ~Seen(rpc) => ChairHasIt
    BY DEF NoVerdictAgainstAProvider
  <2>1. CASE kind = "utxo"
    <3>1. rpc.status \notin Final
      BY <2>1 DEF PolicyInv, NoView, Final
    <3>2. ChairHasIt
      BY <2>1, AcceptedIsRequested DEF Answered, Code
    <3> QED
      BY <2>1, <3>1, <3>2
  <2>2. CASE kind # "utxo"
    <3>1. Status = ResolvedStatus(Base, rpc) /\ WellFormed(rpc) /\ rpc \in Enrichment
      BY <2>2 DEF Status, PolicyInv, Views
    <3>2. rpc.status \in Final => rpc.receipt # "none"
      BY <3>1 DEF WellFormed, Final
    <3>3. rpc.status \in Final => rpc.status = Status
      BY <3>1, <3>2 DEF ResolvedStatus, Final
    <3>4. ASSUME kind = "dual", Chair.code = "OK"
          PROVE  /\ ChairFailsIt => Status = "failed"
                 /\ ChairSucceeds => Status = "confirmed"
      <4>1. Base.status = EvmStatus(dashboard)
        BY <3>4 DEF Base, BaseTransaction, UsesRpcBase, Chair, AsChairAnswer
      <4>2. EvmStatus(dashboard) \in Final => Status = EvmStatus(dashboard)
        BY <3>1, <4>1 DEF ResolvedStatus, Discrepancy, Final
      <4>3. ChairFailsIt => EvmStatus(dashboard) = "failed"
        BY DEF ChairFailsIt, EvmStatus
      <4>4. ChairSucceeds => EvmStatus(dashboard) = "confirmed"
        BY DEF ChairSucceeds, EvmStatus
      <4> QED
        BY <4>2, <4>3, <4>4 DEF Final
    <3>5. ASSUME kind # "rpc", ~Seen(rpc)
          PROVE  ChairHasIt
      <4>1. kind = "dual" /\ EvmError(kind, Chair, rpc) = "OK"
        BY <2>2, <3>5 DEF PolicyInv, Answered, Code
      <4>2. Chair.code = "OK"
        BY <3>5, <4>1 DEF EvmError
      <4> QED
        BY <4>2, AcceptedIsRequested
    <3> QED
      BY <3>3, <3>4, <3>5
  <2> QED
    BY <2>1, <2>2
<1> QED
  BY <1>1, PolicyInvariance, PTL

-----------------------------------------------------------------------------
(* Losing a part of an answer.                                               *)

\* The lifetimes rank as the defaults of cache.constants.ts do; the validation of the
\* environment bounds each of them and does not compare them.
TTLsRanked == PendingTTL <= DegradedTTL /\ DegradedTTL <= FullTTL

\* A step after which the answer is degraded or pending, and still pending if it was.
LEMMA EvmTtlFalls ==
  ASSUME TTLsRanked, kind # "utxo", kind' = kind,
         Status = "pending" => Status' = "pending",
         IsDegradedOrTemporaryFailure(Base, rpc)' \/ Status' = "pending"
  PROVE  Lifetime' <= Lifetime
<1>1. Status = ResolvedStatus(Base, rpc) /\ Lifetime = EvmTtl(Base, rpc)
  BY DEF Status, Lifetime
<1>2. Status' = ResolvedStatus(Base, rpc)' /\ Lifetime' = EvmTtl(Base, rpc)'
  BY DEF Status, Lifetime
<1>3. /\ Status = "pending" => Lifetime = PendingTTL
      /\ Status # "pending" => Lifetime \in {DegradedTTL, FullTTL}
  BY <1>1 DEF EvmTtl, ResolveTransactionCacheTtl
<1>4. Lifetime' = IF Status' = "pending" THEN PendingTTL ELSE DegradedTTL
  BY <1>2 DEF EvmTtl, ResolveTransactionCacheTtl
<1> QED
  BY <1>3, <1>4, TTLAssumption DEF TTLsRanked

\* Where a receipt decides, the status is pending only for want of its verdict.
LEMMA StepsDegrade ==
  ASSUME PolicyInv, Next
  PROVE  /\ kind # "utxo" /\ kind' = kind
         /\ Status = "pending" => Status' = "pending"
         /\ IsDegradedOrTemporaryFailure(Base, rpc)' \/ Status' = "pending"
<1>1. rpc.receipt # "none" /\ UNCHANGED <<kind, response, dashboard>>
  BY DEF Next, FailPart, LoseMetadata, LoseReceipt
<1>2. kind # "utxo" /\ kind' = kind
  BY <1>1 DEF PolicyInv, NoView
<1>3. Chair' = Chair
  BY <1>1 DEF Chair
<1>4. rpc \in Enrichment /\ WellFormed(rpc)
  BY DEF PolicyInv, Views
<1>5. CASE FailPart
  <2>1. /\ rpc'.temporaryFailure = TRUE /\ rpc'.status = rpc.status /\ rpc'.tx = rpc.tx
        /\ rpc'.receipt = rpc.receipt
    BY <1>4, <1>5 DEF FailPart, Enrichment
  <2>2. Base'.status = Base.status
    BY <1>2, <1>3, <2>1 DEF Base, BaseTransaction, UsesRpcBase, Seen
  <2>3. Status' = Status
    BY <1>2, <2>1, <2>2 DEF Status, ResolvedStatus, Discrepancy
  <2> QED
    BY <1>2, <2>1, <2>3 DEF IsDegradedOrTemporaryFailure
<1>6. CASE LoseMetadata
  <2>1. /\ "degraded" \in rpc'.tokens /\ rpc'.status = rpc.status /\ rpc'.tx = rpc.tx
        /\ rpc'.receipt = rpc.receipt
    BY <1>4, <1>6 DEF LoseMetadata, Enrichment
  <2>2. Base'.status = Base.status
    BY <1>2, <1>3, <2>1 DEF Base, BaseTransaction, UsesRpcBase, Seen
  <2>3. Status' = Status
    BY <1>2, <2>1, <2>2 DEF Status, ResolvedStatus, Discrepancy
  <2> QED
    BY <1>2, <2>1, <2>3 DEF IsDegradedOrTemporaryFailure
<1>7. CASE LoseReceipt
  <2>1. /\ rpc'.status = "unknown" /\ rpc'.tx = rpc.tx
        /\ rpc'.receipt = "none" /\ rpc.tx # "none"
    BY <1>4, <1>7 DEF LoseReceipt, Enrichment
  <2>2. ASSUME Status = "pending" PROVE Status' = "pending"
    <3>1. rpc.status # "pending" /\ ResolvedStatus(Base, rpc) = "pending"
      BY <1>1, <1>2, <1>4, <2>2 DEF Status, WellFormed
    <3>2. Base.status = "pending"
      BY <3>1 DEF ResolvedStatus
    <3>3. ~UsesRpcBase(kind, Chair, rpc)
      BY <3>1, <3>2 DEF Base, BaseTransaction
    <3>4. Base'.status = "pending"
      BY <1>2, <1>3, <2>1, <3>2, <3>3 DEF Base, BaseTransaction, UsesRpcBase, Seen
    <3> QED
      BY <1>2, <2>1, <3>4 DEF Status, ResolvedStatus, Discrepancy
  <2>3. ASSUME Status' # "pending"
        PROVE  IsDegradedOrTemporaryFailure(Base, rpc)'
    <3>1. ResolvedStatus(Base, rpc)' # "pending"
      BY <1>2, <2>3 DEF Status
    <3>2. "receipt_unavailable" \in CoverageReasons(Base, rpc)'
      BY <2>1, <3>1 DEF CoverageReasons, Reasons
    <3> QED
      BY <3>2 DEF IsDegradedOrTemporaryFailure
  <2> QED
    BY <1>2, <2>2, <2>3
<1> QED
  BY <1>5, <1>6, <1>7 DEF Next

\* For any blocks, and any lifetimes that rank as the defaults do: an answer that has lost
\* its receipt, metadata or a part is not kept for longer than it was.
THEOREM PoorerLivesNoLonger ==
  ASSUME TTLsRanked PROVE Spec => PoorerNeverLivesLonger
<1>1. PolicyInv /\ [Next]_vars => [Answered /\ Answered' => Lifetime' <= Lifetime]_vars
  BY StepsDegrade, EvmTtlFalls
<1> QED
  BY <1>1, PolicyInvariance, PTL DEF Spec, PoorerNeverLivesLonger
=============================================================================
