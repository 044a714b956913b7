-------------------------- MODULE TransactionPolicy --------------------------
(***************************************************************************)
(* The decisions a lookup takes once its providers have answered, as pure   *)
(* operators: which provider's view becomes the base transaction, how two    *)
(* views of the status are reconciled, how much of the story is covered,     *)
(* how long the answer may be cached and when a poorer answer must not       *)
(* replace a cached one.  Source: transactions.service.ts, the coverage part *)
(* of story-generator.service.ts, evm-rpc.service.ts and cache.constants.ts. *)
(***************************************************************************)
EXTENDS Integers

CONSTANTS
    Blocks,       \* numbers of the blocks a transaction may be mined in
    FullTTL,      \* TRANSACTION_CACHE_TTL_SECONDS
    DegradedTTL,  \* TRANSACTION_CACHE_TTL_DEGRADED
    PendingTTL    \* TRANSACTION_CACHE_TTL_PENDING; 0 means "do not cache"

\* What the environment validation and the defaults guarantee.
ASSUME BlocksAssumption == Blocks \subseteq Nat \ {0}
ASSUME TTLAssumption ==
    /\ FullTTL \in Nat \ {0}
    /\ DegradedTTL \in Nat \ {0}
    /\ PendingTTL \in Nat

-----------------------------------------------------------------------------
(* The data.  Explanations, addresses, amounts and URLs are left out.        *)

NoBlock  == 0
BlockNos == Blocks \cup {NoBlock}

\* Blockchair's block_id is passed on as it is: null as '0', but -1 as '-1'.
InPool     == -1
ChairBlocks == BlockNos \cup {InPool}
Statuses == {"confirmed", "failed", "pending", "unknown"}
Hashes   == {"requested", "other"}

\* The codes a failed lookup can carry; "UNEXPECTED" is any other exception.
ErrorCodes ==
    {"TRANSACTION_NOT_FOUND", "RATE_LIMIT_EXCEEDED", "UPSTREAM_RATE_LIMITED",
     "UPSTREAM_TIMEOUT", "UPSTREAM_PROVIDER_ERROR", "UNEXPECTED"}

\* trace_not_available is left out: no decision reads it.
Reasons ==
    {"provider_discrepancy", "temporary_enrichment_failure",
     "receipt_unavailable", "metadata_unavailable", "unsupported_call"}

\* What the node says of the transaction itself: nothing, no block yet, block '0x0'
\* (which performEnrichment takes neither for a pool nor for a block), or a block.
TxKinds == {"none", "pool", "zero", "mined"}

\* What the RPC enrichment reports.  tokens = "degraded" when some metadata call
\* failed, "unresolved" when a decoded token has no decimals; unrecognised when
\* some log could not be decoded; movement when a transfer or approval was.
Enrichment ==
    [receipt : {"none", "success", "reverted", "statusless"},
     tx : TxKinds,
     hash : Hashes, block : BlockNos, status : Statuses,
     temporaryFailure : BOOLEAN,
     tokens : SUBSET {"degraded", "unresolved"},
     unrecognised : BOOLEAN, movement : BOOLEAN]

\* What Blockchair reports for an EVM transaction ...
ChairAnswer ==
    [code : (ErrorCodes \ {"RATE_LIMIT_EXCEEDED"}) \cup {"OK"},
     status : Statuses, block : ChairBlocks]

\* ... and for a UTXO one; recent means fewer than six confirmations.
UtxoAnswer ==
    [code : (ErrorCodes \ {"RATE_LIMIT_EXCEEDED"}) \cup {"OK"},
     status : {"confirmed", "pending"}, block : ChairBlocks, recent : BOOLEAN]

\* EnrichedTransactionData as the cache and the callers see it.
Snapshot ==
    [hash : Hashes, status : Statuses, block : ChairBlocks,
     coverage : {"complete", "partial", "unsupported", "none"},
     reasons : SUBSET Reasons, recent : BOOLEAN]

NoSnapshot ==
    [hash |-> "none", status |-> "unknown", block |-> NoBlock,
     coverage |-> "none", reasons |-> {}, recent |-> FALSE]

-----------------------------------------------------------------------------
(* A call of the node.                                                       *)

\* A result, an answer without one, a JSON-RPC error that is taken for transient or
\* not, no URL for the chain, an HTTP error, a timeout or the deadline.
NodeReplies == {"result", "null", "busy", "error", "unconfigured", "unreachable"}

\* Mutant: a node that is busy is taken at its word.
RpcCallOfBusyNode(r) ==
    CASE r = "result" -> "result"
      [] r = "unreachable" -> "throws"
      [] OTHER -> "null"

\* rpcCall: errors that are not transient, and a missing URL, read as "nothing there".
RpcCall(r) ==
    CASE r = "result" -> "result"
      [] r \in {"busy", "unreachable"} -> "throws"
      [] OTHER -> "null"

-----------------------------------------------------------------------------
(* What every result of EvmRpcService.enrichTransaction satisfies, whether   *)
(* it returns in time or is cut at its deadline.  A transaction of block     *)
(* '0x0' without receipt is unknown, and nobody says that something failed.  *)

Seen(e) == e.tx # "none" \/ e.receipt # "none"

WellFormed(e) ==
    /\ e.receipt = "success" <=> e.status = "confirmed"
    /\ e.receipt = "reverted" <=> e.status = "failed"
    /\ e.status = "pending" => e.receipt = "none" /\ e.tx = "pool"
    /\ e.receipt = "none" /\ e.tx = "mined" => e.temporaryFailure
    /\ e.receipt = "none" /\ e.tx = "pool" /\ e.status = "unknown" => e.temporaryFailure
    /\ e.receipt = "none" => e.tokens = {} /\ ~e.unrecognised
    /\ e.tx = "none" => e.hash = "requested"
    /\ e.receipt = "none" => (e.block = NoBlock <=> e.tx # "mined")

-----------------------------------------------------------------------------
(* Which view becomes the base transaction.                                  *)

\* A direct RPC chain has only the enrichment; ethereum falls back to it.
UsesRpcBase(kind, b, e) == kind = "rpc" \/ (b.code # "OK" /\ Seen(e))

EvmError(kind, b, e) ==
    CASE Seen(e) \/ (kind = "dual" /\ b.code = "OK") -> "OK"
      [] ~Seen(e) /\ kind = "dual" /\ b.code # "OK" -> b.code
      [] ~Seen(e) /\ kind = "rpc" /\ e.temporaryFailure -> "UPSTREAM_PROVIDER_ERROR"
      [] OTHER -> "TRANSACTION_NOT_FOUND"

\* createBaseTransaction takes hash, status and block from the RPC node as they
\* are; normalizeResponse has checked that the hash is the requested one.
BaseTransaction(kind, b, e) ==
    IF UsesRpcBase(kind, b, e)
    THEN [hash |-> e.hash, status |-> e.status, block |-> e.block]
    ELSE [hash |-> "requested", status |-> b.status, block |-> b.block]

-----------------------------------------------------------------------------
(* Reconciling the status of the base with the receipt's.                    *)

\* Mutants: only what the receipt says failed, or the base says failed, is compared.
DiscrepancyOfFailures(base, e) ==
    e.receipt # "none" /\ e.status = "failed" /\ base.status \notin {"unknown", "failed"}

DiscrepancyOfBaseFailures(base, e) ==
    e.receipt # "none" /\ base.status = "failed" /\ e.status \notin {"unknown", "failed"}

Discrepancy(base, e) ==
    /\ e.receipt # "none"
    /\ e.status # "unknown"
    /\ base.status # "unknown"
    /\ base.status # e.status

ResolvedStatus(base, e) ==
    IF Discrepancy(base, e) THEN "unknown"
    ELSE IF e.receipt # "none" /\ e.status # "unknown" THEN e.status
    ELSE base.status

-----------------------------------------------------------------------------
(* Coverage of the story.                                                    *)

CoverageReasons(base, e) ==
    {x \in Reasons :
        \/ x = "provider_discrepancy" /\ Discrepancy(base, e)
        \/ x = "temporary_enrichment_failure"
             /\ (e.temporaryFailure \/ "degraded" \in e.tokens)
        \/ x = "receipt_unavailable"
             /\ e.receipt = "none" /\ ResolvedStatus(base, e) # "pending"
        \/ x = "metadata_unavailable" /\ "unresolved" \in e.tokens
        \/ x = "unsupported_call" /\ e.unrecognised}

\* Mutant: a missing receipt does not make a story partial.
CoverageWithoutReceipt(base, e) ==
    IF e.temporaryFailure \/ Discrepancy(base, e) THEN "partial"
    ELSE IF ~e.movement THEN "unsupported"
    ELSE IF CoverageReasons(base, e) \cap {"unsupported_call", "metadata_unavailable"} # {}
         THEN "partial"
    ELSE "complete"

Coverage(base, e) ==
    IF e.temporaryFailure \/ Discrepancy(base, e) THEN "partial"
    ELSE IF ~e.movement THEN "unsupported"
    ELSE IF CoverageReasons(base, e)
              \cap {"unsupported_call", "metadata_unavailable", "receipt_unavailable"} # {}
         THEN "partial"
    ELSE "complete"

EvmSnapshot(base, e) ==
    [hash |-> base.hash, status |-> ResolvedStatus(base, e), block |-> base.block,
     coverage |-> Coverage(base, e), reasons |-> CoverageReasons(base, e),
     recent |-> FALSE]

UtxoSnapshot(u) ==
    [hash |-> "requested", status |-> u.status, block |-> u.block,
     coverage |-> "none", reasons |-> {}, recent |-> u.recent]

-----------------------------------------------------------------------------
(* How long an answer may be cached.                                         *)

\* Mutant: gaps of the story do not count.
OnlyTemporaryFailure(base, e) == e.temporaryFailure \/ Discrepancy(base, e)

IsDegradedOrTemporaryFailure(base, e) ==
    \/ e.temporaryFailure
    \/ Discrepancy(base, e)
    \/ "degraded" \in e.tokens
    \/ Coverage(base, e) = "partial"
    \/ CoverageReasons(base, e)
         \cap {"receipt_unavailable", "temporary_enrichment_failure", "metadata_unavailable"} # {}

\* Mutant: the two lifetimes are swapped.
SwappedTtl(status, hasTemporaryFailure) ==
    IF status = "pending" THEN PendingTTL
    ELSE IF hasTemporaryFailure \/ status = "unknown" THEN FullTTL
    ELSE DegradedTTL

ResolveTransactionCacheTtl(status, hasTemporaryFailure) ==
    IF status = "pending" THEN PendingTTL
    ELSE IF hasTemporaryFailure \/ status = "unknown" THEN DegradedTTL
    ELSE FullTTL

\* Mutants: metadata that failed to load, and low confirmations, are ignored.
EvmTtlIgnoringMetadata(base, e) ==
    ResolveTransactionCacheTtl(ResolvedStatus(base, e),
        e.temporaryFailure \/ Discrepancy(base, e) \/ Coverage(base, e) = "partial")
UtxoTtlIgnoringConfirmations(u) == ResolveTransactionCacheTtl(u.status, FALSE)

EvmTtl(base, e) ==
    ResolveTransactionCacheTtl(ResolvedStatus(base, e), IsDegradedOrTemporaryFailure(base, e))

UtxoTtl(u) ==
    ResolveTransactionCacheTtl(u.status, u.status = "confirmed" /\ u.recent)

-----------------------------------------------------------------------------
(* Reading the cache back.                                                   *)

\* Every entry this version writes has the shape the code checks for, so what
\* is left of the check is the hash.
IsPresent(s) == s.hash # "none"  \* mutant: any entry will do
IsValidCachedData(s) == s.hash = "requested"

\* Mutants: the block is not compared; the comparison of the receipts is inverted.
KeepsAnyBlock(s, fresh) ==
    /\ IsValidCachedData(s)
    /\ s.coverage = "complete" \/ "receipt_unavailable" \notin s.reasons
    /\ "receipt_unavailable" \in fresh.reasons
KeepsInverted(s, fresh) ==
    /\ IsValidCachedData(s)
    /\ s.block = fresh.block
    /\ s.coverage = "complete" \/ "receipt_unavailable" \notin s.reasons
    /\ "receipt_unavailable" \notin fresh.reasons

\* The cached answer s is kept in place of the poorer answer fresh.
KeepsExisting(s, fresh) ==
    /\ IsValidCachedData(s)
    /\ s.block = fresh.block
    /\ s.coverage = "complete" \/ "receipt_unavailable" \notin s.reasons
    /\ "receipt_unavailable" \in fresh.reasons
=============================================================================
