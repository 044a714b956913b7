------------------------- MODULE MCTransactionPolicy -------------------------
(***************************************************************************)
(* The decisions of TransactionPolicy over what the providers send: every    *)
(* answer of Blockchair, taken through BlockchairProvider, with every view   *)
(* of the node.  A behaviour starts from any pair and loses information      *)
(* about the transaction step by step, as slower or failing providers would. *)
(***************************************************************************)
EXTENDS TransactionPolicy, BlockchairProvider

CONSTANTS
    BlockIds,   \* what block_id may be in Blockchair's answers about an EVM transaction
    MaxHeight   \* of the chain, in the answers considered

ASSUME HeightsAssumption == BlockIds \subseteq Int /\ MaxHeight \in Nat

\* A transaction in no block, in two ways, and in either of two blocks.
SomeBlockIds == -1..2

VARIABLES kind, response, dashboard, height, tip, rpc,
          heard  \* what the node's two calls came back with, if nothing of the transaction
vars == <<kind, response, dashboard, height, tip, rpc, heard>>

\* An answer that holds the transaction, and one that does not.
Answer == [status |-> "2xx", page |-> FALSE, late |-> FALSE, code |-> "none", dict |-> TRUE]
Entry  == [keyed |-> "requested", elsewhere |-> FALSE, sender |-> TRUE, verdict |-> "none",
           block_id |-> 1]

\* What a request may come back with, as far as it decides about the error ...
Refusals  == {r \in Responses : r.status # "2xx" /\ r.code = "none" /\ ~r.dict}
Bodies    == {r \in Responses : r.status = "2xx" /\ ~r.page /\ ~r.late}
Entries   == {d \in Dashboards({1}) : d.verdict = "none"}
\* ... and as far as it decides about the transaction.
Sightings == {d \in Dashboards(BlockIds) :
                 d.keyed = "requested" /\ ~d.elsewhere /\ d.sender}

Exchanges ==
    (Refusals \X {Entry}) \cup (Bodies \X Entries) \cup ({Answer} \X Sightings)

\* The node has nothing to say about a UTXO transaction.
NoView == [receipt |-> "none", tx |-> "none", hash |-> "requested", block |-> NoBlock,
           status |-> "unknown", temporaryFailure |-> FALSE, tokens |-> {},
           unrecognised |-> FALSE, movement |-> FALSE]
Views == {e \in Enrichment : WellFormed(e)}

\* The node has something of the transaction, or two calls that brought nothing: then
\* the view says that something failed just when one of them did.
NodeSays ==
    /\ rpc \in Views
    /\ IF Seen(rpc) THEN heard = {}
       ELSE /\ \/ \E x, y \in {"null", "busy", "error", "unreachable"} : heard = {x, y}
               \/ heard = {"unconfigured"}
            /\ rpc.temporaryFailure = \E r \in heard : RpcCall(r) = "throws"

\* What Blockchair sends for a transaction of an EVM chain, or of a UTXO one, whose
\* block is on the chain by then.
ChairSends(exchanges) == \E x \in exchanges : response = x[1] /\ dashboard = x[2]

Init ==
    \/ /\ kind = "dual" /\ ChairSends(Exchanges)
       /\ height = 1 /\ tip = 1 /\ NodeSays
    \/ /\ kind = "rpc" /\ ChairSends({<<Answer, Entry>>})
       /\ height = 1 /\ tip = 1 /\ NodeSays
    \* The height Blockchair reports lags behind the chain, or is missing.
    \/ /\ kind = "utxo" /\ rpc = NoView /\ heard = {}
       /\ tip \in 1..MaxHeight /\ height \in 0..tip
       /\ \/ ChairSends({x \in Exchanges : x[2].block_id <= tip})
          \/ ChairSends({<<Answer, [Entry EXCEPT !.block_id = n]>> : n \in -1..tip})

\* A later call of the enrichment fails, or is cut at the deadline.
FailPart ==
    /\ rpc.receipt # "none"
    /\ rpc' = [rpc EXCEPT !.temporaryFailure = TRUE]
    /\ UNCHANGED <<kind, response, dashboard, height, tip, heard>>

LoseMetadata ==
    /\ rpc.receipt # "none"
    /\ rpc' = [rpc EXCEPT !.tokens = @ \cup {"degraded"}]
    /\ UNCHANGED <<kind, response, dashboard, height, tip, heard>>

\* The node has the transaction in a block, the one its receipt named, but not the
\* receipt any more; where it calls the block '0x0', nobody takes that for a failure.
LoseReceipt ==
    /\ rpc.receipt # "none" /\ rpc.tx \in {"zero", "mined"}
    /\ rpc.tx = "mined" <=> rpc.block # NoBlock
    /\ rpc' = [rpc EXCEPT !.receipt = "none", !.status = "unknown", !.tokens = {},
                          !.unrecognised = FALSE,
                          !.temporaryFailure = @ \/ rpc.tx = "mined"]
    /\ UNCHANGED <<kind, response, dashboard, height, tip, heard>>

Next == FailPart \/ LoseMetadata \/ LoseReceipt
Spec == Init /\ [][Next]_vars

-----------------------------------------------------------------------------
Chair == AsChairAnswer(response, dashboard)
Utxo  == AsUtxoAnswer(response, dashboard, height)
Base  == BaseTransaction(kind, Chair, rpc)

\* How the lookup ends, and what it says and keeps if it succeeds.
Code     == IF kind = "utxo" THEN Utxo.code ELSE EvmError(kind, Chair, rpc)
Answered == Code = "OK"
Status   == IF kind = "utxo" THEN Utxo.status ELSE ResolvedStatus(Base, rpc)
Lifetime == IF kind = "utxo" THEN UtxoTtl(Utxo) ELSE EvmTtl(Base, rpc)
Final    == {"confirmed", "failed"}

\* The answer of Blockchair holds the requested transaction.
ChairHasIt ==
    /\ response.status = "2xx" /\ response.code # "404" /\ response.dict
    /\ \/ dashboard.keyed = "requested"
       \/ dashboard.keyed = "absent" /\ dashboard.elsewhere

\* An answer is kept for longer than an incomplete or a pending one only if it is final
\* and nothing failed on the way; of an EVM transaction the receipt stands behind it, and
\* a UTXO one is six blocks deep at least, however far the height Blockchair reports lags
\* behind.
LongLifeIsCorroborated ==
    Answered /\ Lifetime \notin {DegradedTTL, PendingTTL} =>
        /\ Status \in Final
        /\ kind = "utxo" => tip - dashboard.block_id + 1 >= 6
        /\ kind # "utxo" =>
             /\ rpc.receipt # "none"
             /\ ~rpc.temporaryFailure /\ rpc.tokens = {}
             /\ Coverage(Base, rpc) # "partial"

\* What Blockchair itself says of the transaction: its verdict, or that it is in a block.
ChairFailsIt  == dashboard.verdict = "failed"
ChairSucceeds ==
    dashboard.verdict = "succeeded" \/ (dashboard.verdict = "none" /\ Mined(dashboard))

\* A verdict is given only if no provider that has the transaction gives the opposite
\* one, whichever of the two it is; and where only Blockchair stands behind it,
\* Blockchair said so of the requested transaction (normalizeResponse, the
\* reconciliation of executeEvmLookup).
NoVerdictAgainstAProvider ==
    Answered /\ Status \in Final =>
        /\ rpc.status \in Final => rpc.status = Status
        /\ kind = "dual" /\ Chair.code = "OK" =>
             /\ ChairFailsIt => Status = "failed"
             /\ ChairSucceeds => Status = "confirmed"
        /\ kind # "rpc" /\ ~Seen(rpc) => ChairHasIt

\* Blockchair's answer tells that it does not have the transaction ...
ChairDeniesIt ==
    \/ response.status = "404" /\ ~response.page
    \/ response.status = "2xx" /\ ~Limited(response) /\ ~ChairHasIt
\* ... or refuses to answer, in the body of a successful response.
QuotaInBody == response.status = "2xx" /\ Limited(response) /\ ~ChairHasIt

\* mvp-spec.md:112-113 tells "not found" from a provider that is not available.  No
\* transaction that the node has seen is not found.  Of Blockchair it takes an answer
\* that does not hold the transaction, never a timeout or a page of the site and of the
\* refusals only the one QuotaStaysQuota is about.  Of the node alone it takes two calls
\* that ended without a transient error, an HTTP error, a timeout or the deadline; but
\* for the code an error it does not take for transient, and a node that is not
\* configured, are such answers too (evm-rpc.client.ts:47,81): there it says "not
\* found" where line 113 has "unavailable".
NotFoundIsKnown ==
    Code = "TRANSACTION_NOT_FOUND" =>
        /\ ~Seen(rpc)
        /\ kind # "rpc" => ChairDeniesIt \/ QuotaInBody
        /\ kind = "rpc" => heard \subseteq {"null", "error", "unconfigured"}

\* A complete answer about a transaction that is not pending has its receipt, the
\* decimals of every token that moves, and no log that could not be read.  All it may
\* lack is the symbol or name of a token; where the call for it failed, its reasons say
\* that something did, and it is not kept for longer than a degraded one.  (By
\* api-contract.md:158 an answer with missing metadata would be partial.)
CompleteLacksNamesOnly ==
    Answered /\ kind # "utxo" /\ Coverage(Base, rpc) = "complete" /\ Status # "pending" =>
        /\ rpc.receipt # "none" /\ ~rpc.temporaryFailure
        /\ "unresolved" \notin rpc.tokens /\ ~rpc.unrecognised
        /\ "degraded" \in rpc.tokens =>
             /\ "temporary_enrichment_failure" \in CoverageReasons(Base, rpc)
             /\ Lifetime = DegradedTTL

\* Losing a part of an answer never makes Redis keep it longer.
PoorerNeverLivesLonger ==
    [][Answered /\ Answered' => Lifetime' <= Lifetime]_vars

\* API.md:14: "Provider quota errors remain UPSTREAM_RATE_LIMITED with HTTP 503".
\* What the client takes for a quota error in a request for statistics is one here.
QuotaStaysQuota ==
    kind # "rpc" /\ Limited(response) /\ ~Answered => Code = "UPSTREAM_RATE_LIMITED"
=============================================================================
