------------------------- MODULE BlockchairProvider -------------------------
(***************************************************************************)
(* What the answers of Blockchair are turned into: the errors of a failed    *)
(* request, the transaction a dashboard holds, its status and confirmations, *)
(* and whether a request for statistics was refused for want of quota.       *)
(* Source: blockchair.client.ts and blockchair.service.ts.  Amounts, times,  *)
(* addresses and the inputs and outputs of a transaction are left out.       *)
(***************************************************************************)
EXTENDS Integers

\* status: the class of the HTTP status, "none" without an answer; page: the 404 is
\* a page of the site and not JSON; late: the request ran into its timeout;
\* code: the class of context.code in the body; dict: data is a dictionary.
Responses ==
    [status : {"2xx", "quota", "404", "other", "none"}, page : BOOLEAN, late : BOOLEAN,
     code : {"none", "404", "quota"}, dict : BOOLEAN]

\* keyed: the transaction under the requested key; elsewhere: an entry under another
\* key carries the requested hash; verdict: what failed, status and has_result say.
NoBlockId == 0
Dashboards(blockIds) ==
    [keyed : {"absent", "hashless", "requested", "foreign"}, elsewhere : BOOLEAN,
     sender : BOOLEAN, verdict : {"none", "failed", "succeeded"}, block_id : blockIds]

-----------------------------------------------------------------------------
(* Requests for a transaction.                                               *)

\* Mutant: a page of the site counts as "not found".
TransactionErrorOfPages(r) ==
    CASE r.status = "quota" -> "UPSTREAM_RATE_LIMITED"
      [] r.status = "404" -> "TRANSACTION_NOT_FOUND"
      [] r.status \notin {"quota", "404"} /\ r.late -> "UPSTREAM_TIMEOUT"
      [] OTHER -> "UPSTREAM_PROVIDER_ERROR"

\* handleTransactionAxiosError.
TransactionError(r) ==
    CASE r.status = "quota" -> "UPSTREAM_RATE_LIMITED"
      [] r.status = "404" /\ ~r.page -> "TRANSACTION_NOT_FOUND"
      [] r.status \notin {"quota", "404"} /\ r.late -> "UPSTREAM_TIMEOUT"
      [] OTHER -> "UPSTREAM_PROVIDER_ERROR"

\* Mutant: whatever stands under the requested key is taken for it.
FoundByKey(d) == IF d.keyed # "absent" \/ d.elsewhere THEN "requested" ELSE "absent"

\* The entry under the requested key, or else one that carries the requested hash.
Found(d) ==
    IF d.keyed # "absent" THEN d.keyed ELSE IF d.elsewhere THEN "requested" ELSE "absent"

\* The error normalizeResponse and normalizeUtxoResponse throw, or "OK".
EntryError(r, d) ==
    CASE r.code = "404" \/ ~r.dict \/ Found(d) \in {"absent", "hashless"}
           -> "TRANSACTION_NOT_FOUND"
      [] r.code # "404" /\ r.dict /\ Found(d) = "foreign" -> "UPSTREAM_PROVIDER_ERROR"
      [] OTHER -> "OK"

UtxoCode(r, d) == IF r.status # "2xx" THEN TransactionError(r) ELSE EntryError(r, d)

EvmCode(r, d) ==
    IF UtxoCode(r, d) = "OK" /\ ~d.sender THEN "UPSTREAM_PROVIDER_ERROR" ELSE UtxoCode(r, d)

-----------------------------------------------------------------------------
(* The transaction a dashboard holds.  A block_id that is null, zero or       *)
(* negative means that the transaction is in no block; a negative one is     *)
(* still what the answer calls its block, and null is '0'.                   *)

Mined(d)   == d.block_id > 0
BlockOf(d) == d.block_id

\* Mutant: the block is looked at before the verdict.
StatusOfBlock(d) ==
    IF d.verdict = "succeeded" \/ Mined(d) THEN "confirmed"
    ELSE IF d.verdict = "failed" THEN "failed" ELSE "pending"

EvmStatus(d) ==
    IF d.verdict = "failed" THEN "failed"
    ELSE IF d.verdict = "succeeded" \/ Mined(d) THEN "confirmed" ELSE "pending"

UtxoStatus(d) == IF Mined(d) THEN "confirmed" ELSE "pending"

\* Mutant: the height is trusted although it is below the block.
ConfirmationsUnchecked(d, state) ==
    IF ~Mined(d) THEN 0
    ELSE IF state >= d.block_id THEN state - d.block_id + 1 ELSE d.block_id - state + 1

\* state is context.state, the height Blockchair answers at; NoBlockId if it is not
\* a number.  It may lag behind the block the transaction is in.
Confirmations(d, state) ==
    IF ~Mined(d) THEN 0
    ELSE IF state >= d.block_id THEN state - d.block_id + 1 ELSE 1

\* What the lookup sees of an EVM and of a UTXO transaction.
AsChairAnswer(r, d) ==
    IF EvmCode(r, d) = "OK"
    THEN [code |-> "OK", status |-> EvmStatus(d), block |-> BlockOf(d)]
    ELSE [code |-> EvmCode(r, d), status |-> "unknown", block |-> NoBlockId]

AsUtxoAnswer(r, d, state) ==
    IF UtxoCode(r, d) = "OK"
    THEN [code |-> "OK", status |-> UtxoStatus(d), block |-> BlockOf(d),
          recent |-> Mined(d) /\ Confirmations(d, state) < 6]
    ELSE [code |-> UtxoCode(r, d), status |-> "pending", block |-> NoBlockId, recent |-> FALSE]

-----------------------------------------------------------------------------
(* Requests for statistics.  They never throw.                               *)

\* Mutant: only the status of the answer is looked at, not the code in its body.
LimitedByStatus(r) == r.status = "quota"

Limited(r) == IF r.status = "2xx" THEN r.code = "quota" ELSE r.status = "quota"

HasStats(r) == r.status = "2xx" /\ ~Limited(r) /\ r.dict
=============================================================================
