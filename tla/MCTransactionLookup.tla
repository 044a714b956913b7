------------------------- MODULE MCTransactionLookup -------------------------
(* Small instances of TransactionLookup for TLC.                             *)
EXTENDS TransactionLookup, TLC

CONSTANTS r1, r2, r3, k1, k2

Symmetry == Permutations(Requests)

AllDual == [k \in Keys |-> "dual"]
AllRpc  == [k \in Keys |-> "rpc"]
\* One key of each kind whose answer rests on a single provider.
Mixed   == [k \in Keys |-> IF k = k1 THEN "rpc" ELSE "utxo"]

\* The receipt, the transaction and the metadata all came back.
Whole == [receipt |-> "success", tx |-> "mined", hash |-> "requested", block |-> 1,
          status |-> "confirmed", temporaryFailure |-> FALSE, tokens |-> {},
          unrecognised |-> FALSE, movement |-> TRUE]
\* The node lags: mined, but the receipt is not there yet.
Receiptless == [Whole EXCEPT !.receipt = "none", !.status = "unknown", !.temporaryFailure = TRUE]
\* One metadata call failed.
Patchy == [Whole EXCEPT !.tokens = {"degraded"}]
\* The same transaction in another block after a reorganisation.
Moved == [Whole EXCEPT !.block = 2]
\* Still in the pool.
Pooled == [Receiptless EXCEPT !.tx = "pool", !.block = 0, !.status = "pending",
                              !.temporaryFailure = FALSE]
\* Nothing before the deadline, and nothing known.
Silent  == [Pooled EXCEPT !.tx = "none", !.status = "unknown", !.temporaryFailure = TRUE]
Unknown == [Silent EXCEPT !.temporaryFailure = FALSE]
\* The node answered for another transaction.
Foreign == [Whole EXCEPT !.hash = "other"]

\* The deadline cut the metadata step of a transaction whose receipt was there.
CutShort == [Whole EXCEPT !.temporaryFailure = TRUE]

ChairMined    == [code |-> "OK", status |-> "confirmed", block |-> 1]
ChairFails(c) == [code |-> c, status |-> "unknown", block |-> 0]

DualEnrichments == {Whole, Receiptless, Silent}
DualChair       == {ChairFails("UPSTREAM_RATE_LIMITED")}
RpcEnrichments  == {Whole, Receiptless, Patchy, Moved, Pooled, Silent, Unknown, Foreign}
CutEnrichments  == {Whole, CutShort}
NoUtxo          == {}
RpcChair        == {ChairMined}
FewUtxo ==
    {[code |-> "OK", status |-> "confirmed", block |-> 1, recent |-> TRUE],
     [code |-> "OK", status |-> "pending", block |-> 0, recent |-> FALSE],
     [code |-> "UPSTREAM_TIMEOUT", status |-> "pending", block |-> 0, recent |-> FALSE]}
=============================================================================
