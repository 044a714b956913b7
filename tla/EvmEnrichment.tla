---------------------------- MODULE EvmEnrichment ----------------------------
(***************************************************************************)
(* EvmRpcService.enrichTransaction: what the RPC node knows of a transaction *)
(* is collected in steps that race with a deadline.  What has been collected *)
(* is kept in an object the deadline hands out while the steps may still be  *)
(* running, and the metadata of tokens is shared with the other lookups.     *)
(*                                                                           *)
(* An action is what happens from one await of performEnrichment to the      *)
(* next; a receipt whose gasUsed is not a number is left out.                *)
(***************************************************************************)
EXTENDS TransactionPolicy, Sequences

CONSTANTS
    Lookups,     \* the calls of enrichTransaction
    Tokens,      \* the contracts whose logs receipts may hold
    NoOne,
    Mentions,    \* [Lookups -> the tokens in the logs of its receipt, in order]
    BatchSize,   \* MAX_METADATA_CONCURRENCY (3 in the code)
    Receipts,    \* the receipts the node may hold
    Sightings,   \* what the node may answer about the transaction
    Fetchable,   \* what a fetch of metadata may come back with
    MaxEntries, FullLife, ShortLife, MaxClock  \* of TokenMetadataCache

ASSUME EnrichmentAssumption ==
    /\ NoOne \notin Lookups \X Tokens
    /\ Mentions \in [Lookups -> Seq(Tokens)]
    /\ \A l \in Lookups : \A i, j \in DOMAIN Mentions[l] :
          Mentions[l][i] = Mentions[l][j] => i = j  \* candidateTokens is a Set
    /\ BatchSize \in Nat \ {0}
    /\ Receipts \subseteq {"success", "reverted", "statusless"}
    /\ Sightings \subseteq TxKinds
    /\ "failed" \in Fetchable
    /\ Fetchable \subseteq {"full", "symbol", "blank", "degraded", "failed"}
    /\ MaxEntries \in Nat \ {0}
    /\ ShortLife \in Nat \ {0} /\ FullLife \in Nat /\ ShortLife <= FullLife
    /\ MaxClock \in Nat
    /\ Blocks # {}

VARIABLES
    run,       \* [Lookups -> the local variables of performEnrichment]
    partial,   \* [Lookups -> defaultData, which performEnrichment fills]
    outcome,   \* [Lookups -> "none", "whole" or, cut or failed, "cut"]
    returned,  \* [Lookups -> the object handed to the caller]
    clock, cache, fetching, call, fetcher, fetched, got  \* of TokenMetadataCache

metadataVars == <<clock, cache, fetching, call, fetcher, fetched, got>>
vars == <<run, partial, outcome, returned, metadataVars>>

Metadata == INSTANCE TokenMetadataCache WITH
    Calls <- Lookups \X Tokens,
    TokenOf <- [c \in Lookups \X Tokens |-> c[2]]

-----------------------------------------------------------------------------
Stages == {"new", "calling", "lagging", "retrying", "detailing", "done", "failed"}
Early  == {"receipt", "tx"}

KnownTokens == [Tokens -> Metadata!Qualities \cup {Metadata!Nothing}]
NoToken     == [t \in Tokens |-> Metadata!Nothing]

\* wire: the RPC calls without an answer, those of metadata apart; known: the local
\* tokenMetadataMap; due: the tokens of the batch still to be asked for in this
\* step; batch: those awaited; todo: those of later batches.
Runs ==
    [stage : Stages, wire : SUBSET {"receipt", "tx", "retry", "code", "block"},
     receipt : Receipts \cup {"none"}, tx : TxKinds,
     known : KnownTokens, due : Seq(Tokens), batch : SUBSET Tokens, todo : Seq(Tokens)]

Collected ==
    [receipt : Receipts \cup {"none"}, tx : TxKinds,
     status : Statuses, failure : BOOLEAN, known : KnownTokens]

NothingYet ==
    [receipt |-> "none", tx |-> "none", status |-> "unknown", failure |-> FALSE,
     known |-> NoToken]

TypeOK ==
    /\ run \in [Lookups -> Runs]
    /\ partial \in [Lookups -> Collected]
    /\ outcome \in [Lookups -> {"none", "whole", "cut"}]
    /\ returned \in [Lookups -> Collected]
    /\ Metadata!TypeOK

Init ==
    /\ run = [l \in Lookups |->
                [stage |-> "new", wire |-> {}, receipt |-> "none", tx |-> "none",
                 known |-> NoToken, due |-> <<>>, batch |-> {}, todo |-> <<>>]]
    /\ partial = [l \in Lookups |-> NothingYet]
    /\ outcome = [l \in Lookups |-> "none"]
    /\ returned = [l \in Lookups |-> NothingYet]
    /\ Metadata!Init

\* enrichTransaction has returned; its finally handler has aborted the signal.
Over(l) == outcome[l] # "none"

\* What the caller holds: an object cut at the deadline shares its map of tokens
\* with the steps that may still be running.
Given(l) ==
    IF outcome[l] = "cut" THEN [returned[l] EXCEPT !.known = partial[l].known] ELSE returned[l]

\* Nobody is in the middle of a step.
Idle == \A l \in Lookups : run[l].due = <<>>

First(s, n) == SubSeq(s, 1, IF n < Len(s) THEN n ELSE Len(s))
Rest(s, n)  == SubSeq(s, n + 1, Len(s))

\* Mutant: the status of the receipt as it is.
StatusAsSent(receipt) == receipt

StatusOf(receipt) ==
    CASE receipt = "success" -> "confirmed" [] receipt = "reverted" -> "failed" [] OTHER -> "unknown"

\* Mutant: the clause swallows the error and returns nothing.
CutSilently(l) == UNCHANGED <<outcome, returned>>

\* The catch clause of enrichTransaction: a shallow copy of what was collected.
Cut(l) ==
    /\ outcome' = [outcome EXCEPT ![l] = "cut"]
    /\ returned' = [returned EXCEPT ![l] = [partial[l] EXCEPT !.failure = TRUE]]

-----------------------------------------------------------------------------
(* The receipt and the transaction.                                          *)

Begin(l) ==
    /\ Idle /\ run[l].stage = "new"
    /\ run' = [run EXCEPT ![l] = [run[l] EXCEPT !.stage = "calling", !.wire = Early]]
    /\ UNCHANGED <<partial, outcome, returned, metadataVars>>

\* Mutant: the early answer is kept to the local variable.
ReceiptUnsaved(l, receipt) ==
    /\ Idle /\ "receipt" \in run[l].wire /\ ~Over(l)
    /\ run' = [run EXCEPT ![l] = [run[l] EXCEPT !.wire = @ \ {"receipt"}, !.receipt = receipt]]
    /\ UNCHANGED <<partial, outcome, returned, metadataVars>>

\* Once aborted a call can only fail: the signal is that of its HTTP request.
ReceiptAnswers(l, receipt) ==
    /\ Idle /\ "receipt" \in run[l].wire /\ ~Over(l)
    /\ run' = [run EXCEPT ![l] = [run[l] EXCEPT !.wire = @ \ {"receipt"}, !.receipt = receipt]]
    /\ partial' = [partial EXCEPT ![l] =
         [partial[l] EXCEPT !.receipt = receipt, !.status = StatusOf(receipt)]]
    /\ UNCHANGED <<outcome, returned, metadataVars>>

TxAnswers(l, tx) ==
    /\ Idle /\ "tx" \in run[l].wire /\ ~Over(l)
    /\ run' = [run EXCEPT ![l] = [run[l] EXCEPT !.wire = @ \ {"tx"}, !.tx = tx]]
    /\ partial' = [partial EXCEPT ![l] = [partial[l] EXCEPT !.tx = tx]]
    /\ UNCHANGED <<outcome, returned, metadataVars>>

EarlyCallFails(l, c) ==
    /\ Idle /\ c \in run[l].wire \cap Early
    /\ run' = [run EXCEPT ![l] = [run[l] EXCEPT !.wire = @ \ {c}]]
    /\ partial' = [partial EXCEPT ![l] = [partial[l] EXCEPT !.failure = TRUE]]
    /\ UNCHANGED <<outcome, returned, metadataVars>>

\* Mutant: block '0x0' is taken for no block, as in the pool.
StatusOfZeroAsPool(l, receipt) ==
    IF receipt # "none" THEN StatusOf(receipt)
    ELSE IF run[l].tx \in {"pool", "zero"} /\ ~partial[l].failure THEN "pending" ELSE "unknown"

\* The receipt decides; without one a transaction in no block is pending, unless a call
\* of the node failed.  Block '0x0' is a block here.
SettledStatus(l, receipt) ==
    IF receipt # "none" THEN StatusOf(receipt)
    ELSE IF run[l].tx = "pool" /\ ~partial[l].failure THEN "pending" ELSE "unknown"

\* Mutant: a failed call of the node does not count, nor does a missing receipt.
DetailIgnoringFailures(l, receipt) ==
    LET tx == run[l].tx
        status == IF receipt # "none" THEN StatusOf(receipt)
                  ELSE IF tx = "pool" THEN "pending" ELSE "unknown"
        tokens == IF receipt = "none" THEN <<>> ELSE Mentions[l]
    IN  /\ partial' = [partial EXCEPT ![l] =
                         [partial[l] EXCEPT !.receipt = receipt, !.tx = tx, !.status = status]]
        /\ run' = [run EXCEPT ![l] =
                     [run[l] EXCEPT
                        !.stage = "detailing", !.receipt = receipt, !.wire = {},
                        !.due = First(tokens, BatchSize), !.todo = Rest(tokens, BatchSize)]]

\* The status is settled, everything so far is saved, and the calls for the code,
\* the block and the first batch of tokens are started.  A transaction of block '0x0'
\* is neither pending nor mined, and its block is not asked for.
Detail(l, receipt) ==
    LET tx == run[l].tx
        status == SettledStatus(l, receipt)
        tokens == IF receipt = "none" THEN <<>> ELSE Mentions[l]
    IN  /\ partial' = [partial EXCEPT ![l] =
                         [partial[l] EXCEPT
                            !.receipt = receipt, !.tx = tx, !.status = status,
                            !.failure = @ \/ (receipt = "none" /\ tx = "mined")]]
        /\ run' = [run EXCEPT ![l] =
                     [run[l] EXCEPT
                        !.stage = "detailing", !.receipt = receipt,
                        !.wire = (IF tx # "none" \/ receipt # "none" THEN {"code"} ELSE {})
                            \cup (IF tx = "mined" \/ (receipt # "none" /\ tx # "zero")
                                  THEN {"block"} ELSE {}),
                        !.due = First(tokens, BatchSize), !.todo = Rest(tokens, BatchSize)]]

\* Both early calls have ended.  A mined transaction without receipt is asked for
\* once more after a pause.
Assess(l) ==
    /\ Idle /\ run[l].stage = "calling" /\ run[l].wire = {}
    /\ IF Over(l)
       THEN run' = [run EXCEPT ![l] = [run[l] EXCEPT !.stage = "failed"]] /\ UNCHANGED partial
       ELSE IF run[l].receipt = "none" /\ run[l].tx = "mined"
       THEN run' = [run EXCEPT ![l] = [run[l] EXCEPT !.stage = "lagging"]] /\ UNCHANGED partial
       ELSE Detail(l, run[l].receipt)
    /\ UNCHANGED <<outcome, returned, metadataVars>>

\* Mutant: the deadline is not looked at after the pause.
RetryAnyway(l) ==
    /\ Idle /\ run[l].stage = "lagging"
    /\ run' = [run EXCEPT ![l] = [run[l] EXCEPT !.stage = "retrying", !.wire = {"retry"}]]
    /\ UNCHANGED <<partial, outcome, returned, metadataVars>>

Retry(l) ==
    /\ Idle /\ run[l].stage = "lagging"
    /\ run' = [run EXCEPT ![l] =
                  IF Over(l) THEN [run[l] EXCEPT !.stage = "failed"]
                  ELSE [run[l] EXCEPT !.stage = "retrying", !.wire = {"retry"}]]
    /\ UNCHANGED <<partial, outcome, returned, metadataVars>>

RetryAnswers(l, receipt) ==
    /\ Idle /\ run[l].stage = "retrying" /\ ~Over(l)
    /\ Detail(l, receipt)
    /\ UNCHANGED <<outcome, returned, metadataVars>>

\* Nothing catches a failure of the retry but enrichTransaction itself.
RetryFails(l) ==
    /\ Idle /\ run[l].stage = "retrying"
    /\ run' = [run EXCEPT ![l] = [run[l] EXCEPT !.stage = "failed", !.wire = {}]]
    /\ IF Over(l) THEN UNCHANGED <<outcome, returned>> ELSE Cut(l)
    /\ UNCHANGED <<partial, metadataVars>>

-----------------------------------------------------------------------------
(* Code, block and tokens.                                                   *)

\* getCode and getBlockByNumber answer or, failing, answer nothing.
DetailCallEnds(l, c) ==
    /\ Idle /\ c \in run[l].wire \cap {"code", "block"}
    /\ run' = [run EXCEPT ![l] = [run[l] EXCEPT !.wire = @ \ {c}]]
    /\ UNCHANGED <<partial, outcome, returned, metadataVars>>

\* The calls of one batch start one after the other, with nothing between them.
AskForToken(l) ==
    /\ run[l].due # <<>>
    /\ Metadata!Ask(<<l, Head(run[l].due)>>)
    /\ run' = [run EXCEPT ![l] = [run[l] EXCEPT !.due = Tail(@), !.batch = @ \cup {Head(run[l].due)}]]
    /\ UNCHANGED <<partial, outcome, returned>>

BatchServed(l) ==
    /\ run[l].batch # {}
    /\ \A t \in run[l].batch : call[<<l, t>>] = "served"

WithBatch(l, known) == [t \in Tokens |-> IF t \in run[l].batch THEN got[<<l, t>>] ELSE known[t]]

\* Mutants: the shared map is filled whether or not it has been handed out; the
\* next batch is asked for without a look at the deadline; the rest is forgotten.
BatchAlwaysSaved(l) ==
    /\ Idle /\ BatchServed(l)
    /\ partial' = [partial EXCEPT ![l] = [partial[l] EXCEPT !.known = WithBatch(l, @)]]
    /\ run' = [run EXCEPT ![l] =
         [run[l] EXCEPT !.known = WithBatch(l, @), !.batch = {},
                   !.stage = IF run[l].todo # <<>> /\ Over(l) THEN "failed" ELSE @,
                   !.due = IF Over(l) THEN <<>> ELSE First(run[l].todo, BatchSize),
                   !.todo = IF Over(l) THEN <<>> ELSE Rest(@, BatchSize)]]
    /\ UNCHANGED <<outcome, returned, metadataVars>>
BatchGoesOn(l) ==
    /\ Idle /\ BatchServed(l)
    /\ partial' = [partial EXCEPT ![l] =
         [partial[l] EXCEPT !.known = IF Over(l) THEN @ ELSE WithBatch(l, @)]]
    /\ run' = [run EXCEPT ![l] =
         [run[l] EXCEPT !.known = WithBatch(l, @), !.batch = {},
                   !.due = First(run[l].todo, BatchSize), !.todo = Rest(@, BatchSize)]]
    /\ UNCHANGED <<outcome, returned, metadataVars>>
OnlyOneBatch(l) ==
    /\ Idle /\ BatchServed(l)
    /\ partial' = [partial EXCEPT ![l] =
         [partial[l] EXCEPT !.known = IF Over(l) THEN @ ELSE WithBatch(l, @)]]
    /\ run' = [run EXCEPT ![l] =
         [run[l] EXCEPT !.known = WithBatch(l, @), !.batch = {}, !.todo = <<>>]]
    /\ UNCHANGED <<outcome, returned, metadataVars>>

\* A batch is complete: it is recorded in the local map and, unless the deadline has
\* handed it out, in the shared one; then the next batch is asked for.
BatchEnds(l) ==
    /\ Idle /\ BatchServed(l)
    /\ partial' = [partial EXCEPT ![l] =
         [partial[l] EXCEPT !.known = IF Over(l) THEN @ ELSE WithBatch(l, @)]]
    /\ run' = [run EXCEPT ![l] =
         [run[l] EXCEPT !.known = WithBatch(l, @), !.batch = {},
                   !.stage = IF run[l].todo # <<>> /\ Over(l) THEN "failed" ELSE @,
                   !.due = IF Over(l) THEN <<>> ELSE First(run[l].todo, BatchSize),
                   !.todo = IF Over(l) THEN <<>> ELSE Rest(@, BatchSize)]]
    /\ UNCHANGED <<outcome, returned, metadataVars>>

\* Code, block and tokens are all there: the whole result, if it is in time.
Finish(l) ==
    /\ Idle /\ run[l].stage = "detailing"
    /\ run[l].wire = {} /\ run[l].batch = {} /\ run[l].todo = <<>>
    /\ run' = [run EXCEPT ![l] = [run[l] EXCEPT !.stage = "done"]]
    /\ IF Over(l) THEN UNCHANGED <<outcome, returned>>
       ELSE /\ outcome' = [outcome EXCEPT ![l] = "whole"]
            /\ returned' = [returned EXCEPT ![l] =
                  [receipt |-> run[l].receipt, tx |-> run[l].tx, status |-> partial[l].status,
                   failure |-> partial[l].failure, known |-> run[l].known]]
    /\ UNCHANGED <<partial, metadataVars>>

-----------------------------------------------------------------------------
(* The deadline, and the metadata of other lookups.                          *)

Deadline(l) ==
    /\ Idle /\ run[l].stage # "new" /\ ~Over(l)
    /\ Cut(l)
    /\ UNCHANGED <<run, partial, metadataVars>>

\* Mutant: an aborted fetch never settles.
FetchEndsInTime(l, t, q) ==
    /\ Idle /\ ~Over(l)
    /\ Metadata!Land(<<l, t>>, q)
    /\ UNCHANGED <<run, partial, outcome, returned>>

\* A fetch runs under the signal of the lookup that started it: once that one is
\* over, what is missing of the fetch fails, for everyone who shares it.
FetchEnds(l, t, q) ==
    /\ Idle
    /\ Over(l) => q \in {"degraded", "failed"}
    /\ Metadata!Land(<<l, t>>, q)
    /\ UNCHANGED <<run, partial, outcome, returned>>

FetchResumes(l, t) ==
    /\ Idle
    /\ Metadata!Resume(<<l, t>>)
    /\ UNCHANGED <<run, partial, outcome, returned>>

Tick == Idle /\ Metadata!Tick /\ UNCHANGED <<run, partial, outcome, returned>>

Finished ==
    /\ \A l \in Lookups : Over(l) /\ run[l].stage \in {"done", "failed"}
    /\ UNCHANGED vars

-----------------------------------------------------------------------------
Call(l) ==
    \/ \E r \in Receipts \cup {"none"} : ReceiptAnswers(l, r) \/ RetryAnswers(l, r)
    \/ \E x \in Sightings : TxAnswers(l, x)
    \/ \E c \in Early : EarlyCallFails(l, c)
    \/ \E c \in {"code", "block"} : DetailCallEnds(l, c)
    \/ RetryFails(l)

Proceed(l) == Assess(l) \/ Retry(l) \/ AskForToken(l) \/ BatchEnds(l) \/ Finish(l)

Fetch(l) ==
    \E t \in Tokens : FetchResumes(l, t) \/ \E q \in Fetchable : FetchEnds(l, t, q)

Next ==
    \/ \E l \in Lookups : Begin(l) \/ Call(l) \/ Proceed(l) \/ Fetch(l) \/ Deadline(l)
    \/ Tick
    \/ Finished

\* Every RPC call has a timeout, the pause and the deadline are timers, and the
\* event loop runs what has become ready.
Fairness ==
    \A l \in Lookups :
        /\ WF_vars(Call(l)) /\ WF_vars(Proceed(l)) /\ WF_vars(Fetch(l))
        /\ WF_vars(Deadline(l))

Spec == Init /\ [][Next]_vars /\ Fairness

-----------------------------------------------------------------------------
(* Properties.                                                               *)

\* The result as the decisions about coverage, status and lifetime see it.  A receipt
\* names the block its transaction names; the decimals of a token are what the story
\* misses, whatever the reason.
AsEnrichment(l) ==
    LET g == Given(l)
    IN  [receipt |-> g.receipt, tx |-> g.tx, hash |-> "requested",
         block |-> IF g.tx = "mined" \/ (g.receipt # "none" /\ g.tx # "zero")
                   THEN CHOOSE b \in Blocks : TRUE ELSE NoBlock,
         status |-> g.status, temporaryFailure |-> g.failure,
         tokens |-> {x \in {"degraded", "unresolved"} :
             \/ x = "degraded" /\ \E t \in Tokens : g.known[t] \in {"degraded", "failed"}
             \/ x = "unresolved" /\ g.receipt # "none"
                  /\ \E i \in DOMAIN Mentions[l] :
                       g.known[Mentions[l][i]] \notin {"full", "degraded"}},
         unrecognised |-> FALSE,
         movement |-> g.receipt # "none" /\ Mentions[l] # <<>>]

\* In whatever order the calls end, fail or are cut, the result is one the lookup
\* can rely on: the status is the receipt's, "pending" only without receipt and in no
\* block, and a receipt that should be there and is not is reported as a temporary
\* failure.  (Where the transaction names block '0x0' no receipt is expected.)
ResultsWellFormed == \A l \in Lookups : Over(l) => WellFormed(AsEnrichment(l))

\* What the caller was given never changes under its hands, although an enrichment
\* cut at its deadline shares its map with steps that are still running.
ResultFrozen == [][\A l \in Lookups : Over(l) => Given(l)' = Given(l)]_vars

\* DEPLOYMENT.md:95: "RPC enrichment stops issuing new work at its overall deadline".
Asks(l) == {t \in Tokens : call[<<l, t>>] # "new"}
NoNewWork ==
    [][\A l \in Lookups : Over(l) =>
          run'[l].wire \subseteq run[l].wire /\ Asks(l)' = Asks(l)]_vars

\* DEPLOYMENT.md:95: it "retains receipt/transaction data already obtained".
KeepsWhatItHad ==
    \A l \in Lookups : Over(l) =>
        /\ run[l].receipt # "none" => Given(l).receipt = run[l].receipt
        /\ run[l].tx # "none" => Given(l).tx = run[l].tx

\* A result that does not own up to a temporary failure has the metadata of every
\* token its logs mention, whichever lookups fetched it.
WholeMetadata ==
    \A l \in Lookups : Over(l) /\ ~Given(l).failure /\ Given(l).receipt # "none" =>
        \A i \in DOMAIN Mentions[l] : Given(l).known[Mentions[l][i]] # Metadata!Nothing

\* Every enrichment returns, and the steps it leaves behind come to an end.
EveryRunEnds ==
    \A l \in Lookups :
        run[l].stage # "new" ~> Over(l) /\ run[l].stage \in {"done", "failed"}
=============================================================================
