-------------------------- MODULE MCOverviewRefresh --------------------------
(* OverviewRefresh for TLC: two networks with one value each.                 *)
EXTENDS OverviewRefresh

CONSTANTS c1, c2, bitcoin, ethereum, price

\* An answer with statistics, one that looks like it but for the code in its body, and
\* a failure.  (A refusal by its status is what the code makes of the second.)
Whole     == [status |-> "2xx", page |-> FALSE, late |-> FALSE, code |-> "none", dict |-> TRUE]
QuotaBody == [Whole EXCEPT !.code = "quota"]
Fails     == [Whole EXCEPT !.status = "other", !.dict = FALSE]
ThreeReplies == {Whole, QuotaBody, Fails}

\* Every poll of a client is answered, whatever Redis and the provider do.  The clients
\* are alike, so one of them stands for all.
EveryPollAnswered == phase[c1] # "idle" ~> phase[c1] = "idle"
=============================================================================
