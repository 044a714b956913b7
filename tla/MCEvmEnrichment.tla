--------------------------- MODULE MCEvmEnrichment ---------------------------
(* Small instances of EvmEnrichment for TLC.                                 *)
EXTENDS EvmEnrichment, TLC

CONSTANTS l1, l2, ta, tb, tc

\* Two lookups whose receipts share a token; three tokens.
Overlapping == (l1 :> <<ta, tb>>) @@ (l2 :> <<ta>>)
Broad       == [l \in Lookups |-> <<ta, tb, tc>>]
=============================================================================
