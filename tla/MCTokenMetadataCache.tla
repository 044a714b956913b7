------------------------ MODULE MCTokenMetadataCache ------------------------
(* TokenMetadataCache for TLC, with the history its order of use is told by.  *)
EXTENDS TokenMetadataCache

CONSTANTS c1, c2, c3, c4, ta, tb, tc

\* ta is asked for twice, tb and tc once.
Wanted == (c1 :> ta) @@ (c2 :> ta) @@ (c3 :> tb) @@ (c4 :> tc)
VARIABLE usedSince  \* [Tokens -> the other tokens used since this one was]

HistoryInit == Init /\ usedSince = [t \in Tokens |-> {}]

\* A token is used when a call finds it and when its fetch comes back.
Used == {TokenOf[c] : c \in {c \in Calls :
           \/ call[c] = "new" /\ call'[c] = "served"
           \/ fetched'[c] # fetched[c]}}
HistoryNext ==
    /\ Next
    /\ usedSince' = [t \in Tokens |-> IF t \in Used THEN {} ELSE usedSince[t] \cup Used]

HistorySpec == HistoryInit /\ [][HistoryNext]_<<metadataVars, usedSince>> /\ Fairness

\* A live entry is given up only after as many other tokens have been used since
\* its own last use as the cache has room for (the eviction of set, which relies on
\* get having moved what it returned to the end of the Map).
EvictsLeastRecent ==
    [][\A t \in Tokens :
          Live(t) /\ (\A x \in ToSet(cache') : x.token # t) =>
              Cardinality(usedSince'[t]) >= MaxEntries]_<<metadataVars, usedSince>>
=============================================================================
