--------------------------- MODULE MCShareAccess ---------------------------
EXTENDS ShareAccess, TLC
Symmetry == Permutations(Threads) \cup Permutations(Shares) \cup Permutations(Arts)

\* Bound: two requests at once, two links, or a restart, but one of these at a time.
Busy == {t \in Threads : req[t] # None}
Modest ==
    Cardinality({s \in {"requests", "links", "restart"} :
        \/ s = "requests" /\ Cardinality(Busy) > 1
        \/ s = "links" /\ Cardinality(drawn) > 1
        \/ s = "restart" /\ restarts > 0}) <= 1
=============================================================================
