--------------------------- MODULE MCTsdbClient ----------------------------
(* Model-checking instance of TsdbClient: every query window and tag set   *)
(* of a small domain, and the database contents the runs compare.          *)
EXTENDS TsdbClient, TLC

CONSTANTS w1, w2

MCWorkers == {w1, w2}

MCQueries ==
    {q \in [tags : SUBSET Tags \ {{}}, st : Slots, et : 2 .. MaxTime + 1] : q.st < q.et}

\* TSBS data: every host reports at every time point.
DenseData == Tags \X Slots

MCSymmetry == Permutations(MCWorkers)
=============================================================================
