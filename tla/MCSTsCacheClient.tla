------------------------- MODULE MCSTsCacheClient --------------------------
(* Model-checking instance of STsCacheClient: small tag and time domains,  *)
(* every query window the template allows, and the database contents the   *)
(* runs compare.                                                           *)
EXTENDS STsCacheClient, TLC

CONSTANTS w1, w2

MCWorkers == {w1, w2}

\* Every non-empty tag set and every window [st, et) of the time domain.
MCQueries ==
    {[tags |-> S, st |-> a, et |-> b] :
        S \in SUBSET Tags \ {{}}, a \in Slots, b \in Slots \cup {MaxTime}}
    \cap {q \in [tags : SUBSET Tags, st : Slots, et : 1 .. MaxTime] : q.st < q.et}

\* TSBS devops data: every host reports at every time point.
DenseData == Tags \X Slots

\* Data that ends before the last time point (queries run past the load).
EndingData == Tags \X (Slots \ {MaxTime - 1})

\* Hosts with holes: tag 1 has no row at time 1, tag 2 none at time 3.
SparseData == (Tags \X Slots) \ {<<1, 1>>, <<2, 3>>}

\* Tag 1 starts reporting late: no rows at times 0 and 1.
LateData == (Tags \X Slots) \ {<<1, 0>>, <<1, 1>>}

MCSymmetry == Permutations(MCWorkers)
=============================================================================
