--------------------------- MODULE MCMergeResponse ---------------------------
(***************************************************************************)
(* mergeSeries applied to every pair of ascending series of one tag over   *)
(* the time points 0 .. MaxTime-1, each of at most MaxRows rows.           *)
(***************************************************************************)
EXTENDS MergeResponse, FiniteSets

CONSTANTS MaxTime, MaxRows

\* The ascending series of the time points in S.
RECURSIVE AscendingFrom(_, _)
AscendingFrom(S, t) ==
    IF t >= MaxTime THEN <<>>
    ELSE (IF t \in S THEN <<<<1, t>>>> ELSE <<>>) \o AscendingFrom(S, t + 1)

SeriesOf(S) == [tag |-> 1, rows |-> AscendingFrom(S, 0)]

Inputs == {SeriesOf(S) : S \in {T \in SUBSET (0 .. MaxTime - 1) : Cardinality(T) <= MaxRows}}

VARIABLES series1, series2, merged

vars == <<series1, series2, merged>>

Init ==
    /\ series1 \in Inputs
    /\ series2 \in Inputs
    /\ merged = NoSeries

\* One call of mergeSeries(series1, series2), as MergeRemainResponse makes it.
Merge ==
    /\ merged = NoSeries
    /\ merged' = mergeSeries(series1, series2)
    /\ UNCHANGED <<series1, series2>>

Spec == Init /\ [][Merge]_vars

Times(s) == {RowTime(s.rows[i]) : i \in DOMAIN s.rows}

\* How often time point t occurs in a series.
Count(s, t) == Cardinality({i \in DOMAIN s.rows : RowTime(s.rows[i]) = t})

(* MergeKeepsRows: mergeSeries neither drops nor invents a row: every time *)
(* point occurs in the merged series as often as in the two inputs         *)
(* together, whichever of its four overlap cases applies.                  *)
MergeKeepsRows ==
    merged # NoSeries =>
      \A t \in 0 .. MaxTime - 1 :
        Count(merged, t) = Count(series1, t) + Count(series2, t)

(* MergeMonotone: two ascending series with no common time point merge    *)
(* into an ascending series (spec.md section 4.6: the insertion point is   *)
(* found by binary search and the result stays strictly ascending).        *)
MergeMonotone ==
    merged # NoSeries /\ Times(series1) \cap Times(series2) = {} =>
      \A i \in 1 .. Len(merged.rows) - 1 :
        RowTime(merged.rows[i]) < RowTime(merged.rows[i + 1])

=============================================================================
