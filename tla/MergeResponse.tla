--------------------------- MODULE MergeResponse ---------------------------
(***************************************************************************)
(* The Response Merger of the InfluxDB cache client                        *)
(* (InfluxDB-client/v2/merge_response.go), as pure operators.              *)
(*                                                                         *)
(* A row is <<tag, time>>: the tag-combination it belongs to and its       *)
(* timestamp (column 0).  Field values are abstracted away: the merger     *)
(* only ever looks at column 0 and at the series tags.  A series is a      *)
(* record [tag |-> t, rows |-> <<row, ...>>]; a series whose Values is nil *)
(* has rows = <<>>.  A result of the remainder query whose Series is nil   *)
(* is the value NoSeries.                                                  *)
(***************************************************************************)
EXTENDS Integers, Sequences

NoSeries == [tag |-> 0, rows |-> <<>>]   \* tags are numbered from 1

RowTime(r) == r[2]

(***************************************************************************)
(* SearchInsertPosition(values1, values2): binary search in values1 for    *)
(* the timestamp of values2's first row.  Returns the 0-based index the    *)
(* code uses as the split point: the LAST probed mid, or the index of an   *)
(* equal timestamp.                                                        *)
(***************************************************************************)
RECURSIVE SearchLoop(_, _, _, _, _)
SearchLoop(values1, st2, left, right, index) ==
    IF left > right THEN index
    ELSE LET mid == (left + right) \div 2
             st1 == RowTime(values1[mid + 1])
         IN  IF st1 < st2 THEN SearchLoop(values1, st2, mid + 1, right, mid)
             ELSE IF st1 > st2 THEN SearchLoop(values1, st2, left, mid - 1, mid)
             ELSE mid

SearchInsertPosition(values1, values2) ==
    IF values2 = <<>> \/ values1 = <<>> THEN 0
    ELSE SearchLoop(values1, RowTime(values2[1]), 0, Len(values1) - 1, 0)

\* Fault variant: the third copy loop starting one row past insPos.
SpliceSkipOne(outer, inner, pos) ==
    SubSeq(outer, 1, pos) \o inner \o SubSeq(outer, pos + 2, Len(outer))

\* Splice all of `inner` into `outer` after its first `pos` rows.
Splice(outer, inner, pos) ==
    SubSeq(outer, 1, pos) \o inner \o SubSeq(outer, pos + 1, Len(outer))

(***************************************************************************)
(* mergeSeries(series1, series2): disjoint ranges are concatenated in time *)
(* order; overlapping ranges splice the later-starting series into the     *)
(* earlier-starting one at SearchInsertPosition.  No row is dropped or     *)
(* deduplicated.  An empty series (GetSeriesTimeRange error) yields the    *)
(* other one.                                                              *)
(***************************************************************************)
mergeSeries(series1, series2) ==
    IF series1.rows = <<>> THEN series2
    ELSE IF series2.rows = <<>> THEN series1
    ELSE
      LET st1 == RowTime(Head(series1.rows))
          et1 == RowTime(series1.rows[Len(series1.rows)])
          st2 == RowTime(Head(series2.rows))
          et2 == RowTime(series2.rows[Len(series2.rows)])
      IN  IF st2 > et1 THEN [series1 EXCEPT !.rows = @ \o series2.rows]
          ELSE IF st1 > et2 THEN [series2 EXCEPT !.rows = @ \o series1.rows]
          ELSE IF st1 < st2
               THEN [series1 EXCEPT !.rows =
                       Splice(series1.rows, series2.rows,
                              SearchInsertPosition(series1.rows, series2.rows))]
               ELSE [series1 EXCEPT !.rows =
                       Splice(series2.rows, series1.rows,
                              SearchInsertPosition(series2.rows, series1.rows))]

(***************************************************************************)
(* MergeRemainResponse(remainResp, convResp): a merge-join of the          *)
(* remainder results (one per flagged tag) with the decoded cached series, *)
(* walking both with index1/index2.  A nil remainder result takes the      *)
(* cached series at index2; a cached series with nil Values takes the      *)
(* remainder series at index1 (both indices advance, whatever the tags);   *)
(* otherwise the tags are compared and equal tags are merged.              *)
(***************************************************************************)
RECURSIVE MergeLoop(_, _, _, _, _)
MergeLoop(rem, conv, index1, index2, acc) ==
    IF index1 <= Len(rem) /\ index2 <= Len(conv)
    THEN IF rem[index1] = NoSeries
         THEN MergeLoop(rem, conv, index1 + 1, index2 + 1, Append(acc, conv[index2]))
         ELSE IF conv[index2].rows = <<>>
         THEN MergeLoop(rem, conv, index1 + 1, index2 + 1, Append(acc, rem[index1]))
         ELSE IF rem[index1].tag < conv[index2].tag
         THEN MergeLoop(rem, conv, index1 + 1, index2, Append(acc, rem[index1]))
         ELSE IF rem[index1].tag > conv[index2].tag
         THEN MergeLoop(rem, conv, index1, index2 + 1, Append(acc, conv[index2]))
         ELSE MergeLoop(rem, conv, index1 + 1, index2 + 1,
                        Append(acc, mergeSeries(rem[index1], conv[index2])))
    ELSE acc \o SubSeq(rem, index1, Len(rem)) \o SubSeq(conv, index2, Len(conv))

\* ResponseIsEmpty checks only the first result's first series.
MergeRemainResponse(remainResp, convResp) ==
    IF remainResp = <<>> \/ remainResp[1] = NoSeries THEN convResp
    ELSE IF convResp = <<>> \/ convResp[1].rows = <<>> THEN remainResp
    ELSE MergeLoop(remainResp, convResp, 1, 1, <<>>)

=============================================================================
