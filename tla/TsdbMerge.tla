------------------------------ MODULE TsdbMerge ------------------------------
(***************************************************************************)
(* The merger of the TimescaleDB cache client                              *)
(* (TimescaleDB_Client/timescaledb_client/merge_result.go).                *)
(*                                                                         *)
(* Unlike the InfluxDB client, a response is not a list of tagged series:  *)
(* every row carries its tag in column 1.  A row is <<tag, time>> (field   *)
(* values are abstracted away; tags are numbered in the order their        *)
(* strings sort, so strings.Compare is <).  The cached response is a       *)
(* sequence of series, one per record of the cache answer, some empty; the *)
(* remainder is ONE flat sequence of rows, ordered by name then time as    *)
(* the template's ORDER BY name,bucket returns them.  Go indexes are       *)
(* 0-based: values[i] is values[i + 1] here.                               *)
(***************************************************************************)
EXTENDS Integers, SequencesExt

RowTag(r)  == r[1]
RowTime(r) == r[2]

\* The number of leading rows of s that carry tag t (the "for ...
\* if tag1 == tag2 { append; index++ } else { break }" loops).
TagRun(s, t) ==
    LET i == SelectInSeq(s, LAMBDA r : RowTag(r) # t)
    IN  IF i = 0 THEN Len(s) ELSE i - 1

\* The binary search shared by searchInsertPosition and both loops of
\* searchInsertValue: "for left < right", recording mid in index on every
\* probe, returning on an exact match.
RECURSIVE ProbeLoop(_, _, _, _, _)
ProbeLoop(values, t, left, right, index) ==
    IF left >= right THEN index
    ELSE LET mid == (left + right) \div 2
             tm  == RowTime(values[mid + 1])
         IN  CASE tm < t -> ProbeLoop(values, t, mid + 1, right, mid)
               [] tm > t -> ProbeLoop(values, t, left, mid - 1, mid)
               [] OTHER  -> mid

searchInsertPosition(values1, values2) ==
    IF Len(values2) = 0 \/ Len(values1) = 0 THEN 0
    ELSE ProbeLoop(values1, RowTime(values2[1]), 0, Len(values1) - 1, 0)

\* The slice values[sIdx : eIdx+1] of the rows between the two searched
\* positions; nil when a bound is 0 (an unflagged record's range) or the
\* positions cross.
searchInsertValue(values, timeRange) ==
    IF Len(values) = 0 \/ timeRange[1] = 0 \/ timeRange[2] = 0 THEN <<>>
    ELSE LET last == Len(values) - 1
             sIdx == ProbeLoop(values, timeRange[1], 0, last, 0)
             eIdx == ProbeLoop(values, timeRange[2], 0, last, last)
         IN  IF sIdx > eIdx THEN <<>> ELSE SubSeq(values, sIdx + 1, eIdx + 1)

\* mergeResp(series1, series2, timeRange): the cached series of one tag
\* merged with the remainder rows from index2 on; returns <<merged, the
\* number of remainder rows it took>>.
mergeResp(series1, remain, timeRange) ==
    LET series2 == searchInsertValue(remain, timeRange)
    IN  IF Len(series1) = 0 THEN <<series2, Len(series2)>>
        ELSE
        LET st1  == RowTime(series1[1])
            et1  == RowTime(series1[Len(series1)])
            st2  == timeRange[1]
            et2  == timeRange[2]
            tag1 == RowTag(series1[1])
            n    == TagRun(series2, tag1)
        IN  CASE st2 > et1 -> <<series1 \o SubSeq(series2, 1, n), n>>
              [] st1 > et2 -> <<SubSeq(series2, 1, n) \o series1, n>>
              [] st1 < st2 ->
                   LET insPos == searchInsertPosition(series1, series2)
                   IN  <<SubSeq(series1, 1, insPos) \o SubSeq(series2, 1, n)
                           \o SubSeq(series1, insPos + 1, Len(series1)), n>>
              [] OTHER ->
                   LET insPos == searchInsertPosition(series2, series1)
                       before == TagRun(SubSeq(series2, 1, insPos), tag1)
                       after  == TagRun(SubSeq(series2, insPos + 1, Len(series2)), tag1)
                   IN  <<SubSeq(series2, 1, before) \o series1
                           \o SubSeq(series2, insPos + 1, insPos + after),
                         before + after>>

\* The remainder rows from position i on (0-based), as the Go slice [i:].
From(s, i) == SubSeq(s, i + 1, Len(s))

\* The tail loop: the remaining rows cut into one series per run of a tag.
RECURSIVE TagGroups(_)
TagGroups(s) ==
    IF s = <<>> THEN <<>>
    ELSE LET n == TagRun(s, RowTag(s[1]))
         IN  <<SubSeq(s, 1, n)>> \o TagGroups(From(s, n))

\* The merge-join loop of MergeRemainResponse over index1 (cached series)
\* and index2 (remainder rows), then its two tail loops.
RECURSIVE MergeJoin(_, _, _, _, _, _)
MergeJoin(convResp, remainResp, timeRangeArr, index1, index2, results) ==
    IF index1 >= Len(convResp) \/ index2 >= Len(remainResp)
    THEN results \o From(convResp, index1) \o TagGroups(From(remainResp, index2))
    ELSE IF convResp[index1 + 1] = <<>>
    THEN MergeJoin(convResp, remainResp, timeRangeArr, index1 + 1, index2, results)
    ELSE
    LET tag1 == RowTag(convResp[index1 + 1][1])
        tag2 == RowTag(remainResp[index2 + 1])
    IN  CASE tag1 < tag2 ->
               MergeJoin(convResp, remainResp, timeRangeArr, index1 + 1, index2,
                         Append(results, convResp[index1 + 1]))
          [] tag1 > tag2 ->
               LET n == TagRun(From(remainResp, index2), tag2)
               IN  MergeJoin(convResp, remainResp, timeRangeArr, index1, index2 + n,
                             Append(results, SubSeq(remainResp, index2 + 1, index2 + n)))
          [] OTHER ->
               LET m == mergeResp(convResp[index1 + 1], From(remainResp, index2),
                                  timeRangeArr[index1 + 1])
               IN  MergeJoin(convResp, remainResp, timeRangeArr, index1 + 1,
                             index2 + m[2], Append(results, m[1]))

MergeRemainResponse(convResp, remainResp, timeRangeArr) ==
    IF Len(convResp) = 0 THEN <<remainResp>>
    ELSE IF Len(remainResp) = 0 THEN convResp
    ELSE MergeJoin(convResp, remainResp, timeRangeArr, 0, 0, <<>>)

=============================================================================
