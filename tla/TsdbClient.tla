----------------------------- MODULE TsdbClient -----------------------------
(***************************************************************************)
(* The query path of the TimescaleDB cache client, STsCacheClientSeg       *)
(* (TimescaleDB_Client/timescaledb_client/client.go), run by several       *)
(* benchmark workers against one cache store (CacheIndex is always 0) and  *)
(* one PostgreSQL database.                                                *)
(*                                                                         *)
(* As in STsCacheClient: one query template, tag-combinations Tags         *)
(* numbered in sort order, the database a constant row set Data, and the   *)
(* store the interface of spec.md §6.  Time points are 1 .. MaxTime: the   *)
(* code reads a range bound of 0 as "record not flagged", and a Unix time  *)
(* of 0 does not occur in the benchmark.  Rows come back from the database *)
(* in the template's ORDER BY name,bucket order: by tag, then by time.     *)
(***************************************************************************)
EXTENDS Integers, FiniteSetsExt, TsdbMerge

CONSTANTS
    Workers,        \* benchmark worker goroutines
    NumTags,        \* tag-combinations of the template
    MaxTime,        \* time points are 1 .. MaxTime
    Data,           \* the database contents: a set of rows <<tag, time>>
    Queries,        \* the queries the workers may issue
    Threshold,      \* the 60 s remainder threshold, in time points
    MaxDbFailures,  \* bound on failed database round-trips
    MaxQueries      \* bound on queries issued in a behaviour

Tags  == 1 .. NumTags
Slots == 1 .. MaxTime
Span(lo, hi) == lo .. hi - 1                       \* the window [lo, hi)

ASSUME Data \subseteq Tags \X Slots
ASSUME \A q \in Queries : q.tags \subseteq Tags /\ q.tags # {}
                          /\ 1 <= q.st /\ q.st < q.et /\ q.et <= MaxTime + 1

VARIABLES
    covered,     \* covered[t]: time points the store holds for segment t
    stored,      \* stored[t]: rows the store holds for segment t
    pc,          \* pc[w]: where worker w is in STsCacheClientSeg
    req,         \* req[w]: the query worker w is running
    conv,        \* conv[w]: convertedResponse, one series per record
    timeRange,   \* timeRange[w]: timeRangeArr, aligned with conv[w]
    window,      \* window[w]: <<minTime, maxTime>> of RemainQuery
    result,      \* result[w]: the response the call returns
    stale,       \* stale[w]: returned cached data under the threshold rule
    dbFailures,  \* database round-trips that have failed
    issued       \* queries issued so far

vars == <<covered, stored, pc, req, conv, timeRange, window, result, stale,
          dbFailures, issued>>

ReqSlots(q) == Span(q.st, q.et)
DbRows(t, slots) == {r \in Data : r[1] = t /\ r[2] \in slots}

\* The requested tags in sorted order (GetQueryTemplate sorts them).
SortedTags(S) == SelectSeq([i \in 1 .. NumTags |-> i], LAMBDA t : t \in S)

\* A row set in ORDER BY name, time order.
ByNameTime(R) ==
    FlattenSeq([i \in 1 .. NumTags |->
        SelectSeq([s \in 1 .. MaxTime |-> <<i, s>>], LAMBDA r : r \in R)])

-----------------------------------------------------------------------------
(* The store interface (spec.md §6; the server is not in this repository). *)

StoreMiss(q) == \A t \in q.tags : covered[t] \cap ReqSlots(q) = {}

Gap(t, q) == ReqSlots(q) \ covered[t]

StoreSet(records, lo, hi) ==
    /\ covered' = [t \in Tags |-> IF t \in DOMAIN records
                                  THEN covered[t] \cup Span(lo, hi)
                                  ELSE covered[t]]
    /\ stored'  = [t \in Tags |-> IF t \in DOMAIN records
                                  THEN stored[t] \cup records[t]
                                  ELSE stored[t]]

-----------------------------------------------------------------------------
(* The client's own computations.                                          *)

\* ByteArrayToResponseWithDatatype: one series per record, empty ones
\* included, the tag put back into column 1 of every row; and
\* timeRangeArr, <<0, 0>> for a record that is not flagged.
Converted(q) ==
    LET ts == SortedTags(q.tags)
    IN  [i \in DOMAIN ts |->
           ByNameTime({r \in stored[ts[i]] : r[2] \in ReqSlots(q)})]
Flagged(q) == {t \in q.tags : Gap(t, q) # {}}
\* Fault variant: the range end read one point past the gap.
TimeRangeArrEndPastGap(q) ==
    LET ts == SortedTags(q.tags)
    IN  [i \in DOMAIN ts |-> IF Gap(ts[i], q) = {} THEN <<0, 0>>
                             ELSE <<Min(Gap(ts[i], q)), Max(Gap(ts[i], q)) + 2>>]
TimeRangeArr(q) ==
    LET ts == SortedTags(q.tags)
    IN  [i \in DOMAIN ts |-> IF Gap(ts[i], q) = {} THEN <<0, 0>>
                             ELSE <<Min(Gap(ts[i], q)), Max(Gap(ts[i], q)) + 1>>]

\* RemainQuery's minTime and maxTime, over the flagged records only.
RemainWindow(q) ==
    LET ranges == {TimeRangeArr(q)[i] : i \in {i \in DOMAIN SortedTags(q.tags) :
                                                 SortedTags(q.tags)[i] \in Flagged(q)}}
    IN  <<Min({r[1] : r \in ranges}), Max({r[2] : r \in ranges})>>

WithinThreshold(minTime, maxTime) == maxTime - minTime <= Threshold

\* Fault variant: "time <= maxTime" in the outer condition and in each
\* tag's condition.
RemainRowsInclusive(q) ==
    LET win == RemainWindow(q)
        ts  == SortedTags(q.tags)
    IN  UNION {{r \in DbRows(ts[i], TimeRangeArr(q)[i][1] .. TimeRangeArr(q)[i][2]) :
                  r[2] \in win[1] .. win[2]} :
                 i \in {i \in DOMAIN ts : ts[i] \in Flagged(q)}}
\* The rows the remainder statement selects: inside [minTime, maxTime), of
\* a flagged tag (name IN (...)), and inside that tag's own range (the
\* OR-ed per-tag conditions).
RemainRows(q) ==
    LET win == RemainWindow(q)
        ts  == SortedTags(q.tags)
    IN  UNION {{r \in DbRows(ts[i], Span(TimeRangeArr(q)[i][1], TimeRangeArr(q)[i][2])) :
                  r[2] \in Span(win[1], win[2])} :
                 i \in {i \in DOMAIN ts : ts[i] \in Flagged(q)}}

\* ResponseInterfaceToByteArrayWithParams: the rows arrive grouped by tag
\* in the order of tags (both sorted), and each group is written under its
\* own tag's segment; a requested tag without rows gets an empty record.
Records(rows, tags) ==
    [t \in tags |-> {rows[i] : i \in {i \in DOMAIN rows : rows[i][1] = t}}]

Placeholders(tags) == [t \in tags |-> {}]

-----------------------------------------------------------------------------
(* Actions of worker w.                                                    *)

Finish(w, res, isStale) ==
    /\ pc' = [pc EXCEPT ![w] = "done"]
    /\ result' = [result EXCEPT ![w] = res]
    /\ stale' = [stale EXCEPT ![w] = isStale]

StartQuery(w) ==
    /\ pc[w] \in {"idle", "done"}
    /\ issued < MaxQueries
    /\ \E q \in Queries : req' = [req EXCEPT ![w] = q]
    /\ pc' = [pc EXCEPT ![w] = "get"]
    /\ issued' = issued + 1
    /\ conv' = [conv EXCEPT ![w] = <<>>]
    /\ timeRange' = [timeRange EXCEPT ![w] = <<>>]
    /\ result' = [result EXCEPT ![w] = <<>>]
    /\ UNCHANGED <<covered, stored, window, stale, dbFailures>>

CacheMiss(w) ==
    /\ pc[w] = "get"
    /\ StoreMiss(req[w])
    /\ pc' = [pc EXCEPT ![w] = "miss"]
    /\ UNCHANGED <<covered, stored, req, conv, timeRange, window, result, stale,
                   dbFailures, issued>>

CacheFullHit(w) ==
    /\ pc[w] = "get"
    /\ ~StoreMiss(req[w])
    /\ Flagged(req[w]) = {}
    /\ Finish(w, Converted(req[w]), FALSE)
    /\ UNCHANGED <<covered, stored, req, conv, timeRange, window, dbFailures, issued>>

CacheStaleHit(w) ==
    /\ pc[w] = "get"
    /\ ~StoreMiss(req[w])
    /\ Flagged(req[w]) # {}
    /\ WithinThreshold(RemainWindow(req[w])[1], RemainWindow(req[w])[2])
    /\ Finish(w, Converted(req[w]), TRUE)
    /\ UNCHANGED <<covered, stored, req, conv, timeRange, window, dbFailures, issued>>

CachePartialHit(w) ==
    /\ pc[w] = "get"
    /\ ~StoreMiss(req[w])
    /\ Flagged(req[w]) # {}
    /\ ~WithinThreshold(RemainWindow(req[w])[1], RemainWindow(req[w])[2])
    /\ pc' = [pc EXCEPT ![w] = "remainder"]
    /\ conv' = [conv EXCEPT ![w] = Converted(req[w])]
    /\ timeRange' = [timeRange EXCEPT ![w] = TimeRangeArr(req[w])]
    /\ window' = [window EXCEPT ![w] = RemainWindow(req[w])]
    /\ UNCHANGED <<covered, stored, req, result, stale, dbFailures, issued>>

\* conn.Query succeeded (with rows or without): every requested tag is Set
\* over [startTime, endTime) and the flat row array is the one series.
MissStore(w) ==
    LET q == req[w]  rows == ByNameTime(UNION {DbRows(t, ReqSlots(q)) : t \in q.tags}) IN
    /\ pc[w] = "miss"
    /\ StoreSet(Records(rows, q.tags), q.st, q.et)
    /\ Finish(w, <<rows>>, FALSE)
    /\ UNCHANGED <<req, conv, timeRange, window, dbFailures, issued>>

\* conn.Query failed: rows is nil, ResponseIsEmpty, placeholders are Set
\* for every requested tag, and <<nil>> is returned.
MissPlaceholder(w) ==
    LET q == req[w] IN
    /\ pc[w] = "miss"
    /\ dbFailures < MaxDbFailures
    /\ dbFailures' = dbFailures + 1
    /\ StoreSet(Placeholders(q.tags), q.st, q.et)
    /\ Finish(w, <<<<>>>>, FALSE)
    /\ UNCHANGED <<req, conv, timeRange, window, issued>>

\* The remainder query succeeded: its rows are Set for the flagged tags
\* over [minTime, maxTime) and merged with the cached series.
RemainderStore(w) ==
    LET q == req[w]  rows == ByNameTime(RemainRows(q)) IN
    /\ pc[w] = "remainder"
    /\ StoreSet(Records(rows, Flagged(q)), window[w][1], window[w][2])
    /\ Finish(w, MergeRemainResponse(conv[w], rows, timeRange[w]), FALSE)
    /\ UNCHANGED <<req, conv, timeRange, window, dbFailures, issued>>

\* The remainder query failed: placeholders for the flagged tags over
\* [startTime, endTime), and the cached series are returned.
RemainderPlaceholder(w) ==
    LET q == req[w] IN
    /\ pc[w] = "remainder"
    /\ dbFailures < MaxDbFailures
    /\ dbFailures' = dbFailures + 1
    /\ StoreSet(Placeholders(Flagged(q)), q.st, q.et)
    /\ Finish(w, conv[w], FALSE)
    /\ UNCHANGED <<req, conv, timeRange, window, issued>>

Terminated ==
    /\ issued = MaxQueries
    /\ \A w \in Workers : pc[w] \in {"idle", "done"}
    /\ UNCHANGED vars

Init ==
    /\ covered = [t \in Tags |-> {}]
    /\ stored = [t \in Tags |-> {}]
    /\ pc = [w \in Workers |-> "idle"]
    /\ req = [w \in Workers |-> CHOOSE q \in Queries : TRUE]
    /\ conv = [w \in Workers |-> <<>>]
    /\ timeRange = [w \in Workers |-> <<>>]
    /\ window = [w \in Workers |-> <<0, 0>>]
    /\ result = [w \in Workers |-> <<>>]
    /\ stale = [w \in Workers |-> FALSE]
    /\ dbFailures = 0
    /\ issued = 0

Next ==
    \/ \E w \in Workers :
          \/ StartQuery(w)
          \/ CacheMiss(w) \/ CacheFullHit(w) \/ CacheStaleHit(w) \/ CachePartialHit(w)
          \/ MissStore(w) \/ MissPlaceholder(w)
          \/ RemainderStore(w) \/ RemainderPlaceholder(w)
    \/ Terminated

Spec == Init /\ [][Next]_vars

-----------------------------------------------------------------------------
(* Properties.                                                             *)

TypeOK ==
    /\ covered \in [Tags -> SUBSET Slots]
    /\ stored \in [Tags -> SUBSET (Tags \X Slots)]
    /\ pc \in [Workers -> {"idle", "get", "miss", "remainder", "done"}]
    /\ req \in [Workers -> Queries]
    /\ \A w \in Workers : result[w] \in Seq(Seq(Tags \X Slots))
    /\ stale \in [Workers -> BOOLEAN]
    /\ dbFailures \in 0 .. MaxDbFailures
    /\ issued \in 0 .. MaxQueries

\* Every row a call returns, whatever series it is in.
ResultRows(w) == UNION {ToSet(result[w][i]) : i \in DOMAIN result[w]}

(* StoreFaithful: for every segment, the store holds only database rows  *)
(* of the time points it covers; and as long as no database round-trip     *)
(* has failed, it holds all of them, after every Set of the miss path, the *)
(* remainder path and the placeholder paths.  (After a failure the         *)
(* placeholders Set by client.go:81-104 mark the window known-empty and    *)
(* the code leaves its rows out of the store: only soundness can hold.)    *)
StoreFaithful ==
    \A t \in Tags :
        /\ stored[t] \subseteq DbRows(t, covered[t])
        /\ dbFailures = 0 => stored[t] = DbRows(t, covered[t])

(* ResultSound: every row a finished call returns is a database row of a   *)
(* requested tag inside the requested window.  mergeResp trims the         *)
(* remainder by binary search and returns a count of rows taken that the   *)
(* merge loop adds to index2; a wrong count would hand one tag's rows to   *)
(* another, or rows outside the window.                                    *)
ResultSound ==
    \A w \in Workers : pc[w] = "done" =>
      \A r \in ResultRows(w) :
          r \in Data /\ r[1] \in req[w].tags /\ r[2] \in ReqSlots(req[w])

(* ResultComplete: a finished call that did not rely on the threshold     *)
(* rule returns every database row of the requested tags and window        *)
(* (spec.md §8, coverage correctness); one that did misses at most the     *)
(* rows of one window no wider than the threshold.                         *)
ResultComplete ==
    \A w \in Workers : pc[w] = "done" =>
      LET missing == {r \in Data : /\ r[1] \in req[w].tags
                                   /\ r[2] \in ReqSlots(req[w])
                                   /\ r \notin ResultRows(w)}
      IN  IF stale[w] THEN \A a, b \in missing : a[2] - b[2] < Threshold
          ELSE missing = {}

(* ResultOrdered: inside every returned series the rows are in the         *)
(* database's ORDER BY name,bucket order, strictly ascending (spec.md §8,  *)
(* monotonicity), as the miss path returns them.                           *)
ResultOrdered ==
    \A w \in Workers : pc[w] = "done" =>
      \A i \in DOMAIN result[w] :
        \A j \in 1 .. Len(result[w][i]) - 1 :
          LET a == result[w][i][j]  b == result[w][i][j + 1]
          IN  a[1] < b[1] \/ (a[1] = b[1] /\ a[2] < b[2])

(* OneSeriesPerTag: on the hit paths no tag's rows are split over two      *)
(* returned series.                                                        *)
OneSeriesPerTag ==
    \A w \in Workers : pc[w] = "done" =>
      \A i, j \in DOMAIN result[w] :
        i # j => \A r \in ToSet(result[w][i]), u \in ToSet(result[w][j]) : r[1] # u[1]

=============================================================================
