--------------------------- MODULE STsCacheClient ---------------------------
(***************************************************************************)
(* The query path of the InfluxDB cache client, STsCacheClientSeg          *)
(* (InfluxDB-client/v2/client.go), run by several benchmark workers at     *)
(* once against one shared cache store and one database.                   *)
(*                                                                         *)
(* One query template is modelled: every query has the same semantic       *)
(* segment apart from its tag-combinations (Tags, numbered in the order    *)
(* their "key=value" strings sort) and its time window [st, et) over the   *)
(* time points Slots.  The database is the constant set Data of rows       *)
(* <<tag, time>>; benchmark queries run after loading, so it never         *)
(* changes.  The store keeps, per single segment (one tag-combination),    *)
(* the time points it has been told are covered and the rows written for   *)
(* them: Set adds the item's [Time_start, Time_end) to the coverage of     *)
(* every record in the item and adds the record's rows; Get answers per    *)
(* requested tag with the cached rows in the window and, when part of the  *)
(* window is not covered, flag 1 and the range spanning the missing part.  *)
(* The store is an external server: this is the interface of spec.md §6.   *)
(***************************************************************************)
EXTENDS Integers, Sequences, FiniteSetsExt, MergeResponse

CONSTANTS
    Workers,        \* benchmark worker goroutines
    NumTags,        \* tag-combinations of the template
    MaxTime,        \* time points are 0 .. MaxTime-1
    Data,           \* the database contents: a set of rows <<tag, time>>
    Queries,        \* the queries the workers may issue
    Threshold,      \* the 60 s remainder threshold, in time points
    GroupByTime,    \* does the template have GROUP BY ..., time(...)?
    MaxDbFailures,  \* bound on failed database round-trips
    MaxQueries      \* bound on queries issued in a behaviour

Tags  == 1 .. NumTags
Slots == 0 .. MaxTime - 1
Span(lo, hi) == lo .. hi - 1                       \* the window [lo, hi)

ASSUME Data \subseteq Tags \X Slots
ASSUME \A q \in Queries : q.tags \subseteq Tags /\ q.tags # {}
                          /\ 0 <= q.st /\ q.st < q.et /\ q.et <= MaxTime

VARIABLES
    covered,     \* covered[t]: time points the store holds for segment t
    stored,      \* stored[t]: rows the store holds for segment t
    pc,          \* pc[w]: where worker w is in STsCacheClientSeg
    req,         \* req[w]: the query worker w is running
    conv,        \* conv[w]: convertedResponse, the decoded cached series
    timeRange,   \* timeRange[w][t]: the remainder range of flagged tag t
    window,      \* window[w]: <<minTime, maxTime>> of the remainder
    result,      \* result[w]: the response the call returns
    stale,       \* stale[w]: returned cached data under the threshold rule
    dbFailures,  \* database round-trips that have failed
    issued       \* queries issued so far

vars == <<covered, stored, pc, req, conv, timeRange, window, result, stale,
          dbFailures, issued>>

ReqSlots(q) == Span(q.st, q.et)
DbRows(t, slots) == {r \in Data : r[1] = t /\ r[2] \in slots}

\* The tags of S in sorted order, and a row set in time order.
SortedTags(S) == SelectSeq([i \in 1 .. NumTags |-> i], LAMBDA t : t \in S)
RECURSIVE RowsFrom(_, _)
RowsFrom(R, s) ==
    IF s >= MaxTime THEN <<>>
    ELSE SelectSeq([i \in 1 .. NumTags |-> <<i, s>>], LAMBDA r : r \in R)
           \o RowsFrom(R, s + 1)
SortRows(R) == RowsFrom(R, 0)

-----------------------------------------------------------------------------
(* The store interface (spec.md §6; the server is not in this repository). *)

\* Get misses when no requested segment holds any point of the window.
StoreMiss(q) == \A t \in q.tags : covered[t] \cap ReqSlots(q) = {}

Gap(t, q) == ReqSlots(q) \ covered[t]

\* Set(item): every record's segment gains [lo, hi) and the record's rows.
StoreSet(records, lo, hi) ==
    /\ covered' = [t \in Tags |-> IF t \in DOMAIN records
                                  THEN covered[t] \cup Span(lo, hi)
                                  ELSE covered[t]]
    /\ stored'  = [t \in Tags |-> IF t \in DOMAIN records
                                  THEN stored[t] \cup records[t]
                                  ELSE stored[t]]

-----------------------------------------------------------------------------
(* The client's own computations.                                          *)

\* ByteArrayToResponseWithDatatype: one series per returned record.
Converted(q) ==
    LET ts == SortedTags(q.tags)
    IN  [i \in DOMAIN ts |->
           [tag |-> ts[i],
            rows |-> SortRows({r \in stored[ts[i]] : r[2] \in ReqSlots(q)})]]

\* flagArr / timeRangeArr of the decoded Get answer.
Flagged(q) == {t \in q.tags : Gap(t, q) # {}}
\* Fault variant: the range end read one point too far.
TimeRangeArrEndPastGap(q) ==
    [t \in q.tags |-> IF Gap(t, q) = {} THEN <<0, 0>>
                      ELSE <<Min(Gap(t, q)), Max(Gap(t, q)) + 2>>]
TimeRangeArr(q) ==
    [t \in q.tags |-> IF Gap(t, q) = {} THEN <<0, 0>>
                      ELSE <<Min(Gap(t, q)), Max(Gap(t, q)) + 1>>]

\* Fault variants: the bounds taken over every record, flagged or not, as
\* the path without GROUP BY time does for the first one; or maxTime one
\* point short.
RemainWindowFromZero(q, tr) ==
    LET ranges == {tr[t] : t \in q.tags}
    IN  <<Min({r[1] : r \in ranges}), Max({r[2] : r \in ranges})>>
RemainWindowShort(q, tr) ==
    LET ranges == {tr[t] : t \in Flagged(q)}
    IN  <<Min({r[1] : r \in ranges}), Max({r[2] : r \in ranges}) - 1>>

\* RemainQueryString's <<minTime, maxTime>>.  Without GROUP BY time the
\* bounds start from the FIRST record's range, flagged or not.
RemainWindow(q, tr) ==
    LET first  == SortedTags(q.tags)[1]
        ranges == {tr[t] : t \in Flagged(q)}
                  \cup (IF GroupByTime THEN {} ELSE {tr[first]})
    IN  <<Min({r[1] : r \in ranges}), Max({r[2] : r \in ranges})>>

\* maxTime-minTime <= time.Minute: the remainder is not worth fetching.
WithinThreshold(minTime, maxTime) == maxTime - minTime <= Threshold

\* conn.Query of the full query: one series per tag that has rows.
FullResponse(q) ==
    LET ts == SelectSeq(SortedTags(q.tags), LAMBDA t : DbRows(t, ReqSlots(q)) # {})
    IN  [i \in DOMAIN ts |-> [tag |-> ts[i], rows |-> SortRows(DbRows(ts[i], ReqSlots(q)))]]

\* Fault variant: each statement's time condition inclusive of its end.
RemainResponseInclusive(q, tr) ==
    LET ts == SortedTags(DOMAIN tr)
    IN  [i \in DOMAIN ts |->
           LET rows == DbRows(ts[i], tr[ts[i]][1] .. tr[ts[i]][2])
           IN  IF rows = {} THEN NoSeries
               ELSE [tag |-> ts[i], rows |-> SortRows(rows)]]

\* conn.Query of the remainder: one statement, hence one result, per
\* flagged tag over that tag's own range; a result without rows is nil.
RemainResponse(q, tr) ==
    LET ts == SortedTags(DOMAIN tr)
    IN  [i \in DOMAIN ts |->
           LET rows == DbRows(ts[i], Span(tr[ts[i]][1], tr[ts[i]][2]))
           IN  IF rows = {} THEN NoSeries
               ELSE [tag |-> ts[i], rows |-> SortRows(rows)]]

\* ResponseToByteArrayWithParams labels the i-th returned series with the
\* i-th requested tag (GetSingleSegment), whatever tag the series has.
FullRecords(q, resp) ==
    LET ts == SortedTags(q.tags)
    IN  [t \in {ts[i] : i \in 1 .. Len(resp)} |->
           LET i == CHOOSE k \in 1 .. Len(resp) : ts[k] = t
           IN  {resp[i].rows[j] : j \in DOMAIN resp[i].rows}]

\* Known-empty placeholder records: "<segment> <int64 0>" per tag.
Placeholders(tags) == [t \in tags |-> {}]

-----------------------------------------------------------------------------
(* Actions of worker w.                                                    *)

Finish(w, res, isStale) ==
    /\ pc' = [pc EXCEPT ![w] = "done"]
    /\ result' = [result EXCEPT ![w] = res]
    /\ stale' = [stale EXCEPT ![w] = isStale]

\* GetQueryTemplate, SplitPartialSegment and the shard choice: the worker
\* takes its next query.
StartQuery(w) ==
    /\ pc[w] \in {"idle", "done"}
    /\ issued < MaxQueries
    /\ \E q \in Queries : req' = [req EXCEPT ![w] = q]
    /\ pc' = [pc EXCEPT ![w] = "get"]
    /\ issued' = issued + 1
    /\ conv' = [conv EXCEPT ![w] = <<>>]
    /\ result' = [result EXCEPT ![w] = <<>>]
    /\ UNCHANGED <<covered, stored, timeRange, window, stale, dbFailures>>

\* STsConnArr[CacheIndex].Get returns an error: go to the database.
CacheMiss(w) ==
    /\ pc[w] = "get"
    /\ StoreMiss(req[w])
    /\ pc' = [pc EXCEPT ![w] = "miss"]
    /\ UNCHANGED <<covered, stored, req, conv, timeRange, window, result, stale,
                   dbFailures, issued>>

\* flagNum == 0: every segment covers the window; hitKind = 2.
CacheFullHit(w) ==
    /\ pc[w] = "get"
    /\ ~StoreMiss(req[w])
    /\ Flagged(req[w]) = {}
    /\ Finish(w, Converted(req[w]), FALSE)
    /\ UNCHANGED <<covered, stored, req, conv, timeRange, window, dbFailures, issued>>

\* Some segment is flagged but the remainder spans at most the threshold:
\* the cached data is returned as it is; hitKind = 2.
CacheStaleHit(w) ==
    /\ pc[w] = "get"
    /\ ~StoreMiss(req[w])
    /\ Flagged(req[w]) # {}
    /\ LET win == RemainWindow(req[w], TimeRangeArr(req[w]))
       IN  WithinThreshold(win[1], win[2])
    /\ Finish(w, Converted(req[w]), TRUE)
    /\ UNCHANGED <<covered, stored, req, conv, timeRange, window, dbFailures, issued>>

\* A remainder query is needed; hitKind = 1.
CachePartialHit(w) ==
    /\ pc[w] = "get"
    /\ ~StoreMiss(req[w])
    /\ Flagged(req[w]) # {}
    /\ LET q   == req[w]
           tr  == TimeRangeArr(q)
           win == RemainWindow(q, tr)
       IN  /\ ~WithinThreshold(win[1], win[2])
           /\ pc' = [pc EXCEPT ![w] = "remainder"]
           /\ conv' = [conv EXCEPT ![w] = Converted(q)]
           /\ timeRange' = [timeRange EXCEPT ![w] = [t \in Flagged(q) |-> tr[t]]]
           /\ window' = [window EXCEPT ![w] = win]
    /\ UNCHANGED <<covered, stored, req, result, stale, dbFailures, issued>>

\* Full query answered with rows: encode, Set over [startTime, endTime).
MissStore(w) ==
    LET q == req[w]  resp == FullResponse(q) IN
    /\ pc[w] = "miss"
    /\ resp # <<>>
    /\ StoreSet(FullRecords(q, resp), q.st, q.et)
    /\ Finish(w, resp, FALSE)
    /\ UNCHANGED <<req, conv, timeRange, window, dbFailures, issued>>

\* Full query answered empty, or failed (err only logged, resp nil):
\* ResponseIsEmpty holds and known-empty placeholders are Set for every
\* requested segment over [startTime, endTime).
MissPlaceholder(w) ==
    LET q == req[w] IN
    /\ pc[w] = "miss"
    /\ \/ /\ FullResponse(q) = <<>>
          /\ UNCHANGED dbFailures
       \/ /\ dbFailures < MaxDbFailures
          /\ dbFailures' = dbFailures + 1
    /\ StoreSet(Placeholders(q.tags), q.st, q.et)
    /\ Finish(w, <<>>, FALSE)
    /\ UNCHANGED <<req, conv, timeRange, window, issued>>

\* Remainder answered and its FIRST result has a series: encode one record
\* per flagged tag, Set over [minTime, maxTime), merge with the cache.
RemainderStore(w) ==
    LET q == req[w]  rem == RemainResponse(q, timeRange[w]) IN
    /\ pc[w] = "remainder"
    /\ rem[1] # NoSeries
    /\ StoreSet([t \in DOMAIN timeRange[w] |->
                   DbRows(t, Span(timeRange[w][t][1], timeRange[w][t][2]))],
                window[w][1], window[w][2])
    /\ Finish(w, MergeRemainResponse(rem, conv[w]), FALSE)
    /\ UNCHANGED <<req, conv, timeRange, window, dbFailures, issued>>

\* Fault variant: ResponseIsEmpty taken as "every result is empty", so a
\* remainder whose first result is nil but a later one is not matches
\* neither branch.
RemainderPlaceholderAllEmpty(w) ==
    LET q == req[w] IN
    /\ pc[w] = "remainder"
    /\ \/ /\ \A i \in DOMAIN RemainResponse(q, timeRange[w]) :
                RemainResponse(q, timeRange[w])[i] = NoSeries
          /\ UNCHANGED dbFailures
       \/ /\ dbFailures < MaxDbFailures
          /\ dbFailures' = dbFailures + 1
    /\ StoreSet(Placeholders(DOMAIN timeRange[w]), q.st, q.et)
    /\ Finish(w, conv[w], FALSE)
    /\ UNCHANGED <<req, conv, timeRange, window, issued>>

\* ResponseIsEmpty(remainResp) -- the first flagged tag has no rows in its
\* range, or the round-trip failed: placeholders for every flagged tag over
\* [startTime, endTime), and the cached series are returned.
RemainderPlaceholder(w) ==
    LET q == req[w] IN
    /\ pc[w] = "remainder"
    /\ \/ /\ RemainResponse(q, timeRange[w])[1] = NoSeries
          /\ UNCHANGED dbFailures
       \/ /\ dbFailures < MaxDbFailures
          /\ dbFailures' = dbFailures + 1
    /\ StoreSet(Placeholders(DOMAIN timeRange[w]), q.st, q.et)
    /\ Finish(w, conv[w], FALSE)
    /\ UNCHANGED <<req, conv, timeRange, window, issued>>

\* The benchmark has run all its queries.
Terminated ==
    /\ issued = MaxQueries
    /\ \A w \in Workers : pc[w] \in {"idle", "done"}
    /\ UNCHANGED vars

Init ==
    /\ covered = [t \in Tags |-> {}]
    /\ stored = [t \in Tags |-> {}]
    /\ pc = [w \in Workers |-> "idle"]
    /\ req = [w \in Workers |-> CHOOSE q \in Queries : TRUE]
    /\ conv = [w \in Workers |-> <<>>]
    /\ timeRange = [w \in Workers |-> <<>>]
    /\ window = [w \in Workers |-> <<0, 0>>]
    /\ result = [w \in Workers |-> <<>>]
    /\ stale = [w \in Workers |-> FALSE]
    /\ dbFailures = 0
    /\ issued = 0

Next ==
    \/ \E w \in Workers :
          \/ StartQuery(w)
          \/ CacheMiss(w) \/ CacheFullHit(w) \/ CacheStaleHit(w) \/ CachePartialHit(w)
          \/ MissStore(w) \/ MissPlaceholder(w)
          \/ RemainderStore(w) \/ RemainderPlaceholder(w)
    \/ Terminated

Spec == Init /\ [][Next]_vars

-----------------------------------------------------------------------------
(* Properties.                                                             *)

Series == [tag : Tags \cup {0}, rows : Seq(Tags \X Slots)]

TypeOK ==
    /\ covered \in [Tags -> SUBSET Slots]
    /\ stored \in [Tags -> SUBSET (Tags \X Slots)]
    /\ pc \in [Workers -> {"idle", "get", "miss", "remainder", "done"}]
    /\ req \in [Workers -> Queries]
    /\ \A w \in Workers : \A i \in DOMAIN result[w] : result[w][i] \in Series
    /\ stale \in [Workers -> BOOLEAN]
    /\ dbFailures \in 0 .. MaxDbFailures
    /\ issued \in 0 .. MaxQueries

\* The rows of the returned series labelled t.
ResultRows(w, t) ==
    UNION {{result[w][i].rows[j] : j \in 1 .. Len(result[w][i].rows)} :
             i \in {k \in DOMAIN result[w] : result[w][k].tag = t}}

(* StoreFaithful: for every segment, the store holds only database rows  *)
(* of the time points it claims to cover, and, as long as no database      *)
(* round-trip has failed, all of them.  Every Set of the client (full      *)
(* answer, remainder, known-empty placeholder) must keep this, or every    *)
(* later hit on that segment returns wrong data.  (A failed round-trip is  *)
(* Set as known-empty placeholders, client.go:963-973 and 1005-1017, and   *)
(* the code then leaves that window's rows out: only soundness can hold.)  *)
StoreFaithful ==
    \A t \in Tags :
        /\ stored[t] \subseteq DbRows(t, covered[t])
        /\ dbFailures = 0 => stored[t] = DbRows(t, covered[t])

(* ResultSound: every row a finished call returns under tag t is a row of  *)
(* t in the database inside the requested window: no row of another       *)
(* tag-combination and none outside [startTime, endTime).                  *)
ResultSound ==
    \A w \in Workers : pc[w] = "done" =>
      \A t \in Tags : \A r \in ResultRows(w, t) :
          r \in Data /\ r[1] = t /\ r[2] \in ReqSlots(req[w])

(* FetchedRangeCached: once a call has returned without relying on the     *)
(* threshold rule, the whole window of its query is covered for every      *)
(* requested tag, so the same query again is a full hit with no database   *)
(* round-trip (spec.md §8, scenario B and known-empty idempotence).        *)
FetchedRangeCached ==
    \A w \in Workers : pc[w] = "done" /\ ~stale[w] =>
      \A t \in req[w].tags : ReqSlots(req[w]) \subseteq covered[t]

(* ResultComplete: a finished call returns every database row of the       *)
(* requested tags and window, except rows inside one remainder window no   *)
(* wider than the threshold (the tolerated stale tail).                    *)
ResultComplete ==
    \A w \in Workers : pc[w] = "done" =>
      LET missing == {r \in Data : /\ r[1] \in req[w].tags
                                   /\ r[2] \in ReqSlots(req[w])
                                   /\ r \notin ResultRows(w, r[1])}
      IN  \A a, b \in missing : a[2] - b[2] < Threshold

(* ResultOrdered: every returned series is strictly ascending in time      *)
(* (spec.md §8, monotonicity of merge_series).                             *)
ResultOrdered ==
    \A w \in Workers : pc[w] = "done" =>
      \A i \in DOMAIN result[w] :
        \A j \in 1 .. Len(result[w][i].rows) - 1 :
          result[w][i].rows[j][2] < result[w][i].rows[j + 1][2]

-----------------------------------------------------------------------------
(* Refinement of the caller's view, CacheService.                          *)

\* Every row of every series w's call returned, as a set.
AnswerRows(w) ==
    UNION {{result[w][i].rows[j] : j \in 1 .. Len(result[w][i].rows)} :
             i \in DOMAIN result[w]}

Service == INSTANCE CacheService
    WITH Tags <- Tags, Slots <- Slots, cache <- covered, query <- req,
         status <- [w \in Workers |->
                      IF pc[w] \in {"get", "miss", "remainder"} THEN "busy"
                      ELSE pc[w]],
         answer <- [w \in Workers |-> AnswerRows(w)]

(* CacheServiceRefined: STsCacheClientSeg implements CacheService.  Every  *)
(* call the workers make, through any branch and interleaved with the     *)
(* other workers' Sets, answers either with every row of its window and   *)
(* leaves that window covered, or (threshold rule) with exactly the rows  *)
(* of the points already covered when the gap fits the threshold; and the *)
(* store's coverage changes only when a call answers.                      *)
CacheServiceRefined == Service!Spec

=============================================================================
