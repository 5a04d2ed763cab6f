----------------------------- MODULE InfluxEntry -----------------------------
(***************************************************************************)
(* One cache entry of the InfluxDB client (STsCacheClientSeg, client.go    *)
(* 927-1040) on its way through the store: the database answer to the full *)
(* query or to the remainder query, encoded and Set, the records the store *)
(* keeps, the entry a later Get returns with hit flags and ranges, and     *)
(* what ByteArrayToResponseWithDatatype makes of it.  The bytes are        *)
(* InfluxCodec's.                                                          *)
(***************************************************************************)
EXTENDS Integers, InfluxCodec

CONSTANTS
    NumTags,     \* values of the GROUP BY tag
    Times,       \* times (Unix seconds) rows may have
    Values,      \* field values rows may have, Null among them or not
    FieldType,   \* the declared type of every field of the segment
    GroupByTag   \* TRUE: the query groups by the tag it filters on

Tags == 1 .. NumTags
Absent == <<>>

ASSUME Times \subseteq Nat \ {0} /\ NumFields \in Nat \ {0}

\* fields := "time[int64]," + fields; GetDataTypeArrayFromSF (client.go
\* 948-949, util.go 294-305).
Datatypes == <<"int64">> \o [k \in 1 .. NumFields |-> FieldType]

\* The requested tag values in sorted order (GetQueryTemplate).
SortedTags(S) == SelectSeq([i \in 1 .. NumTags |-> i], LAMBDA t : t \in S)

\* InfluxDB's series for a tag: its rows in time order (NoTag: the rows of
\* a query without GROUP BY tag).
SeriesFor(f, t) ==
    LET ts == SelectSeq(SetToSortSeq(Times, <), LAMBDA tm : f[t, tm] # Absent)
    IN  [tag |-> t, values |-> [k \in DOMAIN ts |-> <<ts[k]>> \o f[t, ts[k]]]]
HasRows(f, t) == \E tm \in Times : f[t, tm] # Absent

\* Without GROUP BY tag, InfluxDB answers a query over the tags S with one
\* series without tags: per time, each field aggregated (here max) over the
\* tags with a row then.
AggregateSeries(f, S) ==
    LET ts == SelectSeq(SetToSortSeq(Times, <), LAMBDA tm : \E t \in S : f[t, tm] # Absent)
        at(tm) == {t \in S : f[t, tm] # Absent}
    IN  [tag |-> NoTag,
         values |-> [i \in DOMAIN ts |->
                      <<ts[i]>> \o [k \in 1 .. NumFields |-> Max({f[t, ts[i]][k] : t \in at(ts[i])})]]]

\* The full query has one statement: a series per tag with rows, none when
\* no tag has any.  The remainder query has one statement per tag, each
\* with that tag's series or none.
FullAnswer(f, S) ==
    IF S = {} THEN <<<<SeriesFor(f, NoTag)>>>>
    ELSE IF ~GroupByTag
    THEN IF \E t \in S : HasRows(f, t) THEN <<<<AggregateSeries(f, S)>>>> ELSE <<<<>>>>
    ELSE LET ts == SelectSeq(SortedTags(S), LAMBDA t : HasRows(f, t))
         IN  <<[i \in DOMAIN ts |-> SeriesFor(f, ts[i])]>>
RemainAnswer(f, S) ==
    LET ts == SortedTags(S)
    IN  [i \in DOMAIN ts |-> IF ~HasRows(f, ts[i]) THEN <<>>
                             ELSE IF GroupByTag THEN <<SeriesFor(f, ts[i])>>
                             ELSE <<[SeriesFor(f, ts[i]) EXCEPT !.tag = NoTag]>>]

VARIABLES
    phase,     \* "query", "sent", "stored", "got", "decoded"
    stmt,      \* "full" or "remain": which query the answer is to
    tags,      \* the requested (or flagged) tags, sorted
    db,        \* the rows the database holds, per tag and time
    resp,      \* the answer the client holds (<<>> for nil)
    sent,      \* <<bytes, NumOfTables>> the client passed to Set
    records,   \* the records the store keeps
    flags,     \* the hit flag the store answers each record with
    ranges,    \* the missing range of each flagged record
    got,       \* the bytes Get returned
    decoded    \* ByteArrayToResponseWithDatatype of them

vars == <<phase, stmt, tags, db, resp, sent, records, flags, ranges, got, decoded>>

\* A full answer names every requested tag or none of them: a tag without
\* rows in a partly empty answer is the sparse_labels case of
\* STsCacheClient, not a property of the bytes.
Init ==
    /\ phase = "query"
    /\ \E S \in SUBSET Tags, m \in {"full", "remain"} :
         \E f \in [(IF S = {} THEN {NoTag} ELSE S) \X Times
                     -> [1 .. NumFields -> Values] \cup {Absent}] :
          /\ m = "remain" => S # {}
          /\ m = "full" /\ S # {} /\ GroupByTag => \A t \in S : HasRows(f, t) \/ \A u \in S : ~HasRows(f, u)
          /\ stmt = m
          /\ tags = SortedTags(S)
          /\ db = f
          /\ resp = IF m = "full" THEN FullAnswer(f, S) ELSE RemainAnswer(f, S)
    /\ sent = <<<<>>, 0>>
    /\ records = <<>>
    /\ flags = <<>>
    /\ ranges = <<>>
    /\ got = <<>>
    /\ decoded = ByteArrayToResponseWithDatatype(<<>>, Datatypes)

\* Full query answered: its series under the requested segments, NumOfTables
\* the number of series (client.go 959-962).
EncodeAnswer ==
    /\ phase = "query" /\ stmt = "full"
    /\ ~ResponseIsEmpty(resp)
    /\ sent' = <<ResponseToByteArrayWithParams(resp, Datatypes, tags), GetNumOfTable(resp)>>
    /\ phase' = "sent"
    /\ UNCHANGED <<stmt, tags, db, resp, records, flags, ranges, got, decoded>>

\* Remainder answered: NumOfTables is the number of statements (client.go
\* 1023-1033).
EncodeRemainder ==
    /\ phase = "query" /\ stmt = "remain"
    /\ ~ResponseIsEmpty(resp)
    /\ sent' = <<RemainResponseToByteArrayWithParams(resp, Datatypes, tags), Len(resp)>>
    /\ phase' = "sent"
    /\ UNCHANGED <<stmt, tags, db, resp, records, flags, ranges, got, decoded>>

\* ResponseIsEmpty, or conn.Query failed (the error is only logged and the
\* response is nil): an empty record per segment (client.go 963-973,
\* 1005-1018).
EncodePlaceholders ==
    /\ phase = "query"
    /\ \/ ResponseIsEmpty(resp) /\ UNCHANGED resp
       \/ resp' = <<>>
    /\ sent' = <<PlaceholderBytes(tags), Len(GetSingleSegment(tags))>>
    /\ phase' = "sent"
    /\ UNCHANGED <<stmt, tags, db, records, flags, ranges, got, decoded>>

\* Set: the store splits the value into its records (TsdbCodec).
StoreSet ==
    /\ phase = "sent"
    /\ records' = T!StoreRecords(sent[1])
    /\ phase' = "stored"
    /\ UNCHANGED <<stmt, tags, db, resp, sent, flags, ranges, got, decoded>>

\* Get: each record comes back flagged or not, a flagged one with the range
\* the store lacks.
StoreGetEntry ==
    /\ phase = "stored"
    /\ \E fl \in [DOMAIN records -> {0, 1}],
          rg \in [DOMAIN records -> {r \in Times \X Times : r[1] < r[2]}] :
          /\ flags' = fl
          /\ ranges' = rg
          /\ got' = T!StoreGet(records, fl, rg)
    /\ phase' = "got"
    /\ UNCHANGED <<stmt, tags, db, resp, sent, records, decoded>>

Decode ==
    /\ phase = "got"
    /\ decoded' = ByteArrayToResponseWithDatatype(got, Datatypes)
    /\ phase' = "decoded"
    /\ UNCHANGED <<stmt, tags, db, resp, sent, records, flags, ranges, got>>

Done ==
    /\ phase = "decoded"
    /\ UNCHANGED vars

Next == EncodeAnswer \/ EncodeRemainder \/ EncodePlaceholders \/ StoreSet
          \/ StoreGetEntry \/ Decode \/ Done

Spec == Init /\ [][Next]_vars

-----------------------------------------------------------------------------

TypeOK ==
    /\ phase \in {"query", "sent", "stored", "got", "decoded"}
    /\ stmt \in {"full", "remain"}
    /\ tags \in Seq(Tags)
    /\ \A i \in DOMAIN got : got[i] \in 0 .. 255
    /\ flags \in Seq({0, 1})

\* The records Get answers with: one per requested tag, the star segment's
\* when the query groups by no tag.
Keys == IF tags = <<>> THEN <<NoTag>> ELSE tags

\* The rows the database holds for t (NoTag: for a query without tags).
RowsOf(t) == SeriesFor(db, t).values

\* The columns InfluxDB names: time and the aggregate, then aggr_1 ..
\* for further fields; or time and the fields.
DBColumns ==
    IF Aggregated THEN <<Time, Aggr>> \o [j \in 1 .. NumFields - 1 |-> Aggr \o <<95, 48 + j>>]
    ELSE <<Time>> \o [k \in 1 .. NumFields |-> FieldName(k)]

(* InfluxRoundTrip: what a Get of the entry decodes to is what the client  *)
(* Set: one series per requested tag in tag order, named after the metric, *)
(* tagged with that tag, with InfluxDB's column names and exactly the rows *)
(* the database holds for that tag (none for a placeholder);               *)
(* and the flags, ranges and tags the store answered with (spec.md §8      *)
(* round-trip).  It fails if RemainResponseToByteArrayWithParams loses its *)
(* place among the tags when a statement has no series, if a length is    *)
(* miscounted, or if the decoder reads a key, a row or the columns wrong.  *)
InfluxRoundTrip ==
    phase = "decoded" =>
      /\ ~decoded.nil /\ ~decoded.fatal
      /\ decoded.series =
           [i \in DOMAIN Keys |->
              [name    |-> T!Metric,
               tags    |-> IF Keys[i] = NoTag THEN {} ELSE {<<T!TagKey, T!TagValue(Keys[i])>>},
               columns |-> DBColumns,
               values  |-> IF ResponseIsEmpty(resp) THEN <<>> ELSE RowsOf(Keys[i])]]
      /\ decoded.flagArr = flags
      /\ decoded.flagNum = Cardinality({i \in DOMAIN flags : flags[i] = 1})
      /\ decoded.timeRangeArr = [i \in DOMAIN flags |->
                                   IF flags[i] = 1 THEN ranges[i] ELSE <<0, 0>>]
      /\ decoded.tagArr = [i \in DOMAIN tags |-> <<T!TagKey, T!TagValue(tags[i])>>]

(* InfluxTableCount: the NumOfTables the client passes to Set is the       *)
(* number of records in the value, one per requested segment.  The store   *)
(* splits the entry by it; the full-query encoder counts series, the       *)
(* remainder encoder statements, and the placeholder loop segments.        *)
InfluxTableCount ==
    phase \in {"stored", "got", "decoded"} =>
      sent[2] = Len(records) /\ Len(records) = Len(Keys)

=============================================================================
