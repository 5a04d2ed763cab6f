------------------------------ MODULE TsdbEntry ------------------------------
(***************************************************************************)
(* One cache entry of the TimescaleDB client on its way through the store: *)
(* the database answer STsCacheClientSeg encodes and Sets (client.go       *)
(* 78-104, 144-146), the records the store keeps, the entry a later Get    *)
(* returns with hit flags and ranges, and what ByteArrayToResponseWith-    *)
(* Datatype makes of it (client.go 106).  The bytes are TsdbCodec's.       *)
(***************************************************************************)
EXTENDS Integers, TsdbCodec

CONSTANTS
    NumTags,     \* tag values of the template's name column
    Times,       \* bucket times (Unix seconds) rows may have
    Values,      \* field values rows may have, Null among them or not
    NumFields    \* fields of the semantic segment

Tags == 1 .. NumTags
Absent == <<>>       \* no row for this tag and time (a row has NumFields >= 1 values)

ASSUME Times \subseteq Nat \ {0} /\ NumFields \in Nat \ {0}
ASSUME Values \subseteq (0 .. 15) \cup {Null}

\* fields := "time[int64],name[string]," + fields (client.go 69-72).
Datatypes == DataTypeFromColumn(2 + NumFields)

\* The requested tags in sorted order, as GetQueryTemplate returns them.
SortedTags(S) == SelectSeq([i \in 1 .. NumTags |-> i], LAMBDA t : t \in S)

\* The rows of a database answer in ORDER BY name, bucket order, from what
\* it holds for each tag and time.
Answer(f, S) ==
    FlattenSeq([i \in DOMAIN SortedTags(S) |->
      LET t == SortedTags(S)[i]
          ts == SelectSeq(SetToSortSeq(Times, <), LAMBDA tm : f[t, tm] # Absent)
      IN  [k \in DOMAIN ts |-> <<ts[k], t>> \o f[t, ts[k]]]])

VARIABLES
    phase,     \* "query", "sent", "stored", "got", "decoded"
    tags,      \* the requested tags, sorted
    rows,      \* the database answer the client holds (<<>> for nil)
    sent,      \* <<bytes, numOfTab>> the client passed to Set
    records,   \* the records the store keeps
    flags,     \* the hit flag the store answers each record with
    ranges,    \* the missing range of each flagged record
    got,       \* the bytes Get returned
    decoded    \* ByteArrayToResponseWithDatatype of them

vars == <<phase, tags, rows, sent, records, flags, ranges, got, decoded>>

Init ==
    /\ phase = "query"
    /\ \E S \in SUBSET Tags \ {{}},
          f \in [Tags \X Times -> [1 .. NumFields -> Values] \cup {Absent}] :
          /\ tags = SortedTags(S)
          /\ rows = Answer(f, S)
    /\ sent = <<<<>>, 0>>
    /\ records = <<>>
    /\ flags = <<>>
    /\ ranges = <<>>
    /\ got = <<>>
    /\ decoded = ByteArrayToResponseWithDatatype(<<>>, Datatypes)

\* conn.Query returned rows: they are encoded for the requested tags.
EncodeAnswer ==
    /\ phase = "query"
    /\ sent' = ResponseInterfaceToByteArrayWithParams(rows, Datatypes, tags)
    /\ phase' = "sent"
    /\ UNCHANGED <<tags, rows, records, flags, ranges, got, decoded>>

\* conn.Query failed: an empty record per requested tag.
EncodeFailure ==
    /\ phase = "query"
    /\ sent' = PlaceholderBytes(tags)
    /\ rows' = <<>>
    /\ phase' = "sent"
    /\ UNCHANGED <<tags, records, flags, ranges, got, decoded>>

\* Set: the store splits the value into its records.
StoreSet ==
    /\ phase = "sent"
    /\ records' = StoreRecords(sent[1])
    /\ phase' = "stored"
    /\ UNCHANGED <<tags, rows, sent, flags, ranges, got, decoded>>

\* Get: each record comes back flagged or not; a flagged one carries the
\* range the store lacks.
StoreGetEntry ==
    /\ phase = "stored"
    /\ \E fl \in [DOMAIN records -> {0, 1}],
          rg \in [DOMAIN records -> {r \in Times \X Times : r[1] < r[2]}] :
          /\ flags' = fl
          /\ ranges' = rg
          /\ got' = StoreGet(records, fl, rg)
    /\ phase' = "got"
    /\ UNCHANGED <<tags, rows, sent, records, decoded>>

Decode ==
    /\ phase = "got"
    /\ decoded' = ByteArrayToResponseWithDatatype(got, Datatypes)
    /\ phase' = "decoded"
    /\ UNCHANGED <<tags, rows, sent, records, flags, ranges, got>>

Done ==
    /\ phase = "decoded"
    /\ UNCHANGED vars

Next == EncodeAnswer \/ EncodeFailure \/ StoreSet \/ StoreGetEntry \/ Decode \/ Done

Spec == Init /\ [][Next]_vars

-----------------------------------------------------------------------------

TypeOK ==
    /\ phase \in {"query", "sent", "stored", "got", "decoded"}
    /\ tags \in Seq(Tags)
    /\ \A i \in DOMAIN got : got[i] \in 0 .. 255
    /\ flags \in Seq({0, 1})

\* The series the decoder should give back for the i-th requested tag: its
\* rows in time order, the name column holding the tag's string.
Expected(i) ==
    LET mine == SelectSeq(rows, LAMBDA r : r[2] = tags[i])
    IN  [k \in DOMAIN mine |-> [mine[k] EXCEPT ![2] = TagValue(tags[i])]]

(* RoundTrip: what a Get of the entry decodes to is what was Set: one      *)
(* series per requested tag, in tag order, each with exactly that tag's    *)
(* rows and values; the flags and ranges the store answered with; and the  *)
(* tag of every record (spec.md §8 round-trip).  It fails if the encoder   *)
(* writes a tag's rows under another segment, miscounts a length, or the   *)
(* decoder reads the header or a column at the wrong offset.               *)
RoundTrip ==
    phase = "decoded" =>
      /\ decoded.ok
      /\ decoded.valuess = [i \in DOMAIN tags |-> Expected(i)]
      /\ decoded.flagArr = flags
      /\ decoded.flagNum = Cardinality({i \in DOMAIN flags : flags[i] = 1})
      /\ decoded.timeRangeArr = [i \in DOMAIN flags |->
                                   IF flags[i] = 1 THEN ranges[i] ELSE <<0, 0>>]
      /\ decoded.tagArr = [i \in DOMAIN tags |-> <<TagKey, TagValue(tags[i])>>]

(* TableCount: the NumOfTables the client passes to Set is the number of  *)
(* records in the value, one per requested tag, which the store uses to    *)
(* split the entry into segments.                                          *)
TableCount ==
    phase \in {"stored", "got", "decoded"} =>
      sent[2] = Len(records) /\ Len(records) = Len(tags)

=============================================================================
