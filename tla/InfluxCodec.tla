----------------------------- MODULE InfluxCodec -----------------------------
(***************************************************************************)
(* The byte codec of the InfluxDB cache client                             *)
(* (InfluxDB-client/v2/convert_response.go, semantic_segment.go, util.go)  *)
(* as pure operators on byte sequences.                                    *)
(*                                                                         *)
(* A response is Go's []Result as a sequence of results, a result its      *)
(* Series as a sequence, and a series a record [tag, values]: tag is the   *)
(* one GROUP BY tag value (NoTag for a series without tags) and values the *)
(* rows <<time, field values>>, the time in Unix seconds (the queries run  *)
(* with precision "s", so it is a json.Number) and a field a json.Number   *)
(* that is a small whole number, or Null.  Names are one character, as in  *)
(* TsdbCodec, whose scalar conversions are the same Go code; the partial   *)
(* segment is "#{a[x],b[x]..}#{e}#{aggr,1}" with aggr "m" or "empty".       *)
(* Go indexes are 0-based: s[i] in Go is s[i + 1] here.                    *)
(***************************************************************************)
EXTENDS Integers, SequencesExt

CONSTANTS
    Null,              \* a nil interface{} value
    STRINGBYTELENGTH,  \* width of a string column
    NumFields,         \* fields of the semantic segment
    Aggregated         \* TRUE: SELECT mean(..); FALSE: plain field list

T == INSTANCE TsdbCodec

NoTag == 0
Time == <<116, 105, 109, 101>>
EmptyWord == <<101, 109, 112, 116, 121>>
FieldName(k) == <<96 + k>>
Aggr == IF Aggregated THEN <<109>> ELSE EmptyWord
FieldsStr == FlattenSeq([k \in 1 .. NumFields |->
               (IF k = 1 THEN <<>> ELSE <<T!Comma>>) \o FieldName(k) \o <<91, 120, 93>>])
Partial == <<T!Hash, T!LBrace>> \o FieldsStr \o <<T!RBrace, T!Hash, T!LBrace, 101, T!RBrace,
             T!Hash, T!LBrace>> \o Aggr \o <<T!Comma, 49, T!RBrace>>

\* strings.Split.
RECURSIVE Split(_, _)
Split(s, c) ==
    IF T!IndexOf(s, c) < 0 THEN <<s>>
    ELSE <<T!Slice(s, 0, T!IndexOf(s, c))>> \o Split(T!From(s, T!IndexOf(s, c) + 1), c)

-----------------------------------------------------------------------------
(* Scalars (convert_response.go 923-1028): the same code as TsdbCodec's.   *)

Int64ToByteArray(n) == T!Int64ToByteArray(n)
ByteArrayToInt64(b) == T!ByteArrayToInt64(b)
Float64ToByteArray(v) == T!Float64ToByteArray(v)
ByteArrayToFloat64(b) == T!ByteArrayToFloat64(b)

\* Summed over the declared types of the segment's fields.
BytesPerLine(datatypes) == FoldLeft(+, 0, [i \in DOMAIN datatypes |-> T!Width(datatypes[i])])

\* A nil value is written as the zero of its type.
InterfaceToByteArray(index, datatype, value) ==
    CASE datatype = "bool"    -> T!BoolToByteArray(value # Null /\ value)
      [] datatype = "int64"   -> Int64ToByteArray(IF value = Null THEN 0 ELSE value)
      [] datatype = "float64" -> Float64ToByteArray(IF value = Null THEN 0 ELSE value)
      [] OTHER                -> T!StringToByteArray(IF value = Null THEN <<0>> ELSE value)

\* Column 0 with its own type, every other column as float64.
RowBytes(row, datatypes) ==
    FlattenSeq([j \in DOMAIN row |->
      InterfaceToByteArray(j - 1, IF j = 1 THEN datatypes[1] ELSE "float64", row[j])])
\* The bytes the decoder reads for one row.
RowWidth(datatypes) == T!Width(datatypes[1]) + 8 * (Len(datatypes) - 1)

-----------------------------------------------------------------------------
(* Segment keys (semantic_segment.go 514-535).                             *)

SegKey(t) == <<T!LBrace, T!LParen>> \o T!Metric \o <<T!Dot>> \o T!TagKey \o <<T!Eq>>
               \o T!TagValue(t) \o <<T!RParen, T!RBrace>> \o Partial
GetStarSegment == <<T!LBrace, T!LParen>> \o T!Metric \o <<T!Dot, T!Star, T!RParen, T!RBrace>>
                    \o Partial
GetSingleSegment(tags) ==
    IF tags = <<>> THEN <<GetStarSegment>> ELSE [i \in DOMAIN tags |-> SegKey(tags[i])]

SeriesBytes(segment, s, datatypes) ==
    segment \o <<T!Space>> \o Int64ToByteArray(BytesPerLine(datatypes) * Len(s.values))
      \o FlattenSeq([k \in DOMAIN s.values |-> RowBytes(s.values[k], datatypes)])
EmptySeries(segment) == segment \o <<T!Space>> \o Int64ToByteArray(0)
Empties(tags, from, to) == FlattenSeq([k \in 1 .. to - from |-> EmptySeries(SegKey(tags[from + k]))])

-----------------------------------------------------------------------------
(* Encoders (convert_response.go 64-181, util.go 16-22).                   *)

\* Only the first series of the first result is looked at (|| of Go, which
\* stops at the first true operand).
ResponseIsEmpty(response) ==
    IF Len(response) = 0 \/ Len(response[1]) = 0 THEN TRUE
    ELSE Len(response[1][1].values) = 0

\* Mutant: counts the results (statements) instead of the series of the
\* first result.
GetNumOfTableResults(response) == Len(response)

GetNumOfTable(response) == Len(response[1])

\* The i-th series of the first result under the i-th requested segment.
ResponseToByteArrayWithParams(response, datatypes, tags) ==
    IF ResponseIsEmpty(response) THEN <<>>
    ELSE FlattenSeq([i \in DOMAIN response[1] |->
                       SeriesBytes(GetSingleSegment(tags)[i], response[1][i], datatypes)])

\* One result per statement; a result without series is an empty record
\* for the next tag, a series with a tag first closes the tags before it
\* ("for index < len(tags)": the 0-based first match from index on, or
\* len(tags)), a series without tags is the star segment.
\* Mutant: a result without series writes its empty record but does not
\* move on to the next tag.
RemainStepNoAdvance(st, result, datatypes, tags) ==
    IF Len(result) = 0
    THEN [bytes |-> st.bytes \o EmptySeries(SegKey(tags[st.index + 1])), index |-> st.index]
    ELSE LET s == result[1]
         IN  IF s.tag = NoTag
             THEN [bytes |-> st.bytes \o SeriesBytes(GetStarSegment, s, datatypes),
                   index |-> st.index + 1]
             ELSE LET k == T!SkipTo(tags, st.index, s.tag)
                  IN  [bytes |-> st.bytes \o Empties(tags, st.index, k)
                                   \o SeriesBytes(SegKey(s.tag), s, datatypes),
                       index |-> IF k < Len(tags) THEN k + 1 ELSE k]

RemainStep(st, result, datatypes, tags) ==
    IF Len(result) = 0
    THEN [bytes |-> st.bytes \o EmptySeries(SegKey(tags[st.index + 1])), index |-> st.index + 1]
    ELSE LET s == result[1]
         IN  IF s.tag = NoTag
             THEN [bytes |-> st.bytes \o SeriesBytes(GetStarSegment, s, datatypes),
                   index |-> st.index + 1]
             ELSE LET k == T!SkipTo(tags, st.index, s.tag)
                  IN  [bytes |-> st.bytes \o Empties(tags, st.index, k)
                                   \o SeriesBytes(SegKey(s.tag), s, datatypes),
                       index |-> IF k < Len(tags) THEN k + 1 ELSE k]

RemainResponseToByteArrayWithParams(response, datatypes, tags) ==
    IF ResponseIsEmpty(response) THEN <<>>
    ELSE LET st == FoldLeft(LAMBDA acc, r : RemainStep(acc, r, datatypes, tags),
                            [bytes |-> <<>>, index |-> 0], response)
         IN  st.bytes \o Empties(tags, st.index, Len(tags))

\* STsCacheClientSeg's own loop when ResponseIsEmpty (client.go 963-973,
\* 1005-1018): an empty record per segment.
PlaceholderBytes(tags) ==
    LET segs == GetSingleSegment(tags) IN FlattenSeq([i \in DOMAIN segs |-> EmptySeries(segs[i])])

-----------------------------------------------------------------------------
(* ByteArrayToResponseWithDatatype (convert_response.go 257-503).          *)

\* Column 0 as its declared type, every other column as float64.
DecodeRow(b, datatypes, at) ==
    LET w == T!Width(datatypes[1])
    IN  [j \in DOMAIN datatypes |->
           IF j = 1 THEN T!DecodeValue(datatypes[1], T!Slice(b, at, at + w))
           ELSE ByteArrayToFloat64(T!Slice(b, at + w + 8 * (j - 2), at + w + 8 * (j - 1)))]

\* The loop over records: the key up to the space, the flag, the range if
\* the flag is 1, the length, then len / BytesPerLine rows, each read
\* column by column.  A buffer that does not end in CRLF stops the process
\* (log.Fatal); a record that does not start with "{(" makes no progress,
\* and the next turn of the loop returns nil.
RECURSIVE DecodeLoop(_, _, _, _)
DecodeLoop(b, datatypes, index, acc) ==
    IF index >= Len(b) THEN acc
    ELSE IF index = Len(b) - 2
    THEN IF b[index + 1] = T!CR /\ b[index + 2] = T!LF THEN acc ELSE [acc EXCEPT !.fatal = TRUE]
    ELSE IF ~(b[index + 1] = T!LBrace /\ b[index + 2] = T!LParen) THEN [acc EXCEPT !.nil = TRUE]
    ELSE
    LET keyEnd == index + T!IndexOf(T!From(b, index), T!Space)
        flag   == b[keyEnd + 2]
        lenAt  == IF flag = 1 THEN keyEnd + 18 ELSE keyEnd + 2
        range  == IF flag = 1
                  THEN <<ByteArrayToInt64(T!Slice(b, keyEnd + 2, keyEnd + 10)),
                         ByteArrayToInt64(T!Slice(b, keyEnd + 10, keyEnd + 18))>>
                  ELSE <<0, 0>>
        lines  == ByteArrayToInt64(T!Slice(b, lenAt, lenAt + 8)) \div BytesPerLine(datatypes)
        values == [l \in 1 .. lines |->
                     DecodeRow(b, datatypes, lenAt + 8 + (l - 1) * RowWidth(datatypes))]
    IN  DecodeLoop(b, datatypes, lenAt + 8 + lines * RowWidth(datatypes),
                   [acc EXCEPT !.valuess = Append(@, values),
                               !.segments = Append(@, T!Slice(b, index, keyEnd)),
                               !.flagNum = @ + (IF flag = 1 THEN 1 ELSE 0),
                               !.flagArr = Append(@, flag),
                               !.timeRangeArr = Append(@, range)])

\* The series a key describes: "{(name.key=value)}#{fields}#SP#{aggr,iv}".
\* With an aggregate the columns are time, aggr, aggr_1 ..; without, the
\* field names of "time[int64]," and the segment's fields.
SeriesOf(s, values) ==
    LET messages  == Split(s, T!Hash)
        merged    == Split(T!Slice(messages[1], 2, Len(messages[1]) - 2), T!Comma)
        nameIndex == T!IndexOf(merged[1], T!Dot)
        tag       == T!From(merged[1], nameIndex + 1)
        eqIdx     == T!IndexOf(tag, T!Eq)
        fields    == Split(Time \o <<91, 105, 93, T!Comma>>
                             \o T!Slice(messages[2], 1, Len(messages[2]) - 1), T!Comma)
        aggr      == Split(T!Slice(messages[4], 1, Len(messages[4]) - 1), T!Comma)[1]
    IN  [name    |-> T!Slice(merged[1], 0, nameIndex),
         tag     |-> tag,
         eqIdx   |-> eqIdx,
         tags    |-> IF eqIdx <= 0 THEN {}
                     ELSE {<<T!Slice(tag, 0, eqIdx), T!From(tag, eqIdx + 1)>>},
         columns |-> IF aggr # EmptyWord
                     THEN <<Time, aggr>> \o [j \in 1 .. Len(fields) - 2 |-> aggr \o <<95, 48 + j>>]
                     ELSE [k \in DOMAIN fields |-> T!Slice(fields[k], 0, T!IndexOf(fields[k], 91))],
         values  |-> values]

\* A key whose tag has no "=" and is not "*" ends the loop (break).
RECURSIVE BuildSeries(_, _)
BuildSeries(segments, valuess) ==
    IF segments = <<>> THEN [rows |-> <<>>, tagArr |-> <<>>]
    ELSE LET sr   == SeriesOf(Head(segments), Head(valuess))
             rest == BuildSeries(Tail(segments), Tail(valuess))
             row  == [name |-> sr.name, tags |-> sr.tags, columns |-> sr.columns,
                      values |-> sr.values]
         IN  IF sr.eqIdx <= 0
             THEN IF sr.tag = <<T!Star>> THEN [rest EXCEPT !.rows = <<row>> \o @] ELSE rest
             ELSE [rows |-> <<row>> \o rest.rows,
                   tagArr |-> <<<<T!Slice(sr.tag, 0, sr.eqIdx), T!From(sr.tag, sr.eqIdx + 1)>>>>
                              \o rest.tagArr]

\* [nil, fatal, series, flagNum, flagArr, timeRangeArr, tagArr]; an empty
\* buffer is nil.
ByteArrayToResponseWithDatatype(b, datatypes) ==
    LET acc == DecodeLoop(b, datatypes, 0,
                 [nil |-> b = <<>>, fatal |-> FALSE, valuess |-> <<>>, segments |-> <<>>,
                  flagNum |-> 0, flagArr |-> <<>>, timeRangeArr |-> <<>>])
        built == BuildSeries(acc.segments, acc.valuess)
    IN  [nil |-> acc.nil, fatal |-> acc.fatal, series |-> built.rows, flagNum |-> acc.flagNum,
         flagArr |-> acc.flagArr, timeRangeArr |-> acc.timeRangeArr, tagArr |-> built.tagArr]

=============================================================================
