------------------------------ MODULE TsdbCodec ------------------------------
(***************************************************************************)
(* The byte codec of the TimescaleDB cache client                          *)
(* (TimescaleDB_Client/timescaledb_client/convert_result.go, util.go,      *)
(* semantic_segment.go), as pure operators on byte sequences.              *)
(*                                                                         *)
(* A byte is an integer in 0 .. 255 and a string is its byte sequence.  A  *)
(* database row is Go's []interface{}: <<bucket, name, field values>>,     *)
(* the bucket a time in Unix seconds (time.Time formatted with goTimeFmt   *)
(* and parsed back is the same second), the name a tag number, a field a   *)
(* float64 that is a small whole number (0 .. 15), or Null for SQL NULL.   *)
(* A segment key is GetSingleSegment's "{(metric.name=value)}partial"      *)
(* with one-character metric, tag key, tag value and partial segment.      *)
(* Go indexes are 0-based: s[i] in Go is s[i + 1] here.                    *)
(***************************************************************************)
EXTENDS Integers, SequencesExt

CONSTANTS
    Null,              \* a nil interface{} value (SQL NULL)
    STRINGBYTELENGTH   \* width of a string column (32 in client.go)

\* Characters the codec looks for.
LBrace == 123  LParen == 40  RParen == 41  RBrace == 125  Space == 32
Dot == 46  Eq == 61  Hash == 35  Star == 42  Comma == 44  CR == 13  LF == 10
\* One-character names: metric "c", tag key "n", tag value "<digit t>".
Metric == <<99>>
TagKey == <<110>>
TagValue(t) == <<48 + t>>
Partial == <<Hash>>

\* The 0-based index of the first c in s, -1 if there is none (strings.Index).
IndexOf(s, c) == SelectInSeq(s, LAMBDA x : x = c) - 1
\* s[lo:hi] of Go.
Slice(s, lo, hi) == SubSeq(s, lo + 1, hi)

-----------------------------------------------------------------------------
(* Scalars (convert_result.go 539-626).                                    *)

\* k bytes of n, little-endian, two's complement (binary.Write).
RECURSIVE LittleEndian(_, _)
LittleEndian(n, k) ==
    IF k = 0 THEN <<>> ELSE <<n % 256>> \o LittleEndian(n \div 256, k - 1)

RECURSIVE FromLittleEndian(_)
FromLittleEndian(b) ==
    IF b = <<>> THEN 0 ELSE b[1] + 256 * FromLittleEndian(Tail(b))

Int64ToByteArray(n) == LittleEndian(n, 8)
\* A negative number is the complement of its magnitude less one.
ByteArrayToInt64(b) ==
    IF b[8] < 128 THEN FromLittleEndian(b)
    ELSE -(FromLittleEndian([i \in DOMAIN b |-> 255 - b[i]]) + 1)

\* IEEE-754 binary64 of a whole number v in 0 .. 15: exponent e = floor(log2
\* v), biased 1023 + e in the top 12 bits, and v - 2^e in the top mantissa
\* bits, which all fall in byte 7.
Log2(v) == CHOOSE e \in 0 .. 3 : 2^e <= v /\ v < 2^(e + 1)
Float64ToByteArray(v) ==
    IF v = 0 THEN LittleEndian(0, 8)
    ELSE LET e == Log2(v)  biased == 1023 + e
         IN  <<0, 0, 0, 0, 0, 0, (biased % 16) * 16 + (v - 2^e) * 2^(4 - e),
               biased \div 16>>

\* Mutant: the exponent unbiased by 1022.
ByteArrayToFloat64OffByOne(b) ==
    IF \A i \in 1 .. 8 : b[i] = 0 THEN 0
    ELSE LET e == b[8] * 16 + b[7] \div 16 - 1022
         IN  2^e + ((b[7] % 16) * 2^e) \div 16

ByteArrayToFloat64(b) ==
    IF \A i \in 1 .. 8 : b[i] = 0 THEN 0
    ELSE LET e == b[8] * 16 + b[7] \div 16 - 1023
         IN  2^e + ((b[7] % 16) * 2^e) \div 16

BoolToByteArray(v) == <<IF v THEN 1 ELSE 0>>
ByteArrayToBool(b) == b[1] # 0

\* Zero-padded to STRINGBYTELENGTH, or cut to it.
StringToByteArray(s) ==
    IF Len(s) > STRINGBYTELENGTH THEN SubSeq(s, 1, STRINGBYTELENGTH)
    ELSE s \o [i \in 1 .. STRINGBYTELENGTH - Len(s) |-> 0]
\* bytes.Trim of the zero bytes at both ends.
ByteArrayToString(b) ==
    LET nz == {i \in DOMAIN b : b[i] # 0}
    IN  IF nz = {} THEN <<>> ELSE SubSeq(b, Min(nz), Max(nz))

-----------------------------------------------------------------------------
(* Column types and widths (util.go 118-146, convert_result.go 491-537).   *)

\* "time[int64],name[string]," and one float64 per field of the segment.
DataTypeFromColumn(colLen) ==
    IF colLen <= 2 THEN <<>>
    ELSE <<"int64", "string">> \o [i \in 1 .. colLen - 2 |-> "float64"]

Width(d) == CASE d = "bool" -> 1 [] d = "string" -> STRINGBYTELENGTH [] OTHER -> 8

\* Column 1, the name, is not stored in the rows.
BytesPerLine(datatypes) ==
    FoldLeft(+, 0, [i \in DOMAIN datatypes |->
                      IF i = 2 /\ datatypes[i] = "string" THEN 0
                      ELSE Width(datatypes[i])])

\* A nil value is written as the zero of its type.
InterfaceToByteArray(datatype, value) ==
    CASE datatype = "bool"    -> BoolToByteArray(value # Null /\ value)
      [] datatype = "int64"   -> Int64ToByteArray(IF value = Null THEN 0 ELSE value)
      [] datatype = "float64" -> Float64ToByteArray(IF value = Null THEN 0 ELSE value)
      [] OTHER                -> StringToByteArray(IF value = Null THEN <<0>> ELSE value)

\* Every column but the name.
RowBytes(row, datatypes) ==
    FlattenSeq([j \in DOMAIN row |->
                  IF j = 2 THEN <<>> ELSE InterfaceToByteArray(datatypes[j], row[j])])

-----------------------------------------------------------------------------
(* Segment keys (semantic_segment.go 8-29, util.go 77-85).                 *)

\* "{(metric.name=value)}partial" for each tag, or the star segment when
\* the query names no tag.
SegKey(t) == <<LBrace, LParen>> \o Metric \o <<Dot>> \o TagKey \o <<Eq>>
               \o TagValue(t) \o <<RParen, RBrace>> \o Partial
GetStarSegment == <<LBrace, LParen>> \o Metric \o <<Dot, Star, RParen, RBrace>> \o Partial
GetSingleSegment(tags) ==
    IF tags = <<>> THEN <<GetStarSegment>> ELSE [i \in DOMAIN tags |-> SegKey(tags[i])]

\* segment " " followed by the byte length of the rows, then the rows.
SeriesBytes(segment, byteLen, data) ==
    segment \o <<Space>> \o Int64ToByteArray(byteLen) \o data
EmptyResultByteArray(segment) == SeriesBytes(segment, 0, <<>>)

-----------------------------------------------------------------------------
(* ResponseInterfaceToByteArrayWithParams (convert_result.go 309-404).     *)

\* "for segIdx < len(tags) { if segTag != curTag { empty; segIdx++ } else
\* { break } }": the 0-based index of the first tag from segIdx on that is
\* tag, len(tags) if there is none.
SkipTo(tags, segIdx, tag) ==
    LET hits == {k \in segIdx .. Len(tags) - 1 : tags[k + 1] = tag}
    IN  IF hits = {} THEN Len(tags) ELSE Min(hits)

\* The empty records of segments from .. to - 1.
Empties(segments, from, to) ==
    FlattenSeq([k \in 1 .. to - from |-> EmptyResultByteArray(segments[from + k])])

\* The loop state: result, dataBytes, curTag, curLines, segIdx and
\* numberOfTable.  CloseSeries writes the rows gathered for curTag under
\* the next segment of that tag, after empty records for those skipped.
\* Mutant: the empty records written for skipped tags are not counted.
CloseSeriesUncounted(st, tags, datatypes) ==
    LET segments == GetSingleSegment(tags)
        k == SkipTo(tags, st.segIdx, st.curTag)
    IN  [st EXCEPT
           !.result = @ \o Empties(segments, st.segIdx, k)
                        \o SeriesBytes(segments[k + 1],
                                       BytesPerLine(datatypes) * st.curLines,
                                       st.dataBytes),
           !.dataBytes = <<>>, !.curLines = 0,
           !.segIdx = k + 1, !.numberOfTable = @ + 1]
CloseSeries(st, tags, datatypes) ==
    LET segments == GetSingleSegment(tags)
        k == SkipTo(tags, st.segIdx, st.curTag)
    IN  [st EXCEPT
           !.result = @ \o Empties(segments, st.segIdx, k)
                        \o SeriesBytes(segments[k + 1],
                                       BytesPerLine(datatypes) * st.curLines,
                                       st.dataBytes),
           !.dataBytes = <<>>, !.curLines = 0,
           !.segIdx = k + 1, !.numberOfTable = @ + (k - st.segIdx) + 1]

RECURSIVE EncodeRows(_, _, _, _)
EncodeRows(respData, datatypes, tags, st) ==
    IF respData = <<>> THEN st
    ELSE LET row == Head(respData)
             st1 == IF row[2] # st.curTag
                    THEN [CloseSeries(st, tags, datatypes) EXCEPT !.curTag = row[2]]
                    ELSE st
         IN  EncodeRows(Tail(respData), datatypes, tags,
                        [st1 EXCEPT !.curLines = @ + 1,
                                    !.dataBytes = @ \o RowBytes(row, datatypes)])

\* <<bytes, numberOfTable>>.
ResponseInterfaceToByteArrayWithParams(respData, datatypes, tags) ==
    LET segments == GetSingleSegment(tags) IN
    IF respData = <<>> THEN <<Empties(segments, 0, Len(segments)), Len(segments)>>
    ELSE LET st0 == [result |-> <<>>, dataBytes |-> <<>>, curTag |-> respData[1][2],
                     curLines |-> 0, segIdx |-> 0, numberOfTable |-> 0]
             st1 == EncodeRows(respData, datatypes, tags, st0)
             st2 == CloseSeries(st1, tags, datatypes)
             k   == SkipTo(tags, st2.segIdx, st1.curTag)
         IN  <<st2.result \o Empties(segments, st2.segIdx, k),
               st2.numberOfTable + (k - st2.segIdx)>>

\* STsCacheClientSeg's own loop for a nil response (client.go 91-100, and
\* 130-137 for the flagged tags): an empty record per segment.
PlaceholderBytes(tags) ==
    LET segments == GetSingleSegment(tags)
    IN  <<Empties(segments, 0, Len(segments)), Len(segments)>>

-----------------------------------------------------------------------------
(* The store's side of the entry (spec.md §3 CacheEntry, §6; the server is *)
(* not in this repository).  Set receives the client's records, "segment   *)
(* len rows"; Get answers each record with its hit flag and, when the flag *)
(* is 1, the missing range inserted after the key, and ends with CRLF.     *)

From(s, i) == SubSeq(s, i + 1, Len(s))

RECURSIVE StoreRecords(_)
StoreRecords(b) ==
    IF b = <<>> THEN <<>>
    ELSE LET keyEnd == IndexOf(b, Space)
             byteLen == ByteArrayToInt64(Slice(b, keyEnd + 1, keyEnd + 9))
             next == keyEnd + 9 + byteLen
         IN  <<[key |-> Slice(b, 0, keyEnd), rows |-> Slice(b, keyEnd + 9, next)]>>
               \o StoreRecords(From(b, next))

StoreGet(records, flags, ranges) ==
    FlattenSeq([i \in DOMAIN records |->
        records[i].key \o <<Space, flags[i]>>
        \o (IF flags[i] = 1 THEN Int64ToByteArray(ranges[i][1]) \o Int64ToByteArray(ranges[i][2])
            ELSE <<>>)
        \o Int64ToByteArray(Len(records[i].rows)) \o records[i].rows])
    \o <<CR, LF>>

-----------------------------------------------------------------------------
(* ByteArrayToResponseWithDatatype (convert_result.go 16-210).             *)

\* One column of one row; the name, column 1, is the tag cut from the key.
DecodeValue(datatype, b) ==
    CASE datatype = "string"  -> ByteArrayToString(b)
      [] datatype = "bool"    -> ByteArrayToBool(b)
      [] datatype = "int64"   -> ByteArrayToInt64(b)
      [] OTHER                -> ByteArrayToFloat64(b)

\* The row of the rows at index; columns are read one after another.
DecodeRow(b, datatypes, index, tag) ==
    LET off(j) == index + FoldLeft(+, 0, [k \in 1 .. j - 1 |->
                                             IF k = 2 THEN 0 ELSE Width(datatypes[k])])
    IN  [j \in DOMAIN datatypes |->
           IF j = 2 THEN tag
           ELSE DecodeValue(datatypes[j], Slice(b, off(j), off(j) + Width(datatypes[j])))]

\* The loop over records: the key up to the space, the flag, the range if
\* the flag is 1, the length, then len / BytesPerLine rows.  A buffer that
\* does not end in CRLF, or a record that does not start with "{(", stops
\* the process (log.Fatal, or a slice of an empty key).
RECURSIVE DecodeLoop(_, _, _, _)
DecodeLoop(b, datatypes, index, acc) ==
    IF index >= Len(b) THEN acc
    ELSE IF index = Len(b) - 2
    THEN IF b[index + 1] = CR /\ b[index + 2] = LF THEN acc ELSE [acc EXCEPT !.ok = FALSE]
    ELSE IF ~(b[index + 1] = LBrace /\ b[index + 2] = LParen) THEN [acc EXCEPT !.ok = FALSE]
    ELSE
    LET keyEnd == index + IndexOf(From(b, index), Space)
        curSeg == Slice(b, index, keyEnd)
        flag   == b[keyEnd + 2]
        lenAt  == IF flag = 1 THEN keyEnd + 18 ELSE keyEnd + 2
        range  == IF flag = 1
                  THEN <<ByteArrayToInt64(Slice(b, keyEnd + 2, keyEnd + 10)),
                         ByteArrayToInt64(Slice(b, keyEnd + 10, keyEnd + 18))>>
                  ELSE <<0, 0>>
        curLen == ByteArrayToInt64(Slice(b, lenAt, lenAt + 8))
        bpl    == BytesPerLine(datatypes)
        lines  == curLen \div bpl
        tag    == Slice(curSeg, IndexOf(curSeg, Eq) + 1, IndexOf(curSeg, RParen))
        values == [l \in 1 .. lines |->
                     DecodeRow(b, datatypes, lenAt + 8 + (l - 1) * bpl, tag)]
    IN  DecodeLoop(b, datatypes, lenAt + 8 + lines * bpl,
                   [acc EXCEPT !.valuess = Append(@, values),
                               !.segments = Append(@, curSeg),
                               !.flagNum = @ + (IF flag = 1 THEN 1 ELSE 0),
                               !.flagArr = Append(@, flag),
                               !.timeRangeArr = Append(@, range)])

\* The tag of each key, "name" and "value" of "{(metric.name=value)}...";
\* a key without "=" other than the star segment ends the loop.
RECURSIVE TagArrOf(_)
TagArrOf(segments) ==
    IF segments = <<>> THEN <<>>
    ELSE LET s       == Head(segments)
             message == IF IndexOf(s, Hash) < 0 THEN s ELSE Slice(s, 0, IndexOf(s, Hash))
             ssm     == Slice(message, 2, Len(message) - 2)
             merged  == IF IndexOf(ssm, Comma) < 0 THEN ssm ELSE Slice(ssm, 0, IndexOf(ssm, Comma))
             tag     == From(merged, IndexOf(merged, Dot) + 1)
             eqIdx   == IndexOf(tag, Eq)
         IN  IF eqIdx <= 0
             THEN IF tag = <<Star>> THEN TagArrOf(Tail(segments)) ELSE <<>>
             ELSE <<<<Slice(tag, 0, eqIdx), From(tag, eqIdx + 1)>>>> \o TagArrOf(Tail(segments))

\* [ok, valuess, flagNum, flagArr, timeRangeArr, tagArr]; ok is FALSE
\* where the process would stop.  An empty buffer decodes to nothing.
ByteArrayToResponseWithDatatype(b, datatypes) ==
    LET acc == DecodeLoop(b, datatypes, 0,
                 [ok |-> TRUE, valuess |-> <<>>, segments |-> <<>>, flagNum |-> 0,
                  flagArr |-> <<>>, timeRangeArr |-> <<>>])
    IN  [ok |-> acc.ok, valuess |-> acc.valuess, flagNum |-> acc.flagNum,
         flagArr |-> acc.flagArr, timeRangeArr |-> acc.timeRangeArr,
         tagArr |-> IF acc.ok THEN TagArrOf(acc.segments) ELSE <<>>]

=============================================================================
