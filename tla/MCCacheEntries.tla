--------------------------- MODULE MCCacheEntries ---------------------------
(* One cache entry, from either client, through the one STsCache server:   *)
(* TsdbEntry for the TimescaleDB client, InfluxEntry for the InfluxDB      *)
(* client, on the same store variables.  client is which binary Set it.    *)
EXTENDS TLC

CONSTANTS Null, STRINGBYTELENGTH, NumTags, Times, Values, NumFields, Aggregated, FieldType,
          GroupByTag

VARIABLES client, phase, stmt, tags, db, rows, sent, records, flags, ranges, got, decoded

Tsdb   == INSTANCE TsdbEntry
Influx == INSTANCE InfluxEntry WITH resp <- rows

vars == <<client, phase, stmt, tags, db, rows, sent, records, flags, ranges, got, decoded>>

Init ==
    \/ client = "tsdb" /\ stmt = "full" /\ db = <<>> /\ Tsdb!Init
    \/ client = "influx" /\ Influx!Init

Next ==
    /\ UNCHANGED client
    /\ \/ client = "tsdb" /\ Tsdb!Next /\ UNCHANGED <<stmt, db>>
       \/ client = "influx" /\ Influx!Next

Spec == Init /\ [][Next]_vars

TypeOK ==
    /\ client \in {"tsdb", "influx"}
    /\ client = "tsdb" => Tsdb!TypeOK
    /\ client = "influx" => Influx!TypeOK

(* RoundTrip: an entry the TimescaleDB client Set decodes, after a Get, to *)
(* one series per requested tag with exactly its rows (TsdbEntry).         *)
RoundTrip == client = "tsdb" => Tsdb!RoundTrip

(* TableCount: NumOfTables of a TimescaleDB entry is its number of records *)
(* (TsdbEntry).                                                            *)
TableCount == client = "tsdb" => Tsdb!TableCount

(* InfluxRoundTrip: an entry the InfluxDB client Set, from a full or a     *)
(* remainder answer, decodes to one series per requested tag with its      *)
(* name, tags, columns and rows (InfluxEntry).                             *)
InfluxRoundTrip == client = "influx" => Influx!InfluxRoundTrip

(* InfluxTableCount: NumOfTables of an InfluxDB entry is its number of     *)
(* records (InfluxEntry).                                                  *)
InfluxTableCount == client = "influx" => Influx!InfluxTableCount

\* Two bucket times; 0, a power of two and a number with a mantissa bit.
MCTimes == {1, 2}
MCValues == {0, 2, 3}
=============================================================================
