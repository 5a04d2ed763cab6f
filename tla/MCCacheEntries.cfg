\* Either client's entry: two tags, two times, one float64 field, no NULLs;
\* InfluxDB queries with an aggregate.
CONSTANTS
    Null = Null
    STRINGBYTELENGTH = 32
    NumTags = 2
    Times <- MCTimes
    Values <- MCValues
    NumFields = 1
    Aggregated = TRUE
    FieldType = "float64"
    GroupByTag = TRUE
SPECIFICATION Spec
INVARIANTS
    RoundTrip
    TableCount
    InfluxRoundTrip
    InfluxTableCount
