\* The InfluxDB client on a query that filters on two tag values but
\* groups by time only (cpu-max-all, single-groupby): one series comes back.
CONSTANTS
    Null = Null
    STRINGBYTELENGTH = 32
    NumTags = 2
    Times <- MCTimes
    Values <- MCValues
    NumFields = 1
    Aggregated = TRUE
    FieldType = "float64"
    GroupByTag = FALSE
SPECIFICATION Spec
INVARIANTS
    InfluxRoundTrip
