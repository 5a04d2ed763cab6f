\* STsCacheClient on queries of two field lists whose templates are both
\* "" (no "WHERE (..) AND"), e.g. double-groupby and groupby-orderby-limit.
CONSTANTS
    w1 = w1
    w2 = w2
    f1 = f1
    f2 = f2
    f3 = f3
    NoWorker = NoWorker
    Workers <- MCWorkers
    FieldLists <- MCFieldLists
    Untemplated = {f1, f2}
    CacheNum = 2
    Locked = TRUE
    MaxCalls = 4
SPECIFICATION Spec
INVARIANTS
    SegmentFaithful
