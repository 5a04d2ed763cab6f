\* The benchmark pool running STsCacheClientSeg, which calls the shard
\* choice without mtx.
CONSTANTS
    w1 = w1
    w2 = w2
    f1 = f1
    f2 = f2
    f3 = f3
    NoWorker = NoWorker
    Workers <- MCWorkers
    FieldLists <- MCFieldLists
    Untemplated = {}
    CacheNum = 2
    Locked = FALSE
    FileQueries = 4
    Limit = 3
    BurnIn = 1
    PrewarmQueries = TRUE
    HitKinds = {0, 1, 2}
SPECIFICATION Spec
SYMMETRY MCSymmetry
INVARIANTS
    ShardStable
