\* Two workers, two field lists over two shards, input files of up to
\* four queries run with max-queries 3 and a burn-in of one; STsCacheClient
\* holds mtx around the shard choice.  The stat processor starts racing the
\* workers and Run.
CONSTANTS
    w1 = w1
    w2 = w2
    f1 = f1
    f2 = f2
    f3 = f3
    NoWorker = NoWorker
    Workers <- MCWorkers
    FieldLists <- MCTwoFieldLists
    Untemplated = {}
    CacheNum = 2
    Locked = TRUE
    FileQueries = 4
    Limit = 3
    BurnIn = 1
    PrewarmQueries = TRUE
    HitKinds = {0, 1, 2}
SPECIFICATION FairSpec
INVARIANTS
    TypeOK
    ShardStable
    NoMapRace
PROPERTIES
    
    RunCompletesAfterStart
