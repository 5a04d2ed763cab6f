\* Two tag-combinations, four time points with no rows at the last (the
\* query runs past the loaded data), no database failures.
CONSTANTS
    w1 = w1
    w2 = w2
    Workers <- MCWorkers
    NumTags = 2
    MaxTime = 4
    Data <- EndingData
    Queries <- MCQueries
    Threshold = 1
    GroupByTime = TRUE
    MaxDbFailures = 0
    MaxQueries = 2
SPECIFICATION Spec
SYMMETRY MCSymmetry
INVARIANTS
    StoreFaithful
