CONSTANTS
    w1 = w1
    w2 = w2
    Workers <- MCWorkers
    NumTags = 2
    MaxTime = 5
    Data <- DenseData
    Queries <- MCQueries
    Threshold = 1
    GroupByTime = FALSE
    MaxDbFailures = 0
    MaxQueries = 3
SPECIFICATION Spec
SYMMETRY MCSymmetry
INVARIANTS
    StoreFaithful
