\* Two workers, two tag-combinations, five time points, dense data, one
\* failed database round-trip.
CONSTANTS
    w1 = w1
    w2 = w2
    Workers <- MCWorkers
    NumTags = 2
    MaxTime = 5
    Data <- DenseData
    Queries <- MCQueries
    Threshold = 1
    MaxDbFailures = 1
    MaxQueries = 3
SPECIFICATION Spec
SYMMETRY MCSymmetry
INVARIANTS
    TypeOK
    StoreFaithful
    ResultSound
