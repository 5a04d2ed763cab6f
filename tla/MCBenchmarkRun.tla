--------------------------- MODULE MCBenchmarkRun ---------------------------
EXTENDS BenchmarkRun, TLC

CONSTANTS w1, w2, f1, f2, f3

MCWorkers == {w1, w2}
MCFieldLists == {f1, f2, f3}
\* Two field lists suffice for the locked pool: shards 0 and 1 both occur.
MCTwoFieldLists == {f1, f2}

\* Workers and field lists are interchangeable (safety runs only).
MCSymmetry == Permutations(MCWorkers) \cup Permutations(MCFieldLists)

=============================================================================
