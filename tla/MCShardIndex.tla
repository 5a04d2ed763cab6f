---------------------------- MODULE MCShardIndex ----------------------------
EXTENDS ShardIndex, TLC

CONSTANTS w1, w2, f1, f2, f3

MCWorkers == {w1, w2}
MCFieldLists == {f1, f2, f3}

\* Shards depend on the order field lists are first seen, not on which
\* they are, and workers are interchangeable.
MCSymmetry == Permutations(MCWorkers) \cup Permutations(MCFieldLists)

=============================================================================
