----------------------------- MODULE MCWatchSet ----------------------------
EXTENDS WatchSet, TLC

CONSTANTS w1, w2

\* w1 selects everything, w2 only the first and the last event of a writer.
MCSelected == w1 :> Event @@ w2 :> {e \in Event : e.n \in {1, MaxEvents}}

\* Writers are alike: Selected is the same for all of them.
WriterSymmetry == Permutations(Writer)
=============================================================================
