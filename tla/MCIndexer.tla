----------------------------- MODULE MCIndexer -----------------------------
(* Values of the constants of Indexer for TLC. *)
EXTENDS Indexer, TLC

\* Concurrent runs of the indexer are alike.
MCSymmetry == Permutations(Runs)
=============================================================================
