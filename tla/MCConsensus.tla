----------------------------- MODULE MCConsensus ------------------------------
(* Model-checking instances of Consensus; the constants are in the .cfg files.*)
EXTENDS Consensus, TLC

Interchangeable == Permutations(Conns) \cup Permutations(Jobs) \cup Permutations(Values)
=============================================================================
