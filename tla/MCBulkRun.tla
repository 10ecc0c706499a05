----------------------------- MODULE MCBulkRun -------------------------------
(* Model-checking instances of BulkRun; the constants are in the .cfg files.  *)
EXTENDS BulkRun, TLC

\* Workers are interchangeable, and so are operations nobody has started: used
\* by the runs that check no liveness property.
WorkersAndOps == Permutations(Workers) \cup Permutations(Ops)
=============================================================================
