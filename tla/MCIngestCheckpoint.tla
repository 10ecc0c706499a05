------------------------- MODULE MCIngestCheckpoint --------------------------
(* Model-checking instances of IngestCheckpoint; the constants are in the     *)
(* .cfg files.                                                                *)
EXTENDS IngestCheckpoint

\* Variants before and after products whose variants they are not.
OrphansAround == <<3, 1, 2, 4>>
=============================================================================
