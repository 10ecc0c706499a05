----------------------------- MODULE MCBulkLock ------------------------------
(* The model-checking instance of BulkLock; its constants are in the .cfg.    *)
EXTENDS BulkLock
=============================================================================
