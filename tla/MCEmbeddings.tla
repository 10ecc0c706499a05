---------------------------- MODULE MCEmbeddings -----------------------------
(* TLC instance of Embeddings. *)
EXTENDS Embeddings
==============================================================================
