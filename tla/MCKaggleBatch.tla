--------------------------- MODULE MCKaggleBatch ---------------------------
(* The instance of KaggleBatch for TLC: two executions of any programs. *)
EXTENDS KaggleBatch
=============================================================================
