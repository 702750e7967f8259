--------------------------- MODULE MCWorkerUpkeep ---------------------------
(* The instance of WorkerUpkeep for TLC. *)
EXTENDS WorkerUpkeep
=============================================================================
