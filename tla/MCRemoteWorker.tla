--------------------------- MODULE MCRemoteWorker ---------------------------
(* Symmetry of the instances of RemoteWorker that check safety. *)
EXTENDS RemoteWorker, TLC

Symmetry == Permutations(Voice) \union Permutations(Upload)
                \union Permutations(Request)
=============================================================================
