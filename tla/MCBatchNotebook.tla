-------------------------- MODULE MCBatchNotebook --------------------------
(* Instances of BatchNotebook for TLC. *)
EXTENDS BatchNotebook, TLC

Symmetry == Permutations(Name) \union Permutations(Voice)
=============================================================================
