-------------------------- MODULE MCSessionGateway --------------------------
(* Small instances of the session gateway for TLC. *)
EXTENDS SessionGatewayRefinement, TLC

Symmetry == Permutations(Request) \union Permutations(PollTask)
=============================================================================
