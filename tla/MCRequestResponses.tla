------------------------- MODULE MCRequestResponses -------------------------
(* RequestResponses with interchangeable operations.                       *)
EXTENDS RequestResponses, TLC

Symmetry == Permutations(Ops)

=============================================================================
