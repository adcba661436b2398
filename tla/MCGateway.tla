------------------------------ MODULE MCGateway ------------------------------
(* Instances of Gateway for TLC: two workers of one disk each. *)
EXTENDS Gateway, TLC

Symmetry == Permutations(Names) \cup Permutations(Workers)
=============================================================================
