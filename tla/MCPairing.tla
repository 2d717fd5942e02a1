------------------------------ MODULE MCPairing -----------------------------
(* Model-checking instance of Pairing.                                       *)
EXTENDS Pairing, TLC

Symmetry == Permutations(Invites) \cup Permutations(Requests) \cup Permutations(Grants)
=============================================================================
