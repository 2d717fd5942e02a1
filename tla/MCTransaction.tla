---------------------------- MODULE MCTransaction ---------------------------
(* Model-checking instance of TransactionRunner.                             *)
EXTENDS TransactionRunner, TLC

\* Callers, payloads and connections are alike.
Symmetry == Permutations(Callers) \cup Permutations(Payloads) \cup Permutations(Conns)
=============================================================================
