-------------------------- MODULE MCPersonalMemory --------------------------
(* Model-checking instance of PersonalMemory: two candidates, the second of  *)
(* which replaces the first, in a slot with room for none, one or both.      *)
EXTENDS PersonalMemory, TLC

CONSTANTS old, new

\* CandidateDraft.supersedes_patch_id of the two candidates.
Replaces == [p \in {old, new} |-> IF p = new THEN old ELSE None]

ASSUME InstanceAssumption == MemoryAssumption

\* Challenge ids and manifest versions are compared, and nothing else.
Symmetry == {c @@ m : c \in Permutations(Challenges), m \in Permutations(Manifests)}
=============================================================================
