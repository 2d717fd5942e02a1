----------------------------- MODULE CommitOnce -----------------------------
(* What TransactionRunner.run promises its caller, whatever the database and *)
(* the network do: a run's writes take effect at most once; "ok" is only     *)
(* answered for writes that took effect, "failed" only for writes that never *)
(* will; "unknown" answers for both.                                         *)
EXTENDS Naturals

CONSTANT Runs

VARIABLES
    effect,   \* effect[r]: how often the writes of run r took effect
    answer    \* answer[r]: what the caller of run r was told

vars == <<effect, answer>>

Answers == {"none", "ok", "read", "unknown", "failed"}

Init ==
    /\ effect = [r \in Runs |-> 0]
    /\ answer = [r \in Runs |-> "none"]

\* The writes of an unanswered run, or of one whose outcome is unknown, land.
Apply(r) ==
    /\ answer[r] \in {"none", "unknown"}
    /\ effect[r] = 0
    /\ effect' = [effect EXCEPT ![r] = 1]
    /\ UNCHANGED answer

\* The caller learns what happened; a run that only read has no effect.
Answer(r, a) ==
    /\ answer[r] = "none"
    /\ a = "ok" => effect[r] = 1
    /\ a \in {"failed", "read"} => effect[r] = 0
    /\ answer' = [answer EXCEPT ![r] = a]
    /\ UNCHANGED effect

Next == \E r \in Runs : Apply(r) \/ \E a \in Answers \ {"none"} : Answer(r, a)

Spec == Init /\ [][Next]_vars
=============================================================================
