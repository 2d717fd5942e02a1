------------------------------- MODULE MCJobs -------------------------------
EXTENDS Jobs, TLC
CONSTANT JobTasks, MaxOperated
MCRequests ==
  {[id |-> t, task |-> t, provider |-> "nebius", money |-> 1, risk |-> 1] : t \in JobTasks}
MCLimit    == [l \in Levels |-> 2]
MCDeadline == [t \in JobTasks |-> IF t = "top" THEN 2 ELSE 1]
\* top always requires mid; mid is submitted on its own, or closes a cycle.
MCDependencies ==
  [t \in JobTasks |-> IF t = "top" THEN {{"mid"}} ELSE {{}, {"top"}}]
MCSymmetry == Permutations(Workers)
\* The governor writes that no job made.
MCOperated == gov.version - MapThenSumSet(LAMBDA t : job[t].version, Tasks)
MCBound    == MCOperated <= MaxOperated
=============================================================================
