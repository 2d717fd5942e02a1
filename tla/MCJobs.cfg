SPECIFICATION Spec
CONSTANTS
  MaxOperated = 3
  JobTasks = {"top", "mid"}
  Requests <- MCRequests
  LimitMoney <- MCLimit
  LimitRisk <- MCLimit
  Deadline <- MCDeadline
  Dependencies <- MCDependencies
  Bound = {"top", "mid"}
  Workers = {w1, w2}
  Leases = {1}
  Threshold = 1
  Cooldown = 1
  Recovery = 1
  MaxStep = 2
  MaxAmount = 2
  HistoryLimit = 16
  MaxReservations = 2
  MaxCircuits = 1
  MaxTime = 2
  MaxJobVersion = 5
  Evidence = {"result", "expired"}
  LeaseLost = "expired"
SYMMETRY MCSymmetry
CONSTRAINT MCBound
INVARIANTS
  OneStepPerTask
  JobMatchesReservation
  RequiredTasksFirst
PROPERTIES
  StepOnlyToHolder
CHECK_DEADLOCK FALSE
