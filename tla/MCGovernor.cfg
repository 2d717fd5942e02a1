SPECIFICATION Spec
CONSTANTS
  Requests <- MCRequests
  LimitMoney <- MCLimitMoney
  LimitRisk <- MCLimitRisk
  ReviewLimits <- MCReviewLimits
  Threshold = 1
  Cooldown = 1
  Recovery = 2
  MaxStep = 1
  MaxAmount = 20
  HistoryLimit = 6
  MaxReservations = 3
  MaxCircuits = 1
  MaxTime = 2
  Evidence = {"ev"}
  ReviewIds = {"m1"}
INVARIANTS
  PermitOnceNeverRefunded
  PermitsWithinBudget
  EpochFencing
  CircuitIntegrity
PROPERTIES
  KillBarrier
CHECK_DEADLOCK FALSE
