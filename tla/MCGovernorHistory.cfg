SPECIFICATION Spec
CONSTANTS
  Requests <- MCRequests
  LimitMoney <- MCLimitMoney
  LimitRisk <- MCLimitRisk
  ReviewLimits <- MCReviewLimits
  Threshold = 2
  Cooldown = 1
  Recovery = 2
  MaxStep = 1
  MaxAmount = 20
  HistoryLimit = 6
  MaxReservations = 3
  MaxCircuits = 1
  MaxTime = 2
  Evidence = {"ev"}
  ReviewIds = {"m1"}
INVARIANT WrittenIsLoadable
CHECK_DEADLOCK FALSE
