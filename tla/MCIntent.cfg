SPECIFICATION Spec
CONSTANTS
  Requests <- MCRequests
  Warrants <- MCWarrants
  Roots <- MCRoots
  LimitMoney <- MCLimit
  LimitRisk <- MCLimit
  VerdictOf <- MCVerdictOf
  Callers = {k1, k2}
  Sessions = {s1, s2}
  Liability = "liability"
  Resolutions = {"applied", "refused"}
  Evidence = {"liability", "applied", "refused"}
  Threshold = 3
  Cooldown = 1
  Recovery = 1
  MaxStep = 1
  MaxAmount = 2
  HistoryLimit = 8
  MaxReservations = 2
  MaxCircuits = 1
  MaxVersion = 5
  MaxTime = 1
CONSTRAINT MCBound
SYMMETRY MCSymmetry
INVARIANTS
  OneUsePerDecision
  IntentsStayReadable
  DeliveredIsTrue
  SentWasConsumed
PROPERTIES
  RevokedGrantsNothing
  ImplementsSerialEffects
CHECK_DEADLOCK FALSE
