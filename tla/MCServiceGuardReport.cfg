SPECIFICATION Spec
CONSTANTS
  Ops = {o1}
  Validity = {1}
  Proposals = {1}
  MaxTime = 1
  MaxRevision = 2
  MaxFaults = 1
INVARIANTS
  UnresolvedIsNotZero
