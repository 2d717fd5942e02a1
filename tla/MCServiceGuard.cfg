SPECIFICATION FairSpec
CONSTANTS
  Ops = {o1}
  Validity = {1}
  Proposals = {0, 1, 2}
  MaxTime = 2
  MaxRevision = 3
  MaxFaults = 3
INVARIANTS
  EffectOnApprovedState
  OneAttempt
  RiskFollowsEffect
PROPERTIES
  EffectIsVerified
  NothingSentAfterRevoke
