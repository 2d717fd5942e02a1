SPECIFICATION Spec
CONSTANTS
    Devices = {d1}
    Invites = {i1, i2}
    Requests = {r1, r2}
    Grants = {g1}
    None = None
    Limit = 2
    MaxInstances = 2
SYMMETRY Symmetry
INVARIANTS
    LiveNeedsConsent
    OneLiveSession
PROPERTIES
    ApprovalStartsOver
CHECK_DEADLOCK FALSE
