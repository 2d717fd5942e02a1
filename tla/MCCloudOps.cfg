SPECIFICATION LiveSpec
CONSTANTS
    Runs = {r1}
    Targets = {t1}
    Nothing = Nothing
    MaxRequests = 2
    MaxFaults = 3
INVARIANTS
    ChangeIsRecognised
    SuccessIsProved
    ChangeWasApproved
PROPERTIES
    ExecutionEnds
CHECK_DEADLOCK FALSE
