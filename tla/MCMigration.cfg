SPECIFICATION SchemaSpec
CONSTANTS
    Executors = {e1, e2}
    RoleCount = 1
    Counts <- MCCounts
    PreludeCount = 1
    Idempotent <- MCIdempotent
    Visible <- MCVisible
    Checked <- MCChecked
    Droppable <- MCDroppable
    Absent = Absent
    MaxFaults = 3
SYMMETRY Symmetry
INVARIANTS
    CertifiedIsComplete
    GapNotReplayed
    RowsAreTrue
CHECK_DEADLOCK FALSE
