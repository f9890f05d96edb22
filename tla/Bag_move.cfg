SPECIFICATION BagSpec
CONSTANTS
    Errands = {e1, e2}
    MinOrderQty = 1
    MaxOrderQty = 2
    MaxAsked = 2
    MaxRows = 2
CHECK_DEADLOCK FALSE
INVARIANTS
    MoveRespectsCap
