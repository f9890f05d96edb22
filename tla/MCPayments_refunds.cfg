SPECIFICATION Spec
CONSTANTS
    q1 = q1
    q2 = q2
    Orders = {o1}
    OtherStatuses = {}
    Edited = {o1}
    MaxIntents = 1
    Requests = {q1, q2}
    Workers = {w1}
    MaxRetries = 1
    MaxCount = 1
    MaxFaults = 1
CHECK_DEADLOCK FALSE
SYMMETRY Symmetry
INVARIANT TypeOK
PROPERTIES
    ImplementsTwoPhaseRefund
    RefundedIsNotPaidAgain
