SPECIFICATION FairSpec
CONSTANTS
    q1 = q1
    q2 = q2
    Orders = {o1}
    OtherStatuses = {}
    Edited = {}
    MaxIntents = 1
    Requests = {q1}
    Workers = {w1}
    MaxRetries = 2
    MaxCount = 3
    MaxFaults = 1
CHECK_DEADLOCK FALSE
PROPERTY ExhaustedRefundsFail
