SPECIFICATION Spec
CONSTANTS
    v1 = v1
    v2 = v2
    Variants = {v1, v2}
    MaxOrders = 1
    MaxQty = 1
    Carts <- SomeCarts
    InitialStock <- SomeStock
    Requests = {q1, q2}
    OperatorMoves <- ForwardMoves
    RawMoves <- NoMoves
    PaymentFinds = {"PENDING"}
CHECK_DEADLOCK FALSE
PROPERTIES
    CancelSeesStatus
