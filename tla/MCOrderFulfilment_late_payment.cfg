SPECIFICATION Spec
CONSTANTS
    v1 = v1
    v2 = v2
    Variants = {v1, v2}
    MaxOrders = 2
    MaxQty = 1
    Carts <- SomeCarts
    InitialStock <- SomeStock
    Requests = {q1}
    OperatorMoves <- ForwardMoves
    RawMoves <- NoMoves
    PaymentFinds = {"PENDING", "CANCELLED"}
CHECK_DEADLOCK FALSE
INVARIANTS
    ReservedIsOwed
