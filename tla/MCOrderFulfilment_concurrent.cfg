SPECIFICATION Spec
CONSTANTS
    v1 = v1
    v2 = v2
    Variants = {v1}
    MaxOrders = 2
    MaxQty = 1
    Carts <- OneVariantCarts
    InitialStock <- OneVariantStock
    Requests = {q1, q2}
    OperatorMoves <- ForwardMoves
    RawMoves <- StocklessMoves
    PaymentFinds = {"PENDING", "CANCELLED"}
CHECK_DEADLOCK FALSE
SYMMETRY Symmetry
INVARIANTS
    TypeOK
    NoOversell
    CacheInSync
