SPECIFICATION FlashSpec
CONSTANTS
    v1 = v1
    Variants = {v1}
    Users = {u1, u2}
    Requests = {q1, q2}
    Pods = {p1, p2}
    MaxReservations = 2
    MaxQty = 2
    Cap = 1
    Carts <- OneVariantCarts
    InitialStock <- OneVariantStock
    StockLevels = {3}
    VariantEdits = {3}
    Faults = TRUE
CHECK_DEADLOCK FALSE
SYMMETRY Symmetry
INVARIANTS
    FlashTypeOK
    ReservedIsHeld
    OneOrderPerReservation
    NoOversell
    ReservedCacheInSync
PROPERTIES
    ImplementsReservation
