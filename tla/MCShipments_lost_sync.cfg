SPECIFICATION ShipmentsSpec
CONSTANTS
    v1 = v1
    Warehouses = {1, 2}
    Variants = {v1}
    Bought <- OneUnit
    MaxShelf = 2
    MaxOrderRows = 1
    MaxShipments = 1
    MaxRoutings = 0
    Counts = {0, 2}
    Clerks = {k1, k2}
CHECK_DEADLOCK FALSE
INVARIANTS
    CopyIsSum
