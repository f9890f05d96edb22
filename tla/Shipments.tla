------------------------------- MODULE Shipments -------------------------------
(***************************************************************************)
(* Stock over several warehouses and the shipments that take it out        *)
(* (WarehouseService): counting a shelf, routing an order, splitting it    *)
(* into one order per warehouse, and the status of a shipment.             *)
(*                                                                         *)
(* A transaction has two steps that others may come between: its writes to *)
(* WarehouseInventory, which lock the rows and which nobody else sees, and *)
(* syncVariantCache, whose sums are taken from the rows committed so far.  *)
(* Names carry a prefix because the module is checked together with others *)
(* (MCShop).                                                         *)
(***************************************************************************)
EXTENDS Integers, FiniteSets, FiniteSetsExt

CONSTANTS
    Warehouses,       \* active warehouses, in the order of their ids: 1, 2, ...
    Variants,
    Bought,           \* the items of the order that is there at first
    MaxShelf,         \* bound: units on a shelf
    Counts,           \* what a shelf may be counted to
    MaxOrderRows,     \* bound: orders, with those a split creates
    MaxShipments,     \* bound: shipments
    MaxRoutings,      \* bound: times that orders are routed or split
    Clerks            \* requests served at the same time

VARIABLES
    shelf,            \* WarehouseInventory rows, as committed
    cached,           \* Variant.stock and Variant.reservedStock
    orderRow, shipment, routings,
    settled,          \* history: deliveries and returns of a shipment that were committed
    clerk             \* todo: transactions to run; locked: the rows of the one that
                      \* has written; sums: what its sync has read

shipmentVars == <<shelf, cached, orderRow, shipment, routings, settled, clerk>>

OrderRows == 1..MaxOrderRows
ShipmentRows == 1..MaxShipments
Missing == [status |-> "NONE"]
Units == [Variants -> 0..MaxShelf]
Nothing == [v \in Variants |-> 0]
Level == [stock : 0..MaxShelf, reserved : 0..MaxShelf]
\* "UNDER_WAY" stands for PENDING, PACKED, DISPATCHED, IN_TRANSIT and FAILED, which move
\* no units.
ShipmentStatus == {"UNDER_WAY", "DELIVERED", "RTO"}

\* Warehouses are numbered by their place in the order of their ids.
ASSUME ShipmentsAssumption ==
    /\ IsFiniteSet(Warehouses) /\ Warehouses = 1..Cardinality(Warehouses)
    /\ IsFiniteSet(Clerks)
    /\ MaxShelf \in Nat /\ MaxOrderRows \in Nat \ {0} /\ MaxShipments \in Nat /\ MaxRoutings \in Nat
    /\ Bought \in Units
    /\ Counts \subseteq 0..MaxShelf

\* plan: units by warehouse; count: the stock that a shelf is set to.
Transaction ==
    [kind : {"ship", "split"}, o : OrderRows, plan : [Warehouses -> Units]]
    \cup [kind : {"DELIVERED", "RTO"}, s : ShipmentRows, plan : [Warehouses -> Units]]
    \cup [kind : {"count"}, w : Warehouses, v : Variants, stock : 0..MaxShelf]
NoWork == [stage |-> "idle", todo |-> {}]

ShipmentsTypeOK ==
    /\ shelf \in [Warehouses -> [Variants -> Level]]
    /\ \A v \in Variants : cached[v].stock \in Nat /\ cached[v].reserved \in Nat
    /\ \A o \in OrderRows : orderRow[o] = Missing \/
          orderRow[o] \in [status : {"CONFIRMED", "PROCESSING", "RETURN_REQUESTED"}, items : Units]
    /\ \A s \in ShipmentRows : shipment[s] = Missing \/
          shipment[s] \in [status : ShipmentStatus, o : OrderRows, w : Warehouses, items : Units]
    /\ routings \in 0..MaxRoutings
    /\ settled \in [ShipmentRows -> Nat]
    /\ \A k \in Clerks : clerk[k] = NoWork \/
          /\ clerk[k].stage \in {"ready", "written", "summed"}
          /\ clerk[k].todo \subseteq Transaction

\* Over the warehouses.
WarehouseSum(f) == MapThenSumSet(LAMBDA w : f[w], Warehouses)

ShipmentsInit ==
    /\ \E first \in [Warehouses -> [Variants -> 0..MaxShelf]] :
          /\ shelf = [w \in Warehouses |-> [v \in Variants |-> [stock |-> first[w][v], reserved |-> 0]]]
          /\ cached = [v \in Variants |->
                [stock    |-> WarehouseSum([w \in Warehouses |-> shelf[w][v].stock]),
                 reserved |-> WarehouseSum([w \in Warehouses |-> shelf[w][v].reserved])]]
    /\ orderRow = [o \in OrderRows |->
          IF o = 1 THEN [status |-> "CONFIRMED", items |-> Bought] ELSE Missing]
    /\ shipment = [s \in ShipmentRows |-> Missing]
    /\ routings = 0
    /\ settled = [s \in ShipmentRows |-> 0]
    /\ clerk = [k \in Clerks |-> NoWork]

-----------------------------------------------------------------------------
Available(w, v) == shelf[w][v].stock - shelf[w][v].reserved

Assign(k, todo) == clerk' = [clerk EXCEPT ![k] = [stage |-> "ready", todo |-> todo]]
Answer(k) == clerk' = [clerk EXCEPT ![k] = NoWork]

\* A new shipment or order takes the next id.
NextRow(rows) == CHOOSE i \in 1..(Cardinality(DOMAIN rows) + 1) :
    \A j \in DOMAIN rows : j < i <=> rows[j] # Missing

UpdateInventory(k, w, v, stock) ==
    /\ clerk[k] = NoWork
    /\ Assign(k, {[kind |-> "count", w |-> w, v |-> v, stock |-> stock]})
    /\ UNCHANGED <<shelf, cached, orderRow, shipment, routings, settled>>

\* The first warehouse that has everything, ...
CanFulfill(w, items) == \A v \in Variants : items[v] > 0 => Available(w, v) >= items[v]

\* Splitting without looking at what earlier warehouses give.
GreedyForgetful(items) ==
    [w \in Warehouses |-> [v \in Variants |-> Min({Max({Available(w, v), 0}), items[v]})]]

\* ... or from each in turn what it has, until an item is complete.
Greedy(items) ==
    LET given[w \in Nat] == [v \in Variants |->
            IF w = 0 THEN 0
            ELSE given[w - 1][v] + Min({Max({Available(w, v), 0}), items[v] - given[w - 1][v]})]
    IN  [w \in Warehouses |-> [v \in Variants |-> given[w][v] - given[w - 1][v]]]

RouteOrder(k, o) ==
    LET items == orderRow[o].items
        able == {w \in Warehouses : CanFulfill(w, items)}
        alone == [w \in Warehouses |-> IF w = Min(able) THEN items ELSE Nothing]
        plan == IF able # {} THEN alone ELSE Greedy(items)
        one(w) == [kind |-> "ship", o |-> o,
                   plan |-> [x \in Warehouses |-> IF x = w THEN plan[w] ELSE Nothing]]
    IN  /\ clerk[k] = NoWork
        /\ orderRow[o] # Missing
        /\ routings < MaxRoutings /\ routings' = routings + 1
        /\ \A v \in Variants : WarehouseSum([w \in Warehouses |-> plan[w][v]]) >= items[v]
        /\ Assign(k, {one(w) : w \in {x \in Warehouses : plan[x] # Nothing}})
        /\ UNCHANGED <<shelf, cached, orderRow, shipment, settled>>

\* Each item goes to the first warehouse that has it; one warehouse is no split.
SplitOrderByWarehouse(k, o) ==
    LET items == orderRow[o].items
        wanted == {v \in Variants : items[v] > 0}
        having(v) == {w \in Warehouses : Available(w, v) >= items[v]}
        plan == [w \in Warehouses |-> [v \in Variants |->
                   IF v \in wanted /\ w = Min(having(v)) THEN items[v] ELSE 0]]
    IN  /\ clerk[k] = NoWork
        /\ orderRow[o] # Missing
        /\ routings < MaxRoutings /\ routings' = routings + 1
        /\ \A v \in wanted : having(v) # {}
        /\ Cardinality({w \in Warehouses : plan[w] # Nothing}) > 1
        /\ Assign(k, {[kind |-> "split", o |-> o, plan |-> plan]})
        /\ UNCHANGED <<shelf, cached, orderRow, shipment, settled>>

\* Any status may follow any other.  It is written first, by itself; a delivery and a
\* return to the warehouse have a transaction after it, each time they are reported.
UpdateShipmentStatus(k, s, status) ==
    LET row == shipment[s]
    IN  /\ clerk[k] = NoWork
        /\ row # Missing
        /\ shipment' = [shipment EXCEPT ![s].status = status]
        /\ IF status \in {"DELIVERED", "RTO"}
           THEN Assign(k, {[kind |-> status, s |-> s,
                          plan |-> [w \in Warehouses |-> IF w = row.w THEN row.items ELSE Nothing]]})
           ELSE UNCHANGED clerk
        /\ UNCHANGED <<shelf, cached, orderRow, routings, settled>>

-----------------------------------------------------------------------------
\* Transactions.

Rows(tx) ==
    IF tx.kind = "count" THEN {<<tx.w, tx.v>>}
    ELSE {r \in Warehouses \X Variants : tx.plan[r[1]][r[2]] > 0}

\* A return that puts the units back and keeps them reserved.
WrittenStillReserved(tx, w, v) ==
    LET row == shelf[w][v]
    IN  CASE tx.kind = "count" -> [row EXCEPT !.stock = tx.stock]
          [] tx.kind \in {"ship", "split"} -> [row EXCEPT !.reserved = @ + tx.plan[w][v]]
          [] tx.kind = "DELIVERED" ->
                [stock |-> row.stock - tx.plan[w][v], reserved |-> row.reserved - tx.plan[w][v]]
          [] tx.kind = "RTO" -> [row EXCEPT !.stock = @ + tx.plan[w][v]]

\* What the transaction makes of a row.
Written(tx, w, v) ==
    LET row == shelf[w][v]
    IN  CASE tx.kind = "count" -> [row EXCEPT !.stock = tx.stock]
          [] tx.kind \in {"ship", "split"} -> [row EXCEPT !.reserved = @ + tx.plan[w][v]]
          [] tx.kind = "DELIVERED" ->
                [stock |-> row.stock - tx.plan[w][v], reserved |-> row.reserved - tx.plan[w][v]]
          [] tx.kind = "RTO" ->
                [stock |-> row.stock + tx.plan[w][v], reserved |-> row.reserved - tx.plan[w][v]]

Checks(level) == 0 <= level.reserved /\ level.reserved <= level.stock

Locked(k) == IF clerk[k].stage \in {"written", "summed"} THEN Rows(clerk[k].tx) ELSE {}

\* The writes; a row that breaks a CHECK ends the request.
WriteRows(k, tx) ==
    /\ clerk[k].stage = "ready"
    /\ tx \in clerk[k].todo
    /\ \A other \in Clerks \ {k} : Locked(other) \cap Rows(tx) = {}
    /\ \A r \in Rows(tx) : Written(tx, r[1], r[2]).stock <= MaxShelf
    /\ IF \A r \in Rows(tx) : Checks(Written(tx, r[1], r[2]))
       THEN clerk' = [clerk EXCEPT ![k] =
               [stage |-> "written", todo |-> clerk[k].todo, tx |-> tx]]
       ELSE Answer(k)
    /\ UNCHANGED <<shelf, cached, orderRow, shipment, routings, settled>>

\* Its own rows as it wrote them, those of others as they were committed.
Seen(tx, w, v) == IF <<w, v>> \in Rows(tx) THEN Written(tx, w, v) ELSE shelf[w][v]

\* Taking the rows of one warehouse for the variant.
SyncOneWarehouse(k) ==
    LET tx == clerk[k].tx
        of(v, w) == Seen(tx, w, v)
    IN  /\ clerk[k].stage = "written"
        /\ clerk' = [clerk EXCEPT ![k] = [stage |-> "summed", todo |-> clerk[k].todo, tx |-> tx,
              sums |-> [v \in {r[2] : r \in Rows(tx)} |->
                 of(v, (CHOOSE r \in Rows(tx) : r[2] = v)[1])]]]
        /\ UNCHANGED <<shelf, cached, orderRow, shipment, routings, settled>>

SyncVariantCache(k) ==
    LET tx == clerk[k].tx
    IN  /\ clerk[k].stage = "written"
        /\ clerk' = [clerk EXCEPT ![k] = [stage |-> "summed", todo |-> clerk[k].todo, tx |-> tx,
              sums |-> [v \in {r[2] : r \in Rows(tx)} |->
                 [stock    |-> WarehouseSum([w \in Warehouses |-> Seen(tx, w, v).stock]),
                  reserved |-> WarehouseSum([w \in Warehouses |-> Seen(tx, w, v).reserved])]]]]
        /\ UNCHANGED <<shelf, cached, orderRow, shipment, routings, settled>>

\* createShipment in the transaction; a split creates an order for each warehouse.
Create(tx) ==
    LET used == {w \in Warehouses : tx.plan[w] # Nothing}
        place(w) == Cardinality({x \in used : x < w})
        newShipment == NextRow(shipment)
        newOrder == NextRow(orderRow)
        for(w) == IF tx.kind = "split" THEN newOrder + place(w) ELSE tx.o
        rows == {[id |-> newShipment + place(w), o |-> for(w), w |-> w, items |-> tx.plan[w]] : w \in used}
    IN  /\ \A r \in rows : r.id \in ShipmentRows /\ r.o \in OrderRows
        /\ shipment' = [s \in ShipmentRows |->
              IF \E r \in rows : r.id = s
              THEN LET r == CHOOSE x \in rows : x.id = s
                   IN  [status |-> "UNDER_WAY", o |-> r.o, w |-> r.w, items |-> r.items]
              ELSE shipment[s]]
        /\ IF tx.kind = "ship" THEN UNCHANGED orderRow
           ELSE orderRow' = [o \in OrderRows |->
                  IF o = tx.o THEN [orderRow[o] EXCEPT !.status = "PROCESSING"]
                  ELSE IF \E r \in rows : r.o = o
                  THEN [status |-> "CONFIRMED", items |-> (CHOOSE r \in rows : r.o = o).items]
                  ELSE orderRow[o]]

Commit(k) ==
    LET tx == clerk[k].tx
        left == clerk[k].todo \ {tx}
        sums == clerk[k].sums
    IN  /\ clerk[k].stage = "summed"
        /\ shelf' = [w \in Warehouses |-> [v \in Variants |-> Seen(tx, w, v)]]
        /\ cached' = [v \in Variants |-> IF v \in DOMAIN sums THEN sums[v] ELSE cached[v]]
        /\ CASE tx.kind \in {"ship", "split"} -> Create(tx)
             [] tx.kind = "RTO" ->
                   /\ orderRow' = [orderRow EXCEPT ![shipment[tx.s].o].status = "RETURN_REQUESTED"]
                   /\ UNCHANGED shipment
             [] OTHER -> UNCHANGED <<orderRow, shipment>>
        /\ settled' = IF tx.kind \in {"DELIVERED", "RTO"}
                      THEN [settled EXCEPT ![tx.s] = @ + 1] ELSE settled
        /\ IF left = {} THEN Answer(k) ELSE Assign(k, left)
        /\ UNCHANGED routings

\* An error or a crash: what is not committed is rolled back, what is stays.
FailRequest(k) ==
    /\ clerk[k] # NoWork
    /\ Answer(k)
    /\ UNCHANGED <<shelf, cached, orderRow, shipment, routings, settled>>

ShipmentsNext ==
    \E k \in Clerks :
        \/ \E w \in Warehouses, v \in Variants, n \in Counts : UpdateInventory(k, w, v, n)
        \/ \E o \in OrderRows : RouteOrder(k, o) \/ SplitOrderByWarehouse(k, o)
        \/ \E s \in ShipmentRows, status \in ShipmentStatus : UpdateShipmentStatus(k, s, status)
        \/ \E tx \in clerk[k].todo : WriteRows(k, tx)
        \/ SyncVariantCache(k)
        \/ Commit(k)
        \/ FailRequest(k)

ShipmentsSpec == ShipmentsInit /\ [][ShipmentsNext]_shipmentVars
-----------------------------------------------------------------------------
Shipped(o) == {s \in ShipmentRows : shipment[s] # Missing /\ shipment[s].o = o}
ShelvedAt(w) == {s \in ShipmentRows : shipment[s] # Missing /\ shipment[s].w = w}
UnitsIn(S, v) == MapThenSumSet(LAMBDA s : shipment[s].items[v], S)
SettledIn(S, v) == MapThenSumSet(LAMBDA s : settled[s] * shipment[s].items[v], S)

\* warehouse.service.ts:66: the variant's stock and reservedStock are the sums
\* over the warehouses (I-1), after every transaction.
CopyIsSum ==
    \A v \in Variants :
        /\ cached[v].stock = WarehouseSum([w \in Warehouses |-> shelf[w][v].stock])
        /\ cached[v].reserved = WarehouseSum([w \in Warehouses |-> shelf[w][v].reserved])

\* warehouse.service.ts:166, :221 and :245: a shelf has reserved what its shipments have,
\* less what their deliveries and returns took, when some of the requests fail half-way
\* as well.  A shipment that arrived once or never has its own units taken or reserved;
\* one that is reported again takes units that are reserved for others.
ReservedIsUnsettled ==
    \A w \in Warehouses, v \in Variants :
        shelf[w][v].reserved + SettledIn(ShelvedAt(w), v) = UnitsIn(ShelvedAt(w), v)

\* warehouse.service.ts:125: the shipments of an order that is routed once, with
\* those still to be created, never have more units than were bought.
RoutedAsBought ==
    routings <= 1 => \A v \in Variants :
        LET planned(tx) == IF tx.kind = "ship"
                           THEN WarehouseSum([w \in Warehouses |-> tx.plan[w][v]]) ELSE 0
            coming(k) == MapThenSumSet(planned, clerk[k].todo)
        IN  UnitsIn(Shipped(1), v) + MapThenSumSet(coming, Clerks) <= Bought[v]
=============================================================================
