--------------------------- MODULE OrderFulfilment ---------------------------
(***************************************************************************)
(* An order from placement to return (OrdersService), with the stock it    *)
(* holds, releases and sends out.                                          *)
(*                                                                         *)
(* Handlers read the order, yield, and write later.  Even cancelOrder and  *)
(* requestReturn, which read inside their transaction, do: PostgreSQL runs *)
(* it READ COMMITTED and findFirst takes no lock.  A request therefore     *)
(* carries what it read from one step to the next.  The final writes of a  *)
(* transaction are one step: they hold their row locks until it commits.   *)
(*                                                                         *)
(* An order has at most one line per variant, so a line is named by its    *)
(* variant.  Shipments of WarehouseService are not here.                   *)
(***************************************************************************)
EXTENDS Inventory, FiniteSets

CONSTANTS
    MaxOrders,        \* bound: orders ever placed
    MaxQty,           \* bound: units in one line
    Carts,            \* contents an order may have
    InitialStock,
    Requests,         \* requests the API serves at the same time
    OperatorMoves,    \* <<seen, wanted>>: changes an operator asks for in PATCH /orders/admin/:id/status
    RawMoves,         \* the same in PATCH /admin/orders/:id/status
    PaymentFinds      \* statuses in which a payment event may find an order

Orders == 1..MaxOrders

OrderStatus ==
    {"PENDING", "CONFIRMED", "PROCESSING", "CANCELLING", "SHIPPED", "DELIVERED",
     "CANCELLED", "RETURN_REQUESTED", "RETURNED", "REFUNDED"}

ASSUME OrdersAssumption ==
    /\ MaxOrders \in Nat
    /\ MaxQty \in Nat
    /\ Carts \subseteq [Variants -> 0..MaxQty]
    /\ InitialStock \in [Variants -> Nat]
ASSUME MovesAssumption ==
    /\ OperatorMoves \subseteq OrderStatus \X OrderStatus
    /\ RawMoves \subseteq OrderStatus \X OrderStatus

VARIABLES
    orderStatus,   \* Order.status; NONE: no such row yet
    lines,         \* OrderItem.quantity of each variant
    cancelled,     \* lines with a cancelledAt
    paid,          \* a PaymentReconciliation row exists
    returned,      \* a ReturnRequest row exists
    dispatched,    \* history: units that left the warehouse for the order
    request        \* the request being served by each slot

orderVars == <<orderStatus, lines, cancelled, paid, returned, dispatched>>
vars == <<inventoryVars, orderVars, request>>

\* Committing shipped orders once more.
PreShipmentOrShipped == {"PENDING", "CONFIRMED", "PROCESSING", "SHIPPED"}

\* PRE_SHIPMENT_STATUSES
PreShipment == {"PENDING", "CONFIRMED", "PROCESSING"}

Idle == [op |-> "idle"]
Request ==
    {Idle}
    \cup [op : {"cancel", "return"}, o : Orders]
    \cup [op : {"cancelLines"}, o : Orders, lines : SUBSET Variants]
    \cup [op : {"cancelItem"}, o : Orders, line : Variants, seen : OrderStatus, rest : SUBSET Variants]
    \cup [op : {"update"}, o : Orders, to : OrderStatus, seen : OrderStatus, lines : SUBSET Variants]

TypeOK ==
    /\ InventoryTypeOK
    /\ orderStatus \in [Orders -> OrderStatus \cup {"NONE"}]
    /\ lines \in [Orders -> [Variants -> 0..MaxQty]]
    /\ cancelled \in [Orders -> SUBSET Variants]
    /\ paid \in [Orders -> BOOLEAN]
    /\ returned \in [Orders -> BOOLEAN]
    /\ dispatched \in [Orders -> [Variants -> Nat]]
    /\ request \in [Requests -> Request]

Init ==
    /\ InventoryInit(InitialStock)
    /\ orderStatus = [o \in Orders |-> "NONE"]
    /\ lines = [o \in Orders |-> [v \in Variants |-> 0]]
    /\ cancelled = [o \in Orders |-> {}]
    /\ paid = [o \in Orders |-> FALSE]
    /\ returned = [o \in Orders |-> FALSE]
    /\ dispatched = [o \in Orders |-> [v \in Variants |-> 0]]
    /\ request = [q \in Requests |-> Idle]

-----------------------------------------------------------------------------
\* Forgetting the filter cancelledAt: null.
AllLines(o) == {v \in Variants : lines[o][v] > 0}

ActiveLines(o) == {v \in Variants : lines[o][v] > 0} \ cancelled[o]

\* The units of some lines of an order.
QuantityOf(o, S) == [v \in Variants |-> IF v \in S THEN lines[o][v] ELSE 0]

SetStatus(o, s) == orderStatus' = [orderStatus EXCEPT ![o] = s]
Accept(q, req) == request[q] = Idle /\ request' = [request EXCEPT ![q] = req]
Reply(q) == request' = [request EXCEPT ![q] = Idle]

-----------------------------------------------------------------------------
\* Places an order; a registered customer's takes its units over from a
\* reservation, a guest's reserves them here.
PlaceOrder(o, cart) ==
    /\ orderStatus[o] = "NONE"
    /\ \A p \in Orders : p < o => orderStatus[p] # "NONE"
    /\ Reserve(cart)
    /\ SetStatus(o, "PENDING")
    /\ lines' = [lines EXCEPT ![o] = cart]
    /\ UNCHANGED <<cancelled, paid, returned, dispatched, request>>

\* payment_intent.succeeded: the first delivery confirms the order, whatever
\* has become of it; others violate unique(gatewayRef).
ConfirmPayment(o) ==
    /\ ~paid[o]
    /\ orderStatus[o] \in PaymentFinds
    /\ paid' = [paid EXCEPT ![o] = TRUE]
    /\ SetStatus(o, "CONFIRMED")
    /\ UNCHANGED <<inventoryVars, lines, cancelled, returned, dispatched, request>>

-----------------------------------------------------------------------------
\* PATCH /orders/:id/cancel: the transaction reads the status, ...
ReadToCancel(q, o) ==
    /\ orderStatus[o] \in {"PENDING", "CONFIRMED"}
    /\ Accept(q, [op |-> "cancel", o |-> o])
    /\ UNCHANGED <<inventoryVars, orderVars>>

\* ... then the lines, ...
ReadLinesToCancel(q) ==
    /\ request[q].op = "cancel"
    /\ request' = [request EXCEPT ![q] =
           [op |-> "cancelLines", o |-> request[q].o, lines |-> ActiveLines(request[q].o)]]
    /\ UNCHANGED <<inventoryVars, orderVars>>

\* ... then releases their units and writes the status.
CancelOrder(q) ==
    LET o == request[q].o
    IN  /\ request[q].op = "cancelLines"
        /\ Release(QuantityOf(o, request[q].lines))
        /\ SetStatus(o, "CANCELLED")
        /\ Reply(q)
        /\ UNCHANGED <<lines, cancelled, paid, returned, dispatched>>

\* PATCH /orders/:id/items/:itemId/cancel: reads outside its transaction ...
ReadToCancelItem(q, o, v) ==
    /\ orderStatus[o] \in PreShipment
    /\ v \in ActiveLines(o)
    /\ Accept(q, [op |-> "cancelItem", o |-> o, line |-> v, seen |-> orderStatus[o],
                  rest |-> ActiveLines(o) \ {v}])
    /\ UNCHANGED <<inventoryVars, orderVars>>

\* ... and writes the status it read, or CANCELLED after the last line.
CancelItem(q) ==
    LET o == request[q].o
        v == request[q].line
    IN  /\ request[q].op = "cancelItem"
        /\ cancelled' = [cancelled EXCEPT ![o] = @ \cup {v}]
        /\ Release(QuantityOf(o, {v}))
        /\ SetStatus(o, IF request[q].rest = {} THEN "CANCELLED" ELSE request[q].seen)
        /\ Reply(q)
        /\ UNCHANGED <<lines, paid, returned, dispatched>>

-----------------------------------------------------------------------------
\* PATCH /orders/admin/:id/status: reads outside its transaction ...
ReadToUpdate(q, o, to) ==
    /\ <<orderStatus[o], to>> \in OperatorMoves
    /\ Accept(q, [op |-> "update", o |-> o, to |-> to, seen |-> orderStatus[o],
                  lines |-> ActiveLines(o)])
    /\ UNCHANGED <<inventoryVars, orderVars>>

\* ... and sends the units out if the order it read was not shipped yet.
UpdateStatus(q) ==
    LET o == request[q].o
        qty == QuantityOf(o, request[q].lines)
    IN  /\ request[q].op = "update"
        /\ IF request[q].to = "SHIPPED" /\ request[q].seen \in PreShipment
           THEN /\ CommitShipment(qty)
                /\ dispatched' = [dispatched EXCEPT ![o] = [v \in Variants |-> @[v] + qty[v]]]
           ELSE UNCHANGED <<inventoryVars, dispatched>>
        /\ SetStatus(o, request[q].to)
        /\ Reply(q)
        /\ UNCHANGED <<lines, cancelled, paid, returned>>

\* PATCH /admin/orders/:id/status: writes the status and nothing else.
AdminSetsStatus(o, to) ==
    /\ <<orderStatus[o], to>> \in RawMoves
    /\ SetStatus(o, to)
    /\ UNCHANGED <<inventoryVars, lines, cancelled, paid, returned, dispatched, request>>

-----------------------------------------------------------------------------
\* POST /orders/:id/return: the transaction reads the order and its request, ...
ReadToReturn(q, o) ==
    /\ orderStatus[o] = "DELIVERED"
    /\ ~returned[o]
    /\ ActiveLines(o) # {}
    /\ Accept(q, [op |-> "return", o |-> o])
    /\ UNCHANGED <<inventoryVars, orderVars>>

\* ... then creates the request, one per order (unique orderId).
CreateReturn(q) ==
    LET o == request[q].o
    IN  /\ request[q].op = "return"
        /\ ~returned[o]
        /\ returned' = [returned EXCEPT ![o] = TRUE]
        /\ SetStatus(o, "RETURN_REQUESTED")
        /\ Reply(q)
        /\ UNCHANGED <<inventoryVars, lines, cancelled, paid, dispatched>>

\* A transaction rolls back (a shipment that cannot be committed, a second
\* return request, a lost connection) or its pod dies.
Abort(q) ==
    /\ request[q] # Idle
    /\ Reply(q)
    /\ UNCHANGED <<inventoryVars, orderVars>>

-----------------------------------------------------------------------------
Next ==
    \/ \E o \in Orders :
        \/ \E cart \in Carts : PlaceOrder(o, cart)
        \/ ConfirmPayment(o)
        \/ \E to \in OrderStatus : AdminSetsStatus(o, to)
    \/ \E q \in Requests :
        \/ \E o \in Orders :
            \/ ReadToCancel(q, o)
            \/ \E v \in Variants : ReadToCancelItem(q, o, v)
            \/ \E to \in OrderStatus : ReadToUpdate(q, o, to)
            \/ ReadToReturn(q, o)
        \/ ReadLinesToCancel(q)
        \/ CancelOrder(q)
        \/ CancelItem(q)
        \/ UpdateStatus(q)
        \/ CreateReturn(q)
        \/ Abort(q)

Spec == Init /\ [][Next]_vars

-----------------------------------------------------------------------------
\* The number of units of v in the lines not cancelled of orders in some statuses.
UnitsIn(statuses, v) ==
    Cardinality({u \in Orders \X (1..MaxQty) :
        orderStatus[u[1]] \in statuses /\ v \in ActiveLines(u[1]) /\ u[2] <= lines[u[1]][v]})

\* No two requests about one order overlap.
Apart ==
    \A q, r \in Requests :
        request[q].op # "idle" /\ request[r].op # "idle" /\ request[q].o = request[r].o => q = r

\* I-2 as invariant-validator.service.ts:109-110 words it: what is reserved is
\* what the orders not shipped yet have ordered.  A line released twice, a
\* shipment without its stock or an order that comes back to life breaks it.
ReservedIsOwed == reserved = [v \in Variants |-> UnitsIn(PreShipment, v)]

\* orders.service.ts:781-782: status and stock do not drift.  Once an order is
\* shipped, exactly its lines have left the warehouse, however often an
\* operator says so; before, none of them.
ShippedAsOrdered ==
    \A o \in Orders :
        /\ orderStatus[o] \in {"SHIPPED", "DELIVERED", "RETURN_REQUESTED"} =>
               dispatched[o] = QuantityOf(o, ActiveLines(o))
        /\ orderStatus[o] \in PreShipment \cup {"CANCELLED"} =>
               \A v \in Variants : dispatched[o][v] = 0

\* orders.service.ts:511-512: no concurrent action flips the status between the
\* read and the write of cancelOrder, so it never overwrites a shipment.
CancelSeesStatus ==
    [][\A q \in Requests : CancelOrder(q) =>
           orderStatus[request[q].o] \notin {"SHIPPED", "DELIVERED"}]_vars
=============================================================================
