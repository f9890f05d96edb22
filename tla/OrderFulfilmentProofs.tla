------------------------- MODULE OrderFulfilmentProofs -------------------------
(***************************************************************************)
(* Theorems about OrderFulfilment, for any orders, requests, operators and *)
(* payments.  However the handlers interleave, each of them moves stock by *)
(* reserving, releasing or committing some quantity, so the bounds and the *)
(* copy that every movement preserves hold of the whole system, although   *)
(* it may release or commit the wrong quantity.  That the quantities are   *)
(* right as well is proved of requests about one order that do not overlap.*)
(***************************************************************************)
EXTENDS OrderFulfilment, InventoryProofs, FiniteSetTheorems

-----------------------------------------------------------------------------
(***************************************************************************)
(* Type correctness.                                                       *)
(***************************************************************************)

LEMMA QuantityOfType ==
    ASSUME TypeOK, NEW o \in Orders, NEW S
    PROVE  QuantityOf(o, S) \in [Variants -> Nat]
BY OrdersAssumption DEF TypeOK, QuantityOf

LEMMA ActiveLinesType ==
    ASSUME NEW o \in Orders
    PROVE  ActiveLines(o) \in SUBSET Variants
BY DEF ActiveLines

\* What a request that is past its first read carries.
LEMMA RequestFields ==
    ASSUME TypeOK, NEW q \in Requests
    PROVE  /\ request[q].op # "idle" => request[q].o \in Orders
           /\ request[q].op = "cancelItem" => request[q].seen \in OrderStatus
           /\ request[q].op = "update" => request[q].to \in OrderStatus
           /\ request[q].op = "cancelItem" => request[q].line \in Variants
BY DEF TypeOK, Request, Idle

LEMMA TypeStep == TypeOK /\ [Next]_vars => TypeOK'
<1> SUFFICES ASSUME TypeOK, [Next]_vars PROVE TypeOK'
  OBVIOUS
<1> USE DEF orderVars, SetStatus, Reply, Accept
<1>0. InventoryTypeOK
  BY DEF TypeOK
<1>a. UNCHANGED inventoryVars => InventoryTypeOK'
  BY <1>0 DEF inventoryVars, InventoryTypeOK
<1>b. \A q \in Requests : Reply(q) => request' \in [Requests -> Request]
  BY DEF TypeOK, Request
<1>c. \A q \in Requests, req \in Request :
         request' = [request EXCEPT ![q] = req] => request' \in [Requests -> Request]
  BY DEF TypeOK
<1>d. \A s \in OrderStatus, o \in Orders :
         SetStatus(o, s) => orderStatus' \in [Orders -> OrderStatus \cup {"NONE"}]
  BY DEF TypeOK
<1>e. {"PENDING", "CONFIRMED", "CANCELLED", "RETURN_REQUESTED"} \subseteq OrderStatus
  BY DEF OrderStatus
<1>1. ASSUME NEW o \in Orders, NEW cart \in Carts, PlaceOrder(o, cart)
      PROVE  TypeOK'
  <2>1. cart \in [Variants -> 0..MaxQty] /\ cart \in [Variants -> Nat]
    BY OrdersAssumption
  <2>2. InventoryTypeOK'
    BY <1>0, <1>1, <2>1, ReserveType DEF PlaceOrder
  <2> QED
    BY <1>1, <1>d, <1>e, <2>1, <2>2 DEF PlaceOrder, TypeOK
<1>2. ASSUME NEW o \in Orders, ConfirmPayment(o)
      PROVE  TypeOK'
  BY <1>2, <1>a, <1>d, <1>e DEF ConfirmPayment, TypeOK
<1>3. ASSUME NEW o \in Orders, NEW to \in OrderStatus, AdminSetsStatus(o, to)
      PROVE  TypeOK'
  BY <1>3, <1>a, <1>d DEF AdminSetsStatus, TypeOK
<1>4. ASSUME NEW q \in Requests, NEW o \in Orders, ReadToCancel(q, o)
      PROVE  TypeOK'
  <2>1. [op |-> "cancel", o |-> o] \in Request
    BY DEF Request
  <2> QED
    BY <1>4, <1>a, <1>c, <2>1 DEF ReadToCancel, TypeOK
<1>5. ASSUME NEW q \in Requests, ReadLinesToCancel(q)
      PROVE  TypeOK'
  <2>1. request[q].o \in Orders
    BY <1>5, RequestFields DEF ReadLinesToCancel
  <2>2. [op |-> "cancelLines", o |-> request[q].o, lines |-> ActiveLines(request[q].o)] \in Request
    BY <2>1, ActiveLinesType DEF Request
  <2> QED
    BY <1>5, <1>a, <1>c, <2>2 DEF ReadLinesToCancel, TypeOK
<1>6. ASSUME NEW q \in Requests, CancelOrder(q)
      PROVE  TypeOK'
  <2>1. request[q].o \in Orders
    BY <1>6, RequestFields DEF CancelOrder
  <2>2. InventoryTypeOK'
    BY <1>0, <1>6, <2>1, QuantityOfType, ReleaseType DEF CancelOrder
  <2> QED
    BY <1>6, <1>b, <1>d, <1>e, <2>1, <2>2 DEF CancelOrder, TypeOK
<1>7. ASSUME NEW q \in Requests, NEW o \in Orders, NEW v \in Variants, ReadToCancelItem(q, o, v)
      PROVE  TypeOK'
  <2>1. [op |-> "cancelItem", o |-> o, line |-> v, seen |-> orderStatus[o],
         rest |-> ActiveLines(o) \ {v}] \in Request
    BY <1>7, ActiveLinesType DEF ReadToCancelItem, PreShipment, OrderStatus, Request
  <2> QED
    BY <1>7, <1>a, <1>c, <2>1 DEF ReadToCancelItem, TypeOK
<1>8. ASSUME NEW q \in Requests, CancelItem(q)
      PROVE  TypeOK'
  <2>1. /\ request[q].o \in Orders
        /\ request[q].line \in Variants
        /\ request[q].seen \in OrderStatus
    BY <1>8, RequestFields DEF CancelItem
  <2>2. InventoryTypeOK'
    BY <1>0, <1>8, <2>1, QuantityOfType, ReleaseType DEF CancelItem
  <2>3. cancelled' \in [Orders -> SUBSET Variants]
    BY <1>8, <2>1 DEF CancelItem, TypeOK
  <2>4. orderStatus' \in [Orders -> OrderStatus \cup {"NONE"}]
    BY <1>8, <1>d, <1>e, <2>1 DEF CancelItem
  <2> QED
    BY <1>8, <1>b, <2>2, <2>3, <2>4 DEF CancelItem, TypeOK
<1>9. ASSUME NEW q \in Requests, NEW o \in Orders, NEW to \in OrderStatus, ReadToUpdate(q, o, to)
      PROVE  TypeOK'
  <2>1. orderStatus[o] \in OrderStatus
    BY <1>9, MovesAssumption DEF ReadToUpdate
  <2>2. [op |-> "update", o |-> o, to |-> to, seen |-> orderStatus[o],
         lines |-> ActiveLines(o)] \in Request
    BY <2>1, ActiveLinesType DEF Request
  <2> QED
    BY <1>9, <1>a, <1>c, <2>2 DEF ReadToUpdate, TypeOK
<1>10. ASSUME NEW q \in Requests, UpdateStatus(q)
       PROVE  TypeOK'
  <2> DEFINE o == request[q].o
             qty == QuantityOf(o, request[q].lines)
  <2>1. o \in Orders /\ request[q].to \in OrderStatus
    BY <1>10, RequestFields DEF UpdateStatus
  <2>2. qty \in [Variants -> Nat]
    BY <2>1, QuantityOfType
  <2>3. CASE request[q].to = "SHIPPED" /\ request[q].seen \in PreShipment
    <3>1. InventoryTypeOK'
      BY <1>0, <1>10, <2>2, <2>3, CommitShipmentType DEF UpdateStatus
    <3> HIDE DEF qty
    <3>2. [v \in Variants |-> dispatched[o][v] + qty[v]] \in [Variants -> Nat]
      BY <2>1, <2>2 DEF TypeOK
    <3>3. dispatched' = [dispatched EXCEPT ![o] = [v \in Variants |-> dispatched[o][v] + qty[v]]]
      BY <1>10, <2>3 DEF UpdateStatus, qty
    <3>4. dispatched' \in [Orders -> [Variants -> Nat]]
      BY <2>1, <3>2, <3>3 DEF TypeOK
    <3> QED
      BY <1>10, <1>b, <1>d, <2>1, <3>1, <3>4 DEF UpdateStatus, TypeOK
  <2>4. CASE ~(request[q].to = "SHIPPED" /\ request[q].seen \in PreShipment)
    BY <1>10, <1>a, <1>b, <1>d, <2>1, <2>4 DEF UpdateStatus, TypeOK
  <2> QED
    BY <2>3, <2>4
<1>11. ASSUME NEW q \in Requests, NEW o \in Orders, ReadToReturn(q, o)
       PROVE  TypeOK'
  <2>1. [op |-> "return", o |-> o] \in Request
    BY DEF Request
  <2> QED
    BY <1>11, <1>a, <1>c, <2>1 DEF ReadToReturn, TypeOK
<1>12. ASSUME NEW q \in Requests, CreateReturn(q)
       PROVE  TypeOK'
  <2>1. request[q].o \in Orders
    BY <1>12, RequestFields DEF CreateReturn
  <2> QED
    BY <1>12, <1>a, <1>b, <1>d, <1>e, <2>1 DEF CreateReturn, TypeOK
<1>13. ASSUME NEW q \in Requests, Abort(q)
       PROVE  TypeOK'
  BY <1>13, <1>a, <1>b DEF Abort, TypeOK
<1>14. CASE UNCHANGED vars
  BY <1>14, <1>a DEF vars, TypeOK
<1> QED
  BY <1>1, <1>2, <1>3, <1>4, <1>5, <1>6, <1>7, <1>8, <1>9, <1>10, <1>11, <1>12, <1>13, <1>14
     DEF Next

LEMMA OrderTypeStart == Init => TypeOK
<1> SUFFICES ASSUME Init PROVE TypeOK
  OBVIOUS
<1>1. InventoryTypeOK
  BY OrdersAssumption, InventoryInitSound DEF Init
<1> QED
  BY <1>1, OrdersAssumption DEF Init, TypeOK, Request

\* Every column keeps its type: however often a line is released or a shipment
\* committed, no quantity of a warehouse or variant row goes negative.
THEOREM OrderTypeCorrect == Spec => []TypeOK
BY OrderTypeStart, TypeStep, PTL DEF Spec

-----------------------------------------------------------------------------
(***************************************************************************)
(* Movements.                                                              *)
(***************************************************************************)

\* Every step leaves the inventory alone or makes one movement.
Movement ==
    \/ UNCHANGED inventoryVars
    \/ \E qty \in [Variants -> Nat] : Reserve(qty) \/ Release(qty) \/ CommitShipment(qty)

LEMMA StepIsMovement == TypeOK /\ [Next]_vars => Movement
<1> SUFFICES ASSUME TypeOK, [Next]_vars PROVE Movement
  OBVIOUS
<1>1. ASSUME NEW o \in Orders, NEW cart \in Carts, PlaceOrder(o, cart)
      PROVE  Movement
  <2>1. cart \in [Variants -> Nat]
    BY OrdersAssumption
  <2> QED
    BY <1>1, <2>1 DEF PlaceOrder, Movement
<1>2. ASSUME NEW q \in Requests, CancelOrder(q) \/ CancelItem(q)
      PROVE  Movement
  <2>1. request[q].o \in Orders
    BY <1>2, RequestFields DEF CancelOrder, CancelItem
  <2> QED
    BY <1>2, <2>1, QuantityOfType DEF CancelOrder, CancelItem, Movement
<1>3. ASSUME NEW q \in Requests, UpdateStatus(q)
      PROVE  Movement
  <2>1. request[q].o \in Orders
    BY <1>3, RequestFields DEF UpdateStatus
  <2> QED
    BY <1>3, <2>1, QuantityOfType DEF UpdateStatus, Movement
<1>4. ASSUME \/ \E o \in Orders :
                  ConfirmPayment(o) \/ \E to \in OrderStatus : AdminSetsStatus(o, to)
             \/ \E q \in Requests :
                  \/ \E o \in Orders :
                       \/ ReadToCancel(q, o) \/ ReadToReturn(q, o)
                       \/ \E v \in Variants : ReadToCancelItem(q, o, v)
                       \/ \E to \in OrderStatus : ReadToUpdate(q, o, to)
                  \/ ReadLinesToCancel(q) \/ CreateReturn(q) \/ Abort(q)
             \/ UNCHANGED vars
      PROVE  Movement
  BY <1>4 DEF ConfirmPayment, AdminSetsStatus, ReadToCancel, ReadToReturn, ReadToCancelItem,
              ReadToUpdate, ReadLinesToCancel, CreateReturn, Abort, vars, Movement
<1> QED
  BY <1>1, <1>2, <1>3, <1>4 DEF Next

\* The warehouse never promises more than it has, whatever races the handlers
\* lose: the conditional updates are enough.
THEOREM OrdersNeverOversell == Spec => []NoOversell
<1>1. Init => NoOversell
  BY OrdersAssumption, InventoryInitSound DEF Init
<1>2. TypeOK /\ NoOversell /\ [Next]_vars => NoOversell'
  <2> SUFFICES ASSUME TypeOK, NoOversell, [Next]_vars PROVE NoOversell'
    OBVIOUS
  <2>1. InventoryTypeOK /\ Movement
    BY StepIsMovement DEF TypeOK
  <2>2. CASE UNCHANGED inventoryVars
    BY <2>2 DEF inventoryVars, NoOversell
  <2> QED
    BY <2>1, <2>2, NoOversellAfterReserve, NoOversellAfterRelease,
       NoOversellAfterCommitShipment DEF Movement
<1> QED
  BY <1>1, <1>2, OrderTypeCorrect, PTL DEF Spec

\* I-1: the Variant row mirrors the warehouse row after every transaction.
THEOREM OrdersKeepCacheInSync == Spec => []CacheInSync
<1>1. Init => CacheInSync
  BY OrdersAssumption, InventoryInitSound DEF Init
<1>2. TypeOK /\ CacheInSync /\ [Next]_vars => CacheInSync'
  <2> SUFFICES ASSUME TypeOK, CacheInSync, [Next]_vars PROVE CacheInSync'
    OBVIOUS
  <2>1. Movement
    BY StepIsMovement
  <2>2. CASE UNCHANGED inventoryVars
    BY <2>2 DEF inventoryVars, CacheInSync
  <2> QED
    BY <2>1, <2>2, CacheAfterMovement DEF Movement
<1> QED
  BY <1>1, <1>2, OrderTypeCorrect, PTL DEF Spec
-----------------------------------------------------------------------------
(***************************************************************************)
(* What is owed, and what was sent.                                        *)
(*                                                                         *)
(* Both hold as long as no two requests about one order overlap and people *)
(* are careful: each of the violation runs of this model drops one of the  *)
(* two.  Payments and operators may come between the steps of a request.   *)
(***************************************************************************)

Out == {"SHIPPED", "DELIVERED", "RETURN_REQUESTED", "RETURNED"}

\* Two statuses between which no stock moves.
SameSide(a, b) ==
    /\ a \in PreShipment <=> b \in PreShipment
    /\ a \in Out <=> b \in Out
    /\ a = "CANCELLED" <=> b = "CANCELLED"

\* What the code leaves to people: a payment arrives while its order waits, the raw route
\* changes no side, and the other one only by shipping.
CarefulPeople ==
    /\ PaymentFinds \subseteq PreShipment
    /\ \A move \in RawMoves : SameSide(move[1], move[2])
    /\ \A move \in OperatorMoves :
           SameSide(move[1], move[2]) \/ (move[1] \in PreShipment /\ move[2] = "SHIPPED")

\* What a request read is what it would read again.
Sees(q) ==
    LET r == request[q]
        now == orderStatus[r.o]
    IN  r.op # "idle" =>
            /\ now # "NONE"
            /\ r.op \in {"cancel", "cancelLines", "cancelItem"} => now \in PreShipment
            /\ r.op = "cancelLines" => r.lines = ActiveLines(r.o)
            /\ r.op = "cancelItem" =>
                   /\ r.seen \in PreShipment
                   /\ r.line \in ActiveLines(r.o) /\ r.rest = ActiveLines(r.o) \ {r.line}
            /\ r.op = "update" =>
                   /\ SameSide(r.seen, now) /\ <<r.seen, r.to>> \in OperatorMoves
                   /\ r.lines = ActiveLines(r.o)
            /\ r.op = "return" => now \in Out

\* What has left the warehouse for an order.
Dispatches(o) ==
    /\ orderStatus[o] = "NONE" => cancelled[o] = {}
    /\ orderStatus[o] \in Out => dispatched[o] = QuantityOf(o, ActiveLines(o))
    /\ orderStatus[o] \in PreShipment \cup {"CANCELLED", "NONE"} =>
           dispatched[o] = [v \in Variants |-> 0]

OrderInv ==
    /\ TypeOK
    /\ \A q \in Requests : Sees(q)
    /\ \A o \in Orders : Dispatches(o)
    /\ ReservedIsOwed

-----------------------------------------------------------------------------
\* The units of one variant that each order is owed, counted one by one.
Owing(f) == {u \in Orders \X (1..MaxQty) : u[2] <= f[u[1]]}

LEMMA OwingIsFinite ==
    ASSUME NEW f \in [Orders -> 0..MaxQty]
    PROVE  IsFiniteSet(Owing(f)) /\ Cardinality(Owing(f)) \in Nat
<1>1. IsFiniteSet(Orders) /\ IsFiniteSet(1..MaxQty)
  BY OrdersAssumption, FS_Interval DEF Orders
<1>2. IsFiniteSet(Orders \X (1..MaxQty))
  BY <1>1, FS_Product
<1>3. Owing(f) \subseteq Orders \X (1..MaxQty)
  BY DEF Owing
<1>4. IsFiniteSet(Owing(f))
  BY <1>2, <1>3, FS_Subset
<1> QED
  BY <1>4, FS_CardinalityType

\* One order's part of the count.
LEMMA OwingOfOne ==
    ASSUME NEW f \in [Orders -> 0..MaxQty], NEW o \in Orders
    PROVE  LET Mine == {u \in Owing(f) : u[1] = o}
           IN  IsFiniteSet(Mine) /\ Cardinality(Mine) = f[o]
<1> DEFINE Mine == {u \in Owing(f) : u[1] = o}
           g == [k \in 1..f[o] |-> <<o, k>>]
<1>1. f[o] \in Nat /\ f[o] <= MaxQty
  BY OrdersAssumption
<1>2. IsFiniteSet(1..f[o]) /\ Cardinality(1..f[o]) = f[o]
  BY <1>1, FS_Interval
<1>3. g \in Bijection(1..f[o], Mine)
  <2>1. \A k \in 1..f[o] : <<o, k>> \in Mine
    BY <1>1, OrdersAssumption DEF Owing
  <2>2. \A u \in Mine : u[2] \in 1..f[o] /\ u = <<o, u[2]>>
    BY <1>1, OrdersAssumption DEF Owing
  <2> HIDE DEF Mine
  <2>3. \A u \in Mine : g[u[2]] = u
    BY <2>2
  <2>4. \A k, l \in 1..f[o] : g[k] = g[l] => k = l
    OBVIOUS
  <2>5. g \in [1..f[o] -> Mine]
    BY <2>1
  <2> QED
    BY <2>2, <2>3, <2>4, <2>5 DEF Bijection, Injection, Surjection, IsInjective
<1> QED
  BY <1>2, <1>3, FS_Bijection DEF ExistsBijection

\* An order that comes to owe another quantity changes the count by the difference.
LEMMA OwingChanges ==
    ASSUME NEW f \in [Orders -> 0..MaxQty], NEW g \in [Orders -> 0..MaxQty], NEW o \in Orders,
           \A p \in Orders : p # o => g[p] = f[p]
    PROVE  Cardinality(Owing(g)) + f[o] = Cardinality(Owing(f)) + g[o]
<1> DEFINE Mine(h) == {u \in Owing(h) : u[1] = o}
           Rest(h) == {u \in Owing(h) : u[1] # o}
<1>1. ASSUME NEW h \in [Orders -> 0..MaxQty]
      PROVE  Cardinality(Owing(h)) = Cardinality(Rest(h)) + h[o] /\ Cardinality(Rest(h)) \in Nat
  <2>1. IsFiniteSet(Owing(h))
    BY OwingIsFinite
  <2>2. IsFiniteSet(Rest(h)) /\ Cardinality(Rest(h)) \in Nat
    BY <2>1, FS_Subset, FS_CardinalityType
  <2>3. IsFiniteSet(Mine(h)) /\ Cardinality(Mine(h)) = h[o]
    BY OwingOfOne
  <2>4. Owing(h) = Rest(h) \cup Mine(h) /\ Rest(h) \cap Mine(h) = {}
    OBVIOUS
  <2>5. h[o] \in Nat
    BY OrdersAssumption
  <2> HIDE DEF Mine, Rest
  <2>6. Cardinality(Rest(h) \cup Mine(h))
          = Cardinality(Rest(h)) + Cardinality(Mine(h)) - Cardinality(Rest(h) \cap Mine(h))
    BY <2>2, <2>3, FS_Union
  <2>7. Cardinality(Rest(h) \cap Mine(h)) = 0
    BY <2>4, FS_EmptySet
  <2> QED
    BY <2>2, <2>3, <2>4, <2>5, <2>6, <2>7
<1>2. Rest(f) = Rest(g)
  <2>1. \A u \in Orders \X (1..MaxQty) : u[1] # o => g[u[1]] = f[u[1]]
    OBVIOUS
  <2> QED
    BY <2>1 DEF Owing
<1>3. f[o] \in Nat /\ g[o] \in Nat
  BY OrdersAssumption
<1> HIDE DEF Rest
<1>4. Cardinality(Owing(f)) = Cardinality(Rest(f)) + f[o] /\ Cardinality(Rest(f)) \in Nat
  BY <1>1
<1>5. Cardinality(Owing(g)) = Cardinality(Rest(g)) + g[o]
  BY <1>1
<1> QED
  BY <1>2, <1>3, <1>4, <1>5

\* What an order is owed of a variant.
OwedTo(o, v) == IF orderStatus[o] \in PreShipment /\ v \in ActiveLines(o) THEN lines[o][v] ELSE 0
Owed(v) == [o \in Orders |-> OwedTo(o, v)]

LEMMA OwedIsQuantity ==
    ASSUME TypeOK, NEW o \in Orders, NEW v \in Variants
    PROVE  OwedTo(o, v) \in 0..MaxQty
<1>1. lines[o][v] \in 0..MaxQty
  BY DEF TypeOK
<1> QED
  BY <1>1, OrdersAssumption DEF OwedTo

LEMMA UnitsInAreOwed ==
    ASSUME TypeOK, NEW v \in Variants
    PROVE  UnitsIn(PreShipment, v) = Cardinality(Owing(Owed(v))) /\ Owed(v) \in [Orders -> 0..MaxQty]
<1>1. Owed(v) \in [Orders -> 0..MaxQty]
  BY OwedIsQuantity DEF Owed
<1>2. \A u \in Orders \X (1..MaxQty) :
         (orderStatus[u[1]] \in PreShipment /\ v \in ActiveLines(u[1]) /\ u[2] <= lines[u[1]][v])
            <=> u[2] <= Owed(v)[u[1]]
  <2> SUFFICES ASSUME NEW u \in Orders \X (1..MaxQty)
               PROVE  (orderStatus[u[1]] \in PreShipment /\ v \in ActiveLines(u[1]) /\ u[2] <= lines[u[1]][v])
                         <=> u[2] <= Owed(v)[u[1]]
    OBVIOUS
  <2>1. u[1] \in Orders /\ u[2] \in Int /\ 1 <= u[2]
    BY OrdersAssumption
  <2>2. Owed(v)[u[1]] = OwedTo(u[1], v)
    BY <2>1 DEF Owed
  <2> QED
    BY <2>1, <2>2 DEF OwedTo
<1> QED
  BY <1>1, <1>2 DEF UnitsIn, Owing

LEMMA OwedCounts ==
    TypeOK => \A w \in Variants :
       UnitsIn(PreShipment, w) = Cardinality(Owing(Owed(w))) /\ Owed(w) \in [Orders -> 0..MaxQty]
BY UnitsInAreOwed

\* What one order is owed is reserved.
LEMMA OwedIsReserved ==
    ASSUME TypeOK, ReservedIsOwed, NEW o \in Orders, NEW v \in Variants
    PROVE  OwedTo(o, v) <= reserved[v]
<1> DEFINE f == Owed(v)
           Mine == {u \in Owing(f) : u[1] = o}
<1>1. f \in [Orders -> 0..MaxQty] /\ reserved[v] = Cardinality(Owing(f)) /\ f[o] = OwedTo(o, v)
  BY UnitsInAreOwed DEF ReservedIsOwed, Owed
<1> HIDE DEF f
<1>2. Cardinality(Mine) = f[o]
  BY <1>1, OwingOfOne
<1>3. Cardinality(Mine) <= Cardinality(Owing(f))
  BY <1>1, OwingIsFinite, FS_Subset
<1> QED
  BY <1>1, <1>2, <1>3

\* A step that changes what one order is owed, and reserves the difference.
LEMMA OwedMoves ==
    ASSUME TypeOK, TypeOK', ReservedIsOwed, NEW o \in Orders,
           \A p \in Orders, v \in Variants : p # o => OwedTo(p, v)' = OwedTo(p, v),
           \A v \in Variants : reserved'[v] + OwedTo(o, v) = reserved[v] + OwedTo(o, v)'
    PROVE  ReservedIsOwed'
<1>1. ASSUME NEW v \in Variants PROVE reserved'[v] = UnitsIn(PreShipment, v)'
  <2> DEFINE f == Owed(v)
             g == Owed(v)'
  <2>1. f \in [Orders -> 0..MaxQty] /\ reserved[v] = Cardinality(Owing(f)) /\ f[o] = OwedTo(o, v)
    BY UnitsInAreOwed DEF ReservedIsOwed, Owed
  <2>2. g \in [Orders -> 0..MaxQty] /\ UnitsIn(PreShipment, v)' = Cardinality(Owing(g))
    <3>1. (TypeOK => \A w \in Variants :
              UnitsIn(PreShipment, w) = Cardinality(Owing(Owed(w))) /\ Owed(w) \in [Orders -> 0..MaxQty])'
      BY OwedCounts, PTL
    <3> QED
      BY <3>1
  <2>3. g[o] = OwedTo(o, v)' /\ \A p \in Orders : p # o => g[p] = f[p]
    BY DEF Owed
  <2>4. reserved[v] \in Nat /\ reserved'[v] \in Nat /\ f[o] \in Nat /\ g[o] \in Nat
    BY <2>1, <2>2, OrdersAssumption DEF TypeOK, InventoryTypeOK
  <2> HIDE DEF f, g
  <2>5. Cardinality(Owing(g)) + f[o] = Cardinality(Owing(f)) + g[o]
    BY <2>1, <2>2, <2>3, OwingChanges
  <2>6. Cardinality(Owing(g)) \in Nat
    BY <2>2, OwingIsFinite
  <2> QED
    BY <2>1, <2>2, <2>3, <2>4, <2>5, <2>6
<1>2. reserved' = [v \in Variants |-> reserved'[v]]
  BY DEF TypeOK, InventoryTypeOK
<1> QED
  BY <1>1, <1>2 DEF ReservedIsOwed

-----------------------------------------------------------------------------
\* What a request saw stays so while its order stays on its side.
LEMMA SeesStill ==
    ASSUME NEW r \in Requests, NEW p, p = request[r].o, Sees(r), request'[r] = request[r],
           request[r].op # "idle" =>
              /\ lines'[p] = lines[p] /\ cancelled'[p] = cancelled[p]
              /\ orderStatus'[p] # "NONE" /\ SameSide(orderStatus[p], orderStatus'[p])
    PROVE  Sees(r)'
<1>1. CASE request[r].op = "idle"
  BY <1>1 DEF Sees
<1>2. CASE request[r].op # "idle"
  <2>1. ActiveLines(p)' = ActiveLines(p)
    BY <1>2 DEF ActiveLines
  <2> HIDE DEF ActiveLines
  <2> QED
    BY <1>2, <2>1 DEF Sees, SameSide
<1> QED
  BY <1>1, <1>2

LEMMA SideIsItself == \A s : SameSide(s, s)
BY DEF SameSide

\* The others see what they saw when one request ends with a write to its order.
LEMMA OthersSee ==
    ASSUME OrderInv, Apart, NEW q \in Requests, request[q].op # "idle", Reply(q),
           \A p \in Orders : p # request[q].o =>
              /\ orderStatus'[p] = orderStatus[p]
              /\ lines'[p] = lines[p] /\ cancelled'[p] = cancelled[p]
    PROVE  \A r \in Requests : Sees(r)'
<1> SUFFICES ASSUME NEW r \in Requests PROVE Sees(r)'
  OBVIOUS
<1>1. request' = [request EXCEPT ![q] = Idle] /\ request \in [Requests -> Request]
  BY DEF Reply, OrderInv, TypeOK
<1>2. CASE r = q
  <2>1. request'[r].op = "idle"
    BY <1>1, <1>2 DEF Idle
  <2> QED
    BY <2>1 DEF Sees
<1>3. CASE r # q
  <2>1. Sees(r) /\ request'[r] = request[r]
    BY <1>1, <1>3 DEF OrderInv
  <2>2. ASSUME request[r].op # "idle"
        PROVE  request[r].o \in Orders /\ request[r].o # request[q].o /\ orderStatus[request[r].o] # "NONE"
    BY <1>3, <2>1, <2>2, RequestFields DEF OrderInv, Apart, Sees
  <2> QED
    BY <2>1, <2>2, SeesStill, SideIsItself
<1> QED
  BY <1>2, <1>3

\* Nothing that is read changes what another request saw.
LEMMA ReadersSee ==
    ASSUME OrderInv, NEW q \in Requests, NEW req, request' = [request EXCEPT ![q] = req],
           UNCHANGED orderVars, Sees(q)'
    PROVE  \A r \in Requests : Sees(r)'
<1> SUFFICES ASSUME NEW r \in Requests, r # q PROVE Sees(r)'
  OBVIOUS
<1>1. Sees(r) /\ request'[r] = request[r]
  BY DEF OrderInv, TypeOK
<1>2. request[r].op # "idle" => orderStatus[request[r].o] # "NONE"
  BY <1>1 DEF Sees
<1> QED
  BY <1>1, <1>2, SeesStill, SideIsItself DEF orderVars

\* Nothing leaves for an order that no step is about.
LEMMA DispatchesElsewhere ==
    ASSUME NEW p, Dispatches(p), orderStatus'[p] = orderStatus[p], lines'[p] = lines[p],
           cancelled'[p] = cancelled[p], dispatched'[p] = dispatched[p]
    PROVE  Dispatches(p)'
<1>1. QuantityOf(p, ActiveLines(p))' = QuantityOf(p, ActiveLines(p))
  BY DEF QuantityOf, ActiveLines
<1> HIDE DEF QuantityOf, ActiveLines
<1> QED
  BY <1>1 DEF Dispatches

LEMMA OwedElsewhere ==
    ASSUME NEW p, NEW v, orderStatus'[p] \in PreShipment <=> orderStatus[p] \in PreShipment,
           lines'[p] = lines[p], cancelled'[p] = cancelled[p]
    PROVE  OwedTo(p, v)' = OwedTo(p, v)
BY DEF OwedTo, ActiveLines

\* A change of status that moves no stock keeps the books of stock.
LEMMA SideStep ==
    ASSUME OrderInv, TypeOK', NEW o \in Orders, NEW s \in OrderStatus, SetStatus(o, s),
           orderStatus[o] # "NONE", SameSide(orderStatus[o], s),
           UNCHANGED <<inventoryVars, lines, cancelled, dispatched>>
    PROVE  ReservedIsOwed' /\ \A p \in Orders : Dispatches(p)'
<1>1. /\ orderStatus'[o] = s /\ \A p \in Orders : p # o => orderStatus'[p] = orderStatus[p]
      /\ s # "NONE"
  BY DEF SetStatus, OrderInv, TypeOK, OrderStatus
<1>2. \A p \in Orders, v \in Variants : OwedTo(p, v)' = OwedTo(p, v)
  BY <1>1, OwedElsewhere DEF SameSide
<1>3. \A v \in Variants : OwedTo(o, v) \in 0..MaxQty /\ reserved[v] \in Nat
  BY OwedIsQuantity DEF OrderInv, TypeOK, InventoryTypeOK
<1>4. \A v \in Variants : reserved'[v] + OwedTo(o, v) = reserved[v] + OwedTo(o, v)'
  BY <1>2 DEF inventoryVars
<1>5. ReservedIsOwed'
  BY <1>2, <1>4, OwedMoves DEF OrderInv
<1>6. Dispatches(o)'
  <2>1. Dispatches(o)
    BY DEF OrderInv
  <2>2. QuantityOf(o, ActiveLines(o))' = QuantityOf(o, ActiveLines(o))
    BY DEF QuantityOf, ActiveLines
  <2> HIDE DEF QuantityOf, ActiveLines
  <2> QED
    BY <1>1, <2>1, <2>2 DEF Dispatches, SameSide
<1>7. \A p \in Orders : p # o => Dispatches(p)'
  BY <1>1, DispatchesElsewhere DEF OrderInv
<1> QED
  BY <1>5, <1>6, <1>7

\* A step that leaves orders and stock alone keeps the books of both.
LEMMA StockStill ==
    ASSUME OrderInv, TypeOK', UNCHANGED <<inventoryVars, orderVars>>
    PROVE  ReservedIsOwed' /\ \A p \in Orders : Dispatches(p)'
<1>1. \A p \in Orders : Dispatches(p)'
  BY DispatchesElsewhere DEF OrderInv, orderVars
<1>2. \A v \in Variants : UnitsIn(PreShipment, v)' = UnitsIn(PreShipment, v)
  BY DEF UnitsIn, ActiveLines, orderVars
<1>3. reserved' = reserved
  BY DEF inventoryVars
<1> QED
  BY <1>1, <1>2, <1>3 DEF OrderInv, ReservedIsOwed

-----------------------------------------------------------------------------
\* The units of an order that waits are those of its lines.
LEMMA OwedOfWaiting ==
    ASSUME OrderInv, NEW o \in Orders, orderStatus[o] \in PreShipment, NEW v \in Variants
    PROVE  /\ OwedTo(o, v) = QuantityOf(o, ActiveLines(o))[v]
           /\ OwedTo(o, v) \in Nat /\ OwedTo(o, v) <= reserved[v] /\ reserved[v] \in Nat
<1>1. OwedTo(o, v) \in 0..MaxQty /\ OwedTo(o, v) <= reserved[v] /\ reserved[v] \in Nat
  BY OwedIsQuantity, OwedIsReserved DEF OrderInv, TypeOK, InventoryTypeOK
<1>2. OwedTo(o, v) = QuantityOf(o, ActiveLines(o))[v]
  BY DEF OwedTo, QuantityOf
<1> QED
  BY <1>1, <1>2, OrdersAssumption

LEMMA PlaceStep ==
    ASSUME OrderInv, TypeOK', NEW o \in Orders, NEW cart \in Carts, PlaceOrder(o, cart)
    PROVE  OrderInv'
<1>1. orderStatus[o] = "NONE" /\ cancelled[o] = {} /\ dispatched[o] = [v \in Variants |-> 0]
  BY DEF PlaceOrder, OrderInv, Dispatches
<1>2. /\ orderStatus'[o] = "PENDING" /\ lines'[o] = cart /\ cancelled' = cancelled
      /\ \A p \in Orders : p # o => orderStatus'[p] = orderStatus[p] /\ lines'[p] = lines[p]
      /\ dispatched' = dispatched /\ request' = request
  BY DEF PlaceOrder, SetStatus, OrderInv, TypeOK
<1>3. ASSUME NEW r \in Requests PROVE Sees(r)'
  <2>1. Sees(r) /\ request'[r] = request[r]
    BY <1>2 DEF OrderInv
  <2>2. request[r].op # "idle" =>
           request[r].o \in Orders /\ request[r].o # o /\ orderStatus[request[r].o] # "NONE"
    BY <1>1, <2>1, RequestFields DEF OrderInv, Sees
  <2> QED
    BY <1>2, <2>1, <2>2, SeesStill, SideIsItself
<1>4. ASSUME NEW p \in Orders PROVE Dispatches(p)'
  <2>1. CASE p = o
    BY <1>1, <1>2, <2>1 DEF Dispatches, Out
  <2>2. CASE p # o
    BY <1>2, <2>2, DispatchesElsewhere DEF OrderInv
  <2> QED
    BY <2>1, <2>2
<1>5. ASSUME NEW v \in Variants
      PROVE  reserved'[v] + OwedTo(o, v) = reserved[v] + OwedTo(o, v)'
  <2>1. cart[v] \in Nat /\ reserved[v] \in Nat /\ reserved'[v] = reserved[v] + cart[v]
    BY OrdersAssumption DEF PlaceOrder, Reserve, OrderInv, TypeOK, InventoryTypeOK
  <2>2. OwedTo(o, v) = 0
    BY <1>1 DEF OwedTo, PreShipment
  <2>3. OwedTo(o, v)' = cart[v]
    BY <1>1, <1>2, <2>1 DEF OwedTo, PreShipment, ActiveLines
  <2> QED
    BY <2>1, <2>2, <2>3
<1>6. \A p \in Orders, v \in Variants : p # o => OwedTo(p, v)' = OwedTo(p, v)
  BY <1>2, OwedElsewhere
<1>7. ReservedIsOwed'
  BY <1>5, <1>6, OwedMoves DEF OrderInv
<1> QED
  BY <1>3, <1>4, <1>7 DEF OrderInv

\* A payment, or the raw route, comes between the steps of whatever requests.
LEMMA BetweenStep ==
    ASSUME OrderInv, TypeOK', CarefulPeople, NEW o \in Orders,
           ConfirmPayment(o) \/ \E to \in OrderStatus : AdminSetsStatus(o, to)
    PROVE  OrderInv'
<1>1. PICK s \in OrderStatus :
        /\ SetStatus(o, s) /\ orderStatus[o] # "NONE" /\ SameSide(orderStatus[o], s)
        /\ UNCHANGED <<inventoryVars, lines, cancelled, dispatched, request>>
  <2>1. CASE ConfirmPayment(o)
    <3>1. orderStatus[o] \in PreShipment /\ "CONFIRMED" \in PreShipment \cap OrderStatus
      BY <2>1 DEF ConfirmPayment, CarefulPeople, PreShipment, OrderStatus
    <3>2. SameSide(orderStatus[o], "CONFIRMED") /\ orderStatus[o] # "NONE"
      BY <3>1 DEF SameSide, PreShipment, Out
    <3> QED
      BY <2>1, <3>1, <3>2 DEF ConfirmPayment
  <2>2. CASE \E to \in OrderStatus : AdminSetsStatus(o, to)
    <3>1. PICK to \in OrderStatus : AdminSetsStatus(o, to)
      BY <2>2
    <3>2. <<orderStatus[o], to>> \in RawMoves
      BY <3>1 DEF AdminSetsStatus
    <3>3. SameSide(orderStatus[o], to)
      BY <3>2 DEF CarefulPeople
    <3>4. orderStatus[o] # "NONE"
      BY <3>2, MovesAssumption DEF OrderStatus
    <3> QED
      BY <3>1, <3>3, <3>4 DEF AdminSetsStatus
  <2> QED
    BY <2>1, <2>2
<1>2. ReservedIsOwed' /\ \A p \in Orders : Dispatches(p)'
  BY <1>1, SideStep
<1>3. ASSUME NEW r \in Requests PROVE Sees(r)'
  <2>1. Sees(r) /\ request'[r] = request[r]
    BY <1>1 DEF OrderInv
  <2>2. ASSUME request[r].op # "idle"
        PROVE  /\ orderStatus'[request[r].o] # "NONE"
               /\ SameSide(orderStatus[request[r].o], orderStatus'[request[r].o])
    <3>1. request[r].o \in Orders /\ orderStatus[request[r].o] # "NONE"
      BY <2>1, <2>2, RequestFields DEF OrderInv, Sees
    <3>2. CASE request[r].o = o
      BY <1>1, <3>2 DEF SetStatus, OrderInv, TypeOK, OrderStatus
    <3>3. CASE request[r].o # o
      BY <1>1, <3>1, <3>3, SideIsItself DEF SetStatus, OrderInv, TypeOK
    <3> QED
      BY <3>2, <3>3
  <2> QED
    BY <1>1, <2>1, <2>2, SeesStill
<1> QED
  BY <1>2, <1>3 DEF OrderInv

\* A request reads, or gives up.
LEMMA ReadStep ==
    ASSUME OrderInv, TypeOK', CarefulPeople, NEW q \in Requests,
           \/ \E o \in Orders :
                \/ ReadToCancel(q, o) \/ ReadToReturn(q, o)
                \/ \E v \in Variants : ReadToCancelItem(q, o, v)
                \/ \E to \in OrderStatus : ReadToUpdate(q, o, to)
           \/ ReadLinesToCancel(q)
           \/ Abort(q)
    PROVE  OrderInv'
<1>1. ASSUME NEW req, request' = [request EXCEPT ![q] = req], UNCHANGED orderVars
      PROVE  request'[q] = req /\ orderStatus' = orderStatus /\ lines' = lines /\ cancelled' = cancelled
  BY <1>1 DEF OrderInv, TypeOK, orderVars
<1>2. UNCHANGED <<inventoryVars, orderVars>> /\ Sees(q)' /\ \E req : request' = [request EXCEPT ![q] = req]
  <2>1. CASE \E o \in Orders : ReadToCancel(q, o)
    <3>1. PICK o \in Orders : ReadToCancel(q, o)
      BY <2>1
    <3>2. /\ request' = [request EXCEPT ![q] = [op |-> "cancel", o |-> o]] /\ UNCHANGED <<inventoryVars, orderVars>>
          /\ orderStatus[o] \in PreShipment
      BY <3>1 DEF ReadToCancel, Accept, PreShipment
    <3>3. request'[q] = [op |-> "cancel", o |-> o] /\ UNCHANGED <<orderStatus, lines, cancelled>>
      BY <1>1, <3>2
    <3>4. Sees(q)'
      BY <3>2, <3>3 DEF Sees, PreShipment, ActiveLines
    <3> QED
      BY <3>4, <3>2
  <2>2. CASE \E o \in Orders : ReadToReturn(q, o)
    <3>1. PICK o \in Orders : ReadToReturn(q, o)
      BY <2>2
    <3>2. /\ request' = [request EXCEPT ![q] = [op |-> "return", o |-> o]] /\ UNCHANGED <<inventoryVars, orderVars>>
          /\ orderStatus[o] = "DELIVERED"
      BY <3>1 DEF ReadToReturn, Accept
    <3>3. request'[q] = [op |-> "return", o |-> o] /\ UNCHANGED <<orderStatus, lines, cancelled>>
      BY <1>1, <3>2
    <3>4. Sees(q)'
      BY <3>2, <3>3 DEF Sees, Out, ActiveLines
    <3> QED
      BY <3>4, <3>2
  <2>3. CASE \E o \in Orders, v \in Variants : ReadToCancelItem(q, o, v)
    <3>1. PICK o \in Orders, v \in Variants : ReadToCancelItem(q, o, v)
      BY <2>3
    <3> DEFINE req == [op |-> "cancelItem", o |-> o, line |-> v, seen |-> orderStatus[o],
                       rest |-> ActiveLines(o) \ {v}]
    <3>2. /\ request' = [request EXCEPT ![q] = req] /\ UNCHANGED <<inventoryVars, orderVars>>
          /\ orderStatus[o] \in PreShipment /\ v \in ActiveLines(o)
      BY <3>1 DEF ReadToCancelItem, Accept
    <3>3. request'[q] = req /\ UNCHANGED <<orderStatus, lines, cancelled>>
      BY <1>1, <3>2
    <3>4. Sees(q)'
      BY <3>2, <3>3 DEF Sees, PreShipment, ActiveLines
    <3> QED
      BY <3>4, <3>2
  <2>4. CASE \E o \in Orders, to \in OrderStatus : ReadToUpdate(q, o, to)
    <3>1. PICK o \in Orders, to \in OrderStatus : ReadToUpdate(q, o, to)
      BY <2>4
    <3> DEFINE req == [op |-> "update", o |-> o, to |-> to, seen |-> orderStatus[o],
                       lines |-> ActiveLines(o)]
    <3>2. /\ request' = [request EXCEPT ![q] = req] /\ UNCHANGED <<inventoryVars, orderVars>>
          /\ <<orderStatus[o], to>> \in OperatorMoves
      BY <3>1 DEF ReadToUpdate, Accept
    <3>3. request'[q] = req /\ UNCHANGED <<orderStatus, lines, cancelled>>
      BY <1>1, <3>2
    <3>4. orderStatus[o] # "NONE"
      BY <3>2, MovesAssumption DEF OrderStatus
    <3>5. Sees(q)'
      BY <3>2, <3>3, <3>4, SideIsItself DEF Sees, ActiveLines
    <3> QED
      BY <3>5, <3>2
  <2>5. CASE ReadLinesToCancel(q)
    <3> DEFINE o == request[q].o
               req == [op |-> "cancelLines", o |-> o, lines |-> ActiveLines(o)]
    <3>1. /\ request' = [request EXCEPT ![q] = req] /\ UNCHANGED <<inventoryVars, orderVars>>
          /\ request[q].op = "cancel"
      BY <2>5 DEF ReadLinesToCancel
    <3>2. request'[q] = req /\ UNCHANGED <<orderStatus, lines, cancelled>>
      BY <1>1, <3>1
    <3>3. orderStatus[o] \in PreShipment /\ orderStatus[o] # "NONE"
      BY <3>1 DEF OrderInv, Sees
    <3>4. Sees(q)'
      BY <3>1, <3>2, <3>3 DEF Sees, ActiveLines
    <3> QED
      BY <3>4, <3>1
  <2>6. CASE Abort(q)
    <3>1. request' = [request EXCEPT ![q] = Idle] /\ UNCHANGED <<inventoryVars, orderVars>>
      BY <2>6 DEF Abort, Reply
    <3>2. request'[q].op = "idle"
      BY <1>1, <3>1 DEF Idle
    <3>3. Sees(q)'
      BY <3>1, <3>2 DEF Sees, ActiveLines
    <3> QED
      BY <3>3, <3>1
  <2> QED
    BY <2>1, <2>2, <2>3, <2>4, <2>5, <2>6
<1>3. \A r \in Requests : Sees(r)'
  BY <1>2, ReadersSee
<1>4. ReservedIsOwed' /\ \A p \in Orders : Dispatches(p)'
  BY <1>2, StockStill
<1> QED
  BY <1>3, <1>4 DEF OrderInv

\* Every line of an order that waits is released, and the order is cancelled.
LEMMA CancelStep ==
    ASSUME OrderInv, TypeOK', Apart, NEW q \in Requests, CancelOrder(q)
    PROVE  OrderInv'
<1> PICK o : o = request[q].o
  OBVIOUS
<1> DEFINE qty == QuantityOf(o, ActiveLines(o))
<1>1. request[q].op = "cancelLines" /\ o \in Orders
  BY RequestFields DEF CancelOrder, OrderInv
<1>2. orderStatus[o] \in PreShipment /\ request[q].lines = ActiveLines(o)
  BY <1>1 DEF OrderInv, Sees
<1>3. /\ Release(qty) /\ Reply(q) /\ UNCHANGED <<lines, cancelled, dispatched>>
      /\ orderStatus' = [orderStatus EXCEPT ![o] = "CANCELLED"]
  BY <1>2 DEF CancelOrder, SetStatus
<1>4. orderStatus'[o] = "CANCELLED" /\ \A p \in Orders : p # o => orderStatus'[p] = orderStatus[p]
  BY <1>1, <1>3 DEF OrderInv, TypeOK
<1>5. \A r \in Requests : Sees(r)'
  BY <1>1, <1>3, <1>4, OthersSee
<1>6. \A p \in Orders : p # o => Dispatches(p)'
  BY <1>3, <1>4, DispatchesElsewhere DEF OrderInv
<1>7. Dispatches(o)'
  BY <1>1, <1>2, <1>3, <1>4 DEF OrderInv, Dispatches, PreShipment, Out
<1>8. ASSUME NEW v \in Variants
      PROVE  reserved'[v] + OwedTo(o, v) = reserved[v] + OwedTo(o, v)'
  <2>1. /\ OwedTo(o, v) = qty[v] /\ OwedTo(o, v) \in Nat /\ reserved[v] \in Nat
        /\ OwedTo(o, v) <= reserved[v]
    BY <1>1, <1>2, OwedOfWaiting
  <2>2. OwedTo(o, v)' = 0
    BY <1>4 DEF OwedTo, PreShipment
  <2>3. reserved'[v] = reserved[v] - qty[v]
    BY <1>3, <2>1 DEF Release, Monus
  <2> QED
    BY <2>1, <2>2, <2>3
<1>9. \A p \in Orders, v \in Variants : p # o => OwedTo(p, v)' = OwedTo(p, v)
  BY <1>3, <1>4, OwedElsewhere
<1>10. ReservedIsOwed'
  BY <1>1, <1>8, <1>9, OwedMoves DEF OrderInv
<1> QED
  BY <1>5, <1>6, <1>7, <1>10 DEF OrderInv

\* One line is released; with the last one the order is cancelled.
LEMMA CancelItemStep ==
    ASSUME OrderInv, TypeOK', Apart, NEW q \in Requests, CancelItem(q)
    PROVE  OrderInv'
<1> PICK o : o = request[q].o
  OBVIOUS
<1> PICK line : line = request[q].line
  OBVIOUS
<1> DEFINE s == IF request[q].rest = {} THEN "CANCELLED" ELSE request[q].seen
<1>1. request[q].op = "cancelItem" /\ o \in Orders /\ line \in Variants
  BY RequestFields DEF CancelItem, OrderInv
<1>2. /\ orderStatus[o] \in PreShipment /\ request[q].seen \in PreShipment
      /\ line \in ActiveLines(o) /\ request[q].rest = ActiveLines(o) \ {line}
  BY <1>1 DEF OrderInv, Sees
<1>3. /\ Release(QuantityOf(o, {line})) /\ Reply(q) /\ UNCHANGED <<lines, dispatched>>
      /\ orderStatus' = [orderStatus EXCEPT ![o] = s]
      /\ cancelled' = [cancelled EXCEPT ![o] = cancelled[o] \cup {line}]
  BY DEF CancelItem, SetStatus
<1>4. /\ orderStatus'[o] = s /\ cancelled'[o] = cancelled[o] \cup {line}
      /\ \A p \in Orders : p # o => orderStatus'[p] = orderStatus[p] /\ cancelled'[p] = cancelled[p]
  BY <1>1, <1>3 DEF OrderInv, TypeOK
<1>5. s \in PreShipment \cup {"CANCELLED"} /\ (s \in PreShipment <=> ActiveLines(o) # {line})
  BY <1>2 DEF PreShipment
<1> HIDE DEF s
<1>6. \A r \in Requests : Sees(r)'
  BY <1>1, <1>3, <1>4, OthersSee
<1>7. \A p \in Orders : p # o => Dispatches(p)'
  BY <1>3, <1>4, DispatchesElsewhere DEF OrderInv
<1>8. Dispatches(o)'
  BY <1>1, <1>2, <1>3, <1>4, <1>5 DEF OrderInv, Dispatches, PreShipment, Out
<1>9. ASSUME NEW v \in Variants
      PROVE  reserved'[v] + OwedTo(o, v) = reserved[v] + OwedTo(o, v)'
  <2>1. /\ OwedTo(o, v) \in Nat /\ reserved[v] \in Nat /\ OwedTo(o, v) <= reserved[v]
        /\ OwedTo(o, v) = IF v \in ActiveLines(o) THEN lines[o][v] ELSE 0
    BY <1>1, <1>2, OwedOfWaiting DEF OwedTo
  <2>2. OwedTo(o, v)' = IF v \in ActiveLines(o) \ {line} THEN lines[o][v] ELSE 0
    BY <1>3, <1>4, <1>5 DEF OwedTo, ActiveLines
  <2>3. QuantityOf(o, {line})[v] = IF v = line THEN lines[o][v] ELSE 0
    BY DEF QuantityOf
  <2>4. CASE v = line
    <3>1. reserved'[v] = reserved[v] - lines[o][v]
      BY <1>2, <1>3, <2>1, <2>3, <2>4 DEF Release, Monus
    <3> QED
      BY <1>2, <2>1, <2>2, <2>4, <3>1
  <2>5. CASE v # line
    <3>1. reserved'[v] = reserved[v]
      BY <1>3, <2>1, <2>3, <2>5 DEF Release, Monus
    <3> QED
      BY <2>1, <2>2, <2>5, <3>1
  <2> QED
    BY <2>4, <2>5
<1>10. \A p \in Orders, v \in Variants : p # o => OwedTo(p, v)' = OwedTo(p, v)
  BY <1>3, <1>4, OwedElsewhere
<1>11. ReservedIsOwed'
  BY <1>1, <1>9, <1>10, OwedMoves DEF OrderInv
<1> QED
  BY <1>6, <1>7, <1>8, <1>11 DEF OrderInv

\* An order is shipped with all its lines, or its status changes on the same side.
LEMMA UpdateStep ==
    ASSUME OrderInv, TypeOK', Apart, CarefulPeople, NEW q \in Requests, UpdateStatus(q)
    PROVE  OrderInv'
<1> PICK o : o = request[q].o
  OBVIOUS
<1> PICK to : to = request[q].to
  OBVIOUS
<1> DEFINE qty == QuantityOf(o, ActiveLines(o))
<1>1. request[q].op = "update" /\ o \in Orders /\ to \in OrderStatus
  BY RequestFields DEF UpdateStatus, OrderInv
<1>2. /\ SameSide(request[q].seen, orderStatus[o]) /\ <<request[q].seen, to>> \in OperatorMoves
      /\ request[q].lines = ActiveLines(o) /\ orderStatus[o] # "NONE"
  BY <1>1 DEF OrderInv, Sees
<1>3. /\ Reply(q) /\ UNCHANGED <<lines, cancelled>>
      /\ orderStatus' = [orderStatus EXCEPT ![o] = to]
  BY DEF UpdateStatus, SetStatus
<1>4. orderStatus'[o] = to /\ \A p \in Orders : p # o => orderStatus'[p] = orderStatus[p]
  BY <1>1, <1>3 DEF OrderInv, TypeOK
<1>5. \A r \in Requests : Sees(r)'
  BY <1>1, <1>3, <1>4, OthersSee
<1>6. CASE to = "SHIPPED" /\ request[q].seen \in PreShipment
  <2>1. orderStatus[o] \in PreShipment
    BY <1>2, <1>6 DEF SameSide
  <2>2. /\ CommitShipment(qty)
        /\ dispatched' = [dispatched EXCEPT ![o] = [v \in Variants |-> dispatched[o][v] + qty[v]]]
    BY <1>2, <1>6 DEF UpdateStatus
  <2>3. dispatched'[o] = qty
    <3>1. dispatched[o] = [v \in Variants |-> 0]
      BY <1>1, <2>1 DEF OrderInv, Dispatches
    <3>2. qty \in [Variants -> Nat]
      BY <1>1, QuantityOfType DEF OrderInv
    <3> HIDE DEF qty
    <3>3. [v \in Variants |-> dispatched[o][v] + qty[v]] = qty
      BY <3>1, <3>2
    <3> QED
      BY <1>1, <2>2, <3>3 DEF OrderInv, TypeOK
  <2>4. QuantityOf(o, ActiveLines(o))' = qty
    BY <1>1, <1>3 DEF QuantityOf, ActiveLines
  <2>5. Dispatches(o)'
    BY <1>4, <1>6, <2>3, <2>4 DEF Dispatches, PreShipment, Out
  <2>6. \A p \in Orders : p # o => Dispatches(p)'
    BY <1>1, <1>3, <1>4, <2>2, DispatchesElsewhere DEF OrderInv, TypeOK
  <2>7. ASSUME NEW v \in Variants
        PROVE  reserved'[v] + OwedTo(o, v) = reserved[v] + OwedTo(o, v)'
    <3>1. OwedTo(o, v) = qty[v] /\ OwedTo(o, v) \in Nat /\ reserved[v] \in Nat
      BY <1>1, <2>1, OwedOfWaiting
    <3>2. OwedTo(o, v)' = 0
      BY <1>4, <1>6 DEF OwedTo, PreShipment
    <3>3. reserved'[v] = reserved[v] - qty[v]
      BY <2>2 DEF CommitShipment
    <3> QED
      BY <3>1, <3>2, <3>3
  <2>8. \A p \in Orders, v \in Variants : p # o => OwedTo(p, v)' = OwedTo(p, v)
    BY <1>3, <1>4, OwedElsewhere
  <2>9. ReservedIsOwed'
    BY <1>1, <2>7, <2>8, OwedMoves DEF OrderInv
  <2> QED
    BY <1>5, <2>5, <2>6, <2>9 DEF OrderInv
<1>7. CASE ~(to = "SHIPPED" /\ request[q].seen \in PreShipment)
  <2>1. SameSide(request[q].seen, to)
    BY <1>2, <1>7 DEF CarefulPeople
  <2>2. SameSide(orderStatus[o], to)
    BY <1>2, <2>1 DEF SameSide
  <2>3. UNCHANGED <<inventoryVars, dispatched>>
    BY <1>7 DEF UpdateStatus
  <2>4. ReservedIsOwed' /\ \A p \in Orders : Dispatches(p)'
    BY <1>1, <1>2, <1>3, <2>2, <2>3, SideStep DEF SetStatus
  <2> QED
    BY <1>5, <2>4 DEF OrderInv
<1> QED
  BY <1>6, <1>7

\* A return moves no stock.
LEMMA ReturnStep ==
    ASSUME OrderInv, TypeOK', Apart, NEW q \in Requests, CreateReturn(q)
    PROVE  OrderInv'
<1> PICK o : o = request[q].o
  OBVIOUS
<1>1. request[q].op = "return" /\ o \in Orders
  BY RequestFields DEF CreateReturn, OrderInv
<1>2. orderStatus[o] \in Out
  BY <1>1 DEF OrderInv, Sees
<1>3. /\ SetStatus(o, "RETURN_REQUESTED") /\ Reply(q)
      /\ UNCHANGED <<inventoryVars, lines, cancelled, dispatched>>
  BY DEF CreateReturn
<1>4. SameSide(orderStatus[o], "RETURN_REQUESTED") /\ "RETURN_REQUESTED" \in OrderStatus
      /\ orderStatus[o] # "NONE"
  BY <1>2 DEF SameSide, Out, PreShipment, OrderStatus
<1>5. ReservedIsOwed' /\ \A p \in Orders : Dispatches(p)'
  BY <1>1, <1>3, <1>4, SideStep
<1>6. \A p \in Orders : p # o => orderStatus'[p] = orderStatus[p]
  BY <1>1, <1>3 DEF SetStatus, OrderInv, TypeOK
<1>7. \A r \in Requests : Sees(r)'
  BY <1>1, <1>3, <1>6, OthersSee
<1> QED
  BY <1>5, <1>7 DEF OrderInv

LEMMA OrderStep ==
    ASSUME CarefulPeople
    PROVE  OrderInv /\ Apart /\ [Next]_vars => OrderInv'
<1> SUFFICES ASSUME OrderInv, Apart, [Next]_vars PROVE OrderInv'
  OBVIOUS
<1>1. TypeOK'
  BY TypeStep DEF OrderInv
<1>2. CASE \E o \in Orders, cart \in Carts : PlaceOrder(o, cart)
  BY <1>1, <1>2, PlaceStep
<1>3. CASE \E o \in Orders : ConfirmPayment(o) \/ \E to \in OrderStatus : AdminSetsStatus(o, to)
  BY <1>1, <1>3, BetweenStep
<1>4. CASE \E q \in Requests :
              \/ \E o \in Orders :
                   \/ ReadToCancel(q, o) \/ ReadToReturn(q, o)
                   \/ \E v \in Variants : ReadToCancelItem(q, o, v)
                   \/ \E to \in OrderStatus : ReadToUpdate(q, o, to)
              \/ ReadLinesToCancel(q)
              \/ Abort(q)
  BY <1>1, <1>4, ReadStep
<1>5. CASE \E q \in Requests : CancelOrder(q) \/ CancelItem(q) \/ UpdateStatus(q) \/ CreateReturn(q)
  BY <1>1, <1>5, CancelStep, CancelItemStep, UpdateStep, ReturnStep
<1>6. CASE UNCHANGED vars
  <2>1. UNCHANGED <<inventoryVars, orderVars>> /\ request' = request
    BY <1>6 DEF vars
  <2>2. ASSUME NEW r \in Requests PROVE Sees(r)'
    BY <2>1, SeesStill, SideIsItself DEF OrderInv, Sees, orderVars
  <2> QED
    BY <1>1, <2>1, <2>2, StockStill DEF OrderInv
<1> QED
  BY <1>2, <1>3, <1>4, <1>5, <1>6 DEF Next

LEMMA OrderStart == Init => OrderInv
<1> SUFFICES ASSUME Init PROVE OrderInv
  OBVIOUS
<1>1. TypeOK
  BY OrderTypeStart
<1>2. \A q \in Requests : Sees(q)
  BY DEF Init, Sees, Idle
<1>3. \A o \in Orders : Dispatches(o)
  BY DEF Init, Dispatches, PreShipment, Out
<1>4. ASSUME NEW v \in Variants PROVE UnitsIn(PreShipment, v) = 0
  <2>1. \A o \in Orders : orderStatus[o] \notin PreShipment
    BY DEF Init, PreShipment
  <2>2. {u \in Orders \X (1..MaxQty) :
           orderStatus[u[1]] \in PreShipment /\ v \in ActiveLines(u[1]) /\ u[2] <= lines[u[1]][v]} = {}
    BY <2>1
  <2> QED
    BY <2>2, FS_EmptySet DEF UnitsIn
<1>5. ReservedIsOwed
  BY <1>4 DEF Init, InventoryInit, ReservedIsOwed
<1> QED
  BY <1>1, <1>2, <1>3, <1>5 DEF OrderInv

\* invariant-validator.service.ts:109: while no two requests about one order overlap and
\* people are careful, what is reserved is what the orders not shipped yet are owed.
THEOREM ReservedIsAlwaysOwed ==
    ASSUME CarefulPeople
    PROVE  Spec /\ []Apart => []ReservedIsOwed
<1>1. OrderInv => ReservedIsOwed
  BY DEF OrderInv
<1> QED
  BY <1>1, OrderStart, OrderStep, PTL DEF Spec

\* orders.service.ts:781: what has left the warehouse for a shipped order is what it
\* ordered, once, and for the others nothing.
THEOREM ShippedIsAlwaysOrdered ==
    ASSUME CarefulPeople
    PROVE  Spec /\ []Apart => []ShippedAsOrdered
<1>1. OrderInv => ShippedAsOrdered
  BY DEF OrderInv, Dispatches, ShippedAsOrdered, PreShipment, Out
<1> QED
  BY <1>1, OrderStart, OrderStep, PTL DEF Spec
=============================================================================
