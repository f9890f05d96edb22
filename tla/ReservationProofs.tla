--------------------------- MODULE ReservationProofs ---------------------------
(***************************************************************************)
(* Theorems about CartReservation, for any users, carts, pods and number   *)
(* of requests, and about FlashGate in front of it.                        *)
(*                                                                         *)
(* The argument counts units: what the WarehouseInventory row has reserved *)
(* is the number of units held by active reservations and by orders made   *)
(* from consumed ones, and every transaction that moves units moves        *)
(* exactly those of the rows it flips.                                     *)
(***************************************************************************)
EXTENDS FlashGate, InventoryProofs, FiniteSetTheorems, TLAPS

ItemsType == [Reservations -> [Variants -> 0..MaxQty]]

-----------------------------------------------------------------------------
(***************************************************************************)
(* Counting units.                                                         *)
(***************************************************************************)

\* The units of finitely many reservations are finitely many.
LEMMA UnitsFinite ==
    ASSUME NEW it, NEW v, NEW S \in SUBSET Reservations
    PROVE  /\ IsFiniteSet(Units(it, v, S))
           /\ Cardinality(Units(it, v, S)) \in Nat
<1>1. IsFiniteSet(Reservations) /\ IsFiniteSet(1..MaxQty)
  BY FS_Interval, BoundsAssumption DEF Reservations
<1>2. IsFiniteSet(S)
  BY <1>1, FS_Subset
<1>3. IsFiniteSet(S \X (1..MaxQty))
  BY <1>1, <1>2, FS_Product
<1>4. Units(it, v, S) \in SUBSET (S \X (1..MaxQty))
  BY DEF Units
<1>5. IsFiniteSet(Units(it, v, S))
  BY <1>3, <1>4, FS_Subset
<1> QED
  BY <1>5, FS_CardinalityType

\* Nothing holds nothing.
LEMMA UnitsOfNone ==
    ASSUME NEW it, NEW v
    PROVE  Cardinality(Units(it, v, {})) = 0
<1>1. Units(it, v, {}) = {}
  BY DEF Units
<1> QED
  BY <1>1, FS_EmptySet

\* Disjoint sets of reservations hold disjoint units.
LEMMA UnitsOfUnion ==
    ASSUME NEW it, NEW v,
           NEW S \in SUBSET Reservations, NEW T \in SUBSET Reservations,
           S \cap T = {}
    PROVE  Cardinality(Units(it, v, S \cup T))
             = Cardinality(Units(it, v, S)) + Cardinality(Units(it, v, T))
<1> DEFINE A == Units(it, v, S)
           B == Units(it, v, T)
<1>1. Units(it, v, S \cup T) = A \cup B
  BY DEF Units
<1>2. A \cap B = {}
  BY DEF Units
<1>3. /\ IsFiniteSet(A) /\ IsFiniteSet(B)
      /\ Cardinality(A) \in Nat /\ Cardinality(B) \in Nat
  BY UnitsFinite
<1> HIDE DEF A, B
<1>4. Cardinality(A \cup B) = Cardinality(A) + Cardinality(B) - Cardinality(A \cap B)
  BY <1>3, FS_Union
<1>5. Cardinality(A \cap B) = 0
  BY <1>2, FS_EmptySet
<1>6. Cardinality(A \cup B) = Cardinality(A) + Cardinality(B)
  BY <1>3, <1>4, <1>5
<1> QED
  BY <1>1, <1>6 DEF A, B

\* Taking some reservations away takes their units away.
LEMMA UnitsOfDifference ==
    ASSUME NEW it, NEW v,
           NEW S \in SUBSET Reservations, NEW T \in SUBSET S
    PROVE  /\ Cardinality(Units(it, v, S \ T))
                = Cardinality(Units(it, v, S)) - Cardinality(Units(it, v, T))
           /\ Cardinality(Units(it, v, T)) <= Cardinality(Units(it, v, S))
<1>1. (S \ T) \cup T = S /\ (S \ T) \cap T = {}
  OBVIOUS
<1>2. Cardinality(Units(it, v, (S \ T) \cup T))
        = Cardinality(Units(it, v, S \ T)) + Cardinality(Units(it, v, T))
  BY <1>1, UnitsOfUnion
<1>3. Cardinality(Units(it, v, S))
        = Cardinality(Units(it, v, S \ T)) + Cardinality(Units(it, v, T))
  BY <1>1, <1>2, Zenon
<1>4. /\ Cardinality(Units(it, v, S \ T)) \in Nat
      /\ Cardinality(Units(it, v, T)) \in Nat
  BY UnitsFinite
<1> QED
  BY <1>3, <1>4

\* One reservation holds as many units of v as its line says.
LEMMA UnitsOfOne ==
    ASSUME NEW it \in ItemsType, NEW v \in Variants, NEW r \in Reservations
    PROVE  Cardinality(Units(it, v, {r})) = it[r][v]
<1> DEFINE n == it[r][v]
           U == Units(it, v, {r})
           f == [i \in 1..n |-> <<r, i>>]
<1>1. n \in Nat /\ n <= MaxQty
  BY BoundsAssumption DEF ItemsType
<1>2. U = {<<r, i>> : i \in 1..n}
  BY <1>1, BoundsAssumption DEF Units
<1> HIDE DEF n, U
<1>3. f \in Bijection(1..n, U)
  BY <1>2 DEF Bijection, Injection, Surjection, IsInjective
<1>4. ExistsBijection(1..n, U)
  BY <1>3 DEF ExistsBijection
<1>5. Cardinality(U) = n
  BY <1>1, <1>4, FS_CountingElements
<1> QED
  BY <1>5 DEF n, U

\* Only the lines of the reservations counted matter.
LEMMA UnitsAgree ==
    ASSUME NEW it, NEW jt, NEW v, NEW S, \A r \in S : it[r] = jt[r]
    PROVE  Units(it, v, S) = Units(jt, v, S)
BY DEF Units

-----------------------------------------------------------------------------
(***************************************************************************)
(* Type correctness.                                                       *)
(***************************************************************************)

LEMMA TypeInit == Init => TypeOK
BY BoundsAssumption, StockAssumption
   DEF Init, TypeOK, InventoryInit, InventoryTypeOK, Request, Idle, Reservations

LEMMA QuantityType ==
    ASSUME NEW S \in SUBSET Reservations
    PROVE  Quantity(S) \in [Variants -> Nat]
BY UnitsFinite DEF Quantity

LEMMA ExpireRowType ==
    ASSUME TypeOK, NEW r \in Reservations, ExpireRow(r)
    PROVE  /\ InventoryTypeOK'
           /\ status' \in [Reservations -> {"NONE", "ACTIVE", "CONSUMED", "EXPIRED"}]
<1>1. items[r] \in [Variants -> Nat]
  BY BoundsAssumption DEF TypeOK
<1>2. CASE status[r] = "ACTIVE"
  <2>1. Release(items[r])
    BY <1>2 DEF ExpireRow
  <2>2. InventoryTypeOK
    BY DEF TypeOK
  <2>3. InventoryTypeOK'
    BY <1>1, <2>1, <2>2, ReleaseType
  <2> QED
    BY <1>2, <2>3 DEF ExpireRow, TypeOK
<1>3. CASE status[r] # "ACTIVE"
  BY <1>3 DEF ExpireRow, TypeOK, InventoryTypeOK, inventoryVars
<1> QED
  BY <1>2, <1>3

LEMMA TypeStep == TypeOK /\ [Next]_vars => TypeOK'
<1> SUFFICES ASSUME TypeOK, [Next]_vars PROVE TypeOK'
  OBVIOUS
<1> USE DEF reservationVars, Reply
<1>0. InventoryTypeOK
  BY DEF TypeOK
<1>a. UNCHANGED inventoryVars => InventoryTypeOK'
  BY <1>0 DEF inventoryVars, InventoryTypeOK
<1>b. \A q \in Requests : Reply(q) => request' \in [Requests -> Request]
  BY DEF TypeOK, Request
<1>1. ASSUME NEW q \in Requests, NEW u \in Users, NEW cart \in Carts, ReadCart(q, u, cart)
      PROVE  TypeOK'
  <2>1. Victims(u) \in SUBSET Reservations
    BY DEF Victims, Live, Active
  <2>2. [op |-> "reserve", user |-> u, cart |-> cart, victims |-> Victims(u)] \in Request
    BY <2>1 DEF Request
  <2> QED
    BY <1>1, <1>a, <2>2 DEF ReadCart, TypeOK
<1>2. ASSUME NEW q \in Requests, NEW r \in Reservations, ReadForRelease(q, r)
      PROVE  TypeOK'
  BY <1>2, <1>a DEF ReadForRelease, TypeOK, Request
<1>3. ASSUME NEW q \in Requests, NEW r \in Reservations, ValidateForCheckout(q, r)
      PROVE  TypeOK'
  BY <1>3, <1>a DEF ValidateForCheckout, TypeOK, Request
<1>c. ASSUME NEW q \in Requests, NEW r \in Reservations, request[q].op = "reserve",
             request' = [request EXCEPT ![q].victims = @ \ {r}]
      PROVE  request' \in [Requests -> Request]
  <2>1. request[q] \in [op : {"reserve"}, user : Users, cart : Carts,
                        victims : SUBSET Reservations]
    BY <1>c DEF TypeOK, Request, Idle
  <2>2. [request[q] EXCEPT !.victims = @ \ {r}] \in Request
    BY <2>1 DEF Request
  <2> QED
    BY <1>c, <2>2 DEF TypeOK
<1>4. ASSUME NEW q \in Requests, NEW r \in Reservations, ReleaseVictim(q, r)
      PROVE  TypeOK'
  <2>1. request' \in [Requests -> Request]
    BY <1>4, <1>c DEF ReleaseVictim
  <2> QED
    BY <1>4, <2>1, ExpireRowType DEF ReleaseVictim, ExpireRow, TypeOK
<1>5. ASSUME NEW q \in Requests, NEW r \in Reservations, SkipVictim(q, r)
      PROVE  TypeOK'
  <2>1. request' \in [Requests -> Request]
    BY <1>5, <1>c DEF SkipVictim
  <2> QED
    BY <1>5, <1>a, <2>1 DEF SkipVictim, TypeOK
<1>6. ASSUME NEW q \in Requests, NEW r \in Reservations, CreateReservation(q, r)
      PROVE  TypeOK'
  <2>1. request[q].cart \in Carts /\ request[q].user \in Users
    BY <1>6 DEF CreateReservation, TypeOK, Request, Idle
  <2>2. /\ request[q].cart \in [Variants -> 0..MaxQty]
        /\ request[q].cart \in [Variants -> Nat]
    BY <2>1, CartsAssumption, BoundsAssumption
  <2>3. InventoryTypeOK'
    BY <1>0, <1>6, <2>2, ReserveType DEF CreateReservation
  <2> QED
    BY <1>6, <1>b, <2>1, <2>2, <2>3 DEF CreateReservation, TypeOK
<1>7. ASSUME NEW q \in Requests, RejectReservation(q)
      PROVE  TypeOK'
  BY <1>7, <1>a, <1>b DEF RejectReservation, TypeOK
<1>8. ASSUME NEW q \in Requests, ReleaseById(q)
      PROVE  TypeOK'
  <2>1. request[q].r \in Reservations
    BY <1>8 DEF ReleaseById, TypeOK, Request, Idle
  <2> QED
    BY <1>8, <1>b, <2>1, ExpireRowType DEF ReleaseById, ExpireRow, TypeOK
<1>9. ASSUME NEW q \in Requests, PlaceOrder(q)
      PROVE  TypeOK'
  <2>1. request[q].r \in Reservations
    BY <1>9 DEF PlaceOrder, TypeOK, Request, Idle
  <2>2. status' \in [Reservations -> {"NONE", "ACTIVE", "CONSUMED", "EXPIRED"}]
    BY <1>9, <2>1 DEF PlaceOrder, Consume, TypeOK
  <2>3. orders' \in [Reservations -> Nat]
    BY <1>9, <2>1 DEF PlaceOrder, TypeOK
  <2>4. InventoryTypeOK' /\ request' \in [Requests -> Request]
    BY <1>9, <1>a, <1>b DEF PlaceOrder
  <2> QED
    BY <1>9, <2>2, <2>3, <2>4 DEF PlaceOrder, TypeOK
<1>10. ASSUME NEW q \in Requests, RejectOrder(q)
       PROVE  TypeOK'
  BY <1>10, <1>a, <1>b DEF RejectOrder, TypeOK
<1>11. ASSUME NEW q \in Requests, Abort(q)
       PROVE  TypeOK'
  BY <1>11, <1>a, <1>b DEF Abort, TypeOK
<1>12. ASSUME NEW r \in Reservations, Elapse(r)
       PROVE  TypeOK'
  BY <1>12, <1>a DEF Elapse, TypeOK
<1>13. ASSUME NEW p \in Pods, NEW S \in SUBSET Reservations, ExpirySnapshot(p, S)
       PROVE  TypeOK'
  BY <1>13, <1>a DEF ExpirySnapshot, TypeOK
<1>14. ASSUME NEW p \in Pods, ExpiryCommit(p)
       PROVE  TypeOK'
  <2>1. batch[p] \cap Active \in SUBSET Reservations
    BY DEF Active
  <2>2. InventoryTypeOK'
    BY <1>0, <1>14, <2>1, QuantityType, ReleaseType DEF ExpiryCommit
  <2> QED
    BY <1>14, <2>2 DEF ExpiryCommit, TypeOK
<1>15. ASSUME NEW p \in Pods, ExpiryAbort(p)
       PROVE  TypeOK'
  BY <1>15, <1>a DEF ExpiryAbort, TypeOK
<1>16. ASSUME NEW v \in Variants, NEW n \in StockLevels, OperatorSetsStock(v, n)
       PROVE  TypeOK'
  BY <1>16, StockAssumption DEF OperatorSetsStock, UpdateInventory, TypeOK, InventoryTypeOK
<1>17. ASSUME NEW v \in Variants, NEW n \in VariantEdits, OperatorEditsVariant(v, n)
       PROVE  TypeOK'
  BY <1>17, StockAssumption DEF OperatorEditsVariant, UpdateVariant, TypeOK, InventoryTypeOK
<1>18. CASE UNCHANGED vars
  BY <1>18, <1>a DEF vars, TypeOK
<1> QED
  BY <1>1, <1>2, <1>3, <1>4, <1>5, <1>6, <1>7, <1>8, <1>9, <1>10, <1>11, <1>12,
     <1>13, <1>14, <1>15, <1>16, <1>17, <1>18 DEF Next, Serve

\* Every column keeps its type, whatever requests and sweeps interleave; in
\* particular no quantity of a WarehouseInventory or Variant row goes negative.
THEOREM TypeCorrect == Spec => []TypeOK
BY TypeInit, TypeStep, PTL DEF Spec

-----------------------------------------------------------------------------
(***************************************************************************)
(* I-2: what is reserved is what active reservations and orders hold.      *)
(* Together with TypeOK the equation is inductive: it determines reserved, *)
(* so each transaction only has to move the units of the rows it flips.    *)
(***************************************************************************)

HeldUnits(v) == Cardinality(Units(items, v, Holding))

\* The equation, variant by variant.
LEMMA ReservedIsHeldPointwise ==
    ASSUME TypeOK
    PROVE  ReservedIsHeld <=> \A v \in Variants : reserved[v] = HeldUnits(v)
BY DEF ReservedIsHeld, Quantity, HeldUnits, TypeOK, InventoryTypeOK

LEMMA HeldInit == Init => ReservedIsHeld
<1> SUFFICES ASSUME Init PROVE ReservedIsHeld
  OBVIOUS
<1>1. Holding = {}
  BY DEF Init, Holding
<1>2. \A v \in Variants : Cardinality(Units(items, v, Holding)) = 0
  BY <1>1, UnitsOfNone
<1> QED
  BY <1>2 DEF Init, InventoryInit, ReservedIsHeld, Quantity

\* A transaction that flips the reservations of S from ACTIVE to EXPIRED and
\* releases their units preserves the equation, and never clamps.
LEMMA HeldAfterFlip ==
    ASSUME TypeOK, ReservedIsHeld,
           NEW S \in SUBSET Active,
           Release(Quantity(S)),
           status' = [r \in Reservations |-> IF r \in S THEN "EXPIRED" ELSE status[r]],
           UNCHANGED items
    PROVE  ReservedIsHeld'
<1>1. Holding' = Holding \ S /\ S \in SUBSET Holding /\ Holding \in SUBSET Reservations
  BY DEF Holding, Active, TypeOK
<1>2. S \in SUBSET Reservations
  BY <1>1
<1> SUFFICES ASSUME NEW v \in Variants
             PROVE  reserved'[v] = Cardinality(Units(items', v, Holding'))
  BY DEF ReservedIsHeld, Quantity, Release
<1> DEFINE held == Cardinality(Units(items, v, Holding))
           given == Cardinality(Units(items, v, S))
<1>3. held \in Nat /\ given \in Nat
  BY <1>1, <1>2, UnitsFinite
<1>4. Cardinality(Units(items, v, Holding \ S)) = held - given /\ given <= held
  BY <1>1, UnitsOfDifference
<1>5. reserved[v] = held
  BY DEF ReservedIsHeld, Quantity
<1>6. reserved'[v] = Monus(reserved[v], given)
  BY DEF Release, Quantity
<1>7. Cardinality(Units(items', v, Holding')) = Cardinality(Units(items, v, Holding \ S))
  BY <1>1
<1> HIDE DEF held, given
<1> QED
  BY <1>3, <1>4, <1>5, <1>6, <1>7 DEF Monus

LEMMA HeldAfterExpireRow ==
    ASSUME TypeOK, ReservedIsHeld, NEW r \in Reservations, ExpireRow(r)
    PROVE  ReservedIsHeld'
<1>1. CASE status[r] = "ACTIVE"
  <2>1. \A v \in Variants : Cardinality(Units(items, v, {r})) = items[r][v]
    BY UnitsOfOne DEF TypeOK, ItemsType
  <2>2. items[r] = Quantity({r})
    BY <2>1 DEF Quantity, TypeOK
  <2>3. status' = [s \in Reservations |-> IF s \in {r} THEN "EXPIRED" ELSE status[s]]
    BY <1>1 DEF ExpireRow, TypeOK
  <2>4. {r} \in SUBSET Active
    BY <1>1 DEF Active
  <2> QED
    BY <1>1, <2>2, <2>3, <2>4, HeldAfterFlip DEF ExpireRow
<1>2. CASE status[r] # "ACTIVE"
  BY <1>2 DEF ExpireRow, inventoryVars, ReservedIsHeld, Quantity, Holding
<1> QED
  BY <1>1, <1>2

LEMMA HeldAfterCreate ==
    ASSUME TypeOK, ReservedIsHeld,
           NEW q \in Requests, NEW r \in Reservations, CreateReservation(q, r)
    PROVE  ReservedIsHeld'
<1> DEFINE cart == request[q].cart
<1>1. cart \in [Variants -> 0..MaxQty]
  BY CartsAssumption DEF CreateReservation, TypeOK, Request, Idle
<1>2. /\ r \notin Holding
      /\ Holding \in SUBSET Reservations
      /\ Holding' = Holding \cup {r}
  BY DEF CreateReservation, NextRow, Holding, TypeOK
<1>3. items' = [items EXCEPT ![r] = cart] /\ items' \in ItemsType
  BY <1>1 DEF CreateReservation, TypeOK, ItemsType
<1>4. \A s \in Holding : items'[s] = items[s]
  BY <1>2, <1>3 DEF TypeOK
<1>5. items'[r] = cart
  BY <1>3 DEF TypeOK
<1> SUFFICES ASSUME NEW v \in Variants
             PROVE  reserved'[v] = Cardinality(Units(items', v, Holding'))
  BY DEF ReservedIsHeld, Quantity, CreateReservation, Reserve
<1>6. Cardinality(Units(items', v, Holding \cup {r}))
        = Cardinality(Units(items', v, Holding)) + Cardinality(Units(items', v, {r}))
  BY <1>2, UnitsOfUnion
<1>7. Units(items', v, Holding) = Units(items, v, Holding)
  BY <1>4, UnitsAgree
<1>8. Cardinality(Units(items', v, {r})) = cart[v]
  BY <1>3, <1>5, UnitsOfOne
<1>9. reserved[v] = Cardinality(Units(items, v, Holding))
  BY DEF ReservedIsHeld, Quantity
<1>10. reserved'[v] = reserved[v] + cart[v]
  BY DEF CreateReservation, Reserve
<1>11. Cardinality(Units(items', v, Holding')) = Cardinality(Units(items, v, Holding)) + cart[v]
  BY <1>2, <1>6, <1>7, <1>8
<1> QED
  BY <1>9, <1>10, <1>11

LEMMA HeldStep == TypeOK /\ ReservedIsHeld /\ [Next]_vars => ReservedIsHeld'
<1> SUFFICES ASSUME TypeOK, ReservedIsHeld, [Next]_vars PROVE ReservedIsHeld'
  OBVIOUS
<1>a. UNCHANGED <<reserved, items, status>> => ReservedIsHeld'
  BY DEF ReservedIsHeld, Quantity, Holding
<1> USE DEF inventoryVars, reservationVars
<1>1. ASSUME NEW q \in Requests, NEW u \in Users, NEW cart \in Carts, ReadCart(q, u, cart)
      PROVE  ReservedIsHeld'
  BY <1>1, <1>a DEF ReadCart
<1>2. ASSUME NEW q \in Requests, NEW r \in Reservations,
             ReadForRelease(q, r) \/ ValidateForCheckout(q, r) \/ SkipVictim(q, r)
      PROVE  ReservedIsHeld'
  BY <1>2, <1>a DEF ReadForRelease, ValidateForCheckout, SkipVictim
<1>3. ASSUME NEW q \in Requests, NEW r \in Reservations, ReleaseVictim(q, r)
      PROVE  ReservedIsHeld'
  BY <1>3, HeldAfterExpireRow DEF ReleaseVictim
<1>4. ASSUME NEW q \in Requests, NEW r \in Reservations, CreateReservation(q, r)
      PROVE  ReservedIsHeld'
  BY <1>4, HeldAfterCreate
<1>5. ASSUME NEW q \in Requests, RejectReservation(q) \/ RejectOrder(q) \/ Abort(q)
      PROVE  ReservedIsHeld'
  BY <1>5, <1>a DEF RejectReservation, RejectOrder, Abort
<1>6. ASSUME NEW q \in Requests, ReleaseById(q)
      PROVE  ReservedIsHeld'
  <2>1. request[q].r \in Reservations
    BY <1>6 DEF ReleaseById, TypeOK, Request, Idle
  <2> QED
    BY <1>6, <2>1, HeldAfterExpireRow DEF ReleaseById
<1>7. ASSUME NEW q \in Requests, PlaceOrder(q)
      PROVE  ReservedIsHeld'
  <2>1. Holding' = Holding
    BY <1>7 DEF PlaceOrder, Consume, Holding, TypeOK
  <2> QED
    BY <1>7, <2>1 DEF PlaceOrder, ReservedIsHeld, Quantity
<1>8. ASSUME NEW r \in Reservations, Elapse(r)
      PROVE  ReservedIsHeld'
  BY <1>8, <1>a DEF Elapse
<1>9. ASSUME NEW p \in Pods, NEW S \in SUBSET Reservations,
             ExpirySnapshot(p, S) \/ ExpiryAbort(p)
      PROVE  ReservedIsHeld'
  BY <1>9, <1>a DEF ExpirySnapshot, ExpiryAbort
<1>10. ASSUME NEW p \in Pods, ExpiryCommit(p)
       PROVE  ReservedIsHeld'
  <2>1. batch[p] \cap Active \in SUBSET Active
    OBVIOUS
  <2> QED
    BY <1>10, <2>1, HeldAfterFlip DEF ExpiryCommit
<1>11. ASSUME NEW v \in Variants, NEW n \in Nat,
              OperatorSetsStock(v, n) \/ OperatorEditsVariant(v, n)
       PROVE  ReservedIsHeld'
  BY <1>11, <1>a DEF OperatorSetsStock, UpdateInventory, OperatorEditsVariant, UpdateVariant
<1>12. CASE UNCHANGED vars
  BY <1>12, <1>a DEF vars
<1>13. StockLevels \subseteq Nat /\ VariantEdits \subseteq Nat
  BY StockAssumption
<1> QED
  BY <1>1, <1>2, <1>3, <1>4, <1>5, <1>6, <1>7, <1>8, <1>9, <1>10, <1>11, <1>12, <1>13
     DEF Next, Serve

\* I-2 for every instance: the reserved column of a variant is at all times
\* the number of units held by active reservations and by orders.  No release
\* is lost, none happens twice, and none takes back what an order owns.
THEOREM ReservedIsAlwaysHeld == Spec => []ReservedIsHeld
BY TypeCorrect, HeldInit, HeldStep, PTL DEF Spec

-----------------------------------------------------------------------------
(***************************************************************************)
(* No oversell.                                                            *)
(***************************************************************************)

LEMMA NoOversellAfterExpireRow ==
    ASSUME TypeOK, NoOversell, NEW r \in Reservations, ExpireRow(r)
    PROVE  NoOversell'
<1>1. items[r] \in [Variants -> Nat] /\ InventoryTypeOK
  BY BoundsAssumption DEF TypeOK
<1>2. CASE status[r] = "ACTIVE"
  BY <1>1, <1>2, NoOversellAfterRelease DEF ExpireRow
<1>3. CASE status[r] # "ACTIVE"
  BY <1>3 DEF ExpireRow, inventoryVars, NoOversell
<1> QED
  BY <1>2, <1>3

LEMMA NoOversellStep == TypeOK /\ NoOversell /\ [Next]_vars => NoOversell'
<1> SUFFICES ASSUME TypeOK, NoOversell, [Next]_vars PROVE NoOversell'
  OBVIOUS
<1>0. InventoryTypeOK
  BY DEF TypeOK
<1>a. UNCHANGED <<reserved, stock>> => NoOversell'
  BY DEF NoOversell
<1> USE DEF inventoryVars
<1>1. ASSUME NEW q \in Requests, NEW r \in Reservations, ReleaseVictim(q, r)
      PROVE  NoOversell'
  BY <1>1, NoOversellAfterExpireRow DEF ReleaseVictim
<1>2. ASSUME NEW q \in Requests, ReleaseById(q)
      PROVE  NoOversell'
  <2>1. request[q].r \in Reservations
    BY <1>2 DEF ReleaseById, TypeOK, Request, Idle
  <2> QED
    BY <1>2, <2>1, NoOversellAfterExpireRow DEF ReleaseById
<1>3. ASSUME NEW q \in Requests, NEW r \in Reservations, CreateReservation(q, r)
      PROVE  NoOversell'
  <2>1. request[q].cart \in [Variants -> Nat]
    BY <1>3, CartsAssumption, BoundsAssumption
       DEF CreateReservation, TypeOK, Request, Idle
  <2> QED
    BY <1>0, <1>3, <2>1
       DEF CreateReservation, Reserve, Reservable, Sellable, NoOversell, InventoryTypeOK
<1>4. ASSUME NEW p \in Pods, ExpiryCommit(p)
      PROVE  NoOversell'
  <2>1. Quantity(batch[p] \cap Active) \in [Variants -> Nat]
    BY QuantityType DEF Active
  <2> QED
    BY <1>0, <1>4, <2>1, NoOversellAfterRelease DEF ExpiryCommit
<1>5. ASSUME NEW v \in Variants, NEW n \in Nat, OperatorSetsStock(v, n)
      PROVE  NoOversell'
  BY <1>0, <1>5 DEF OperatorSetsStock, UpdateInventory, NoOversell, InventoryTypeOK
<1>6. ASSUME \/ \E q \in Requests :
                  \/ \E u \in Users, cart \in Carts : ReadCart(q, u, cart)
                  \/ \E r \in Reservations :
                       ReadForRelease(q, r) \/ ValidateForCheckout(q, r) \/ SkipVictim(q, r)
                  \/ RejectReservation(q) \/ PlaceOrder(q) \/ RejectOrder(q) \/ Abort(q)
             \/ \E r \in Reservations : Elapse(r)
             \/ \E p \in Pods :
                  (\E S \in SUBSET Reservations : ExpirySnapshot(p, S)) \/ ExpiryAbort(p)
             \/ \E v \in Variants : \E n \in VariantEdits : OperatorEditsVariant(v, n)
             \/ UNCHANGED vars
      PROVE  NoOversell'
  BY <1>6, <1>a
     DEF ReadCart, ReadForRelease, ValidateForCheckout, SkipVictim, RejectReservation,
         PlaceOrder, RejectOrder, Abort, Elapse, ExpirySnapshot, ExpiryAbort,
         OperatorEditsVariant, UpdateVariant, vars
<1>7. StockLevels \subseteq Nat
  BY StockAssumption
<1> QED
  BY <1>1, <1>2, <1>3, <1>4, <1>5, <1>6, <1>7 DEF Next, Serve

\* The reserved column never exceeds the stock column, with any interleaving of
\* checkouts, releases, sweeps and stock updates, so the conditional update
\* alone, without the CHECK constraint behind it, prevents overselling.
THEOREM NeverOversold == Spec => []NoOversell
<1>1. ASSUME Init PROVE NoOversell
  <2>1. \A v \in Variants : reserved[v] = 0 /\ stock[v] \in Nat
    BY <1>1, StockAssumption DEF Init, InventoryInit
  <2>2. ASSUME NEW v \in Variants PROVE reserved[v] <= stock[v]
    <3>1. reserved[v] = 0 /\ stock[v] \in Nat
      BY <2>1
    <3>2. \A n \in Nat : 0 <= n
      OBVIOUS
    <3> QED
      BY <3>1, <3>2
  <2> QED
    BY <2>2 DEF NoOversell
<1> QED
  BY <1>1, TypeCorrect, NoOversellStep, PTL DEF Spec

-----------------------------------------------------------------------------
(***************************************************************************)
(* One order per reservation.                                              *)
(***************************************************************************)

LEMMA OneOrderStep == TypeOK /\ OneOrderPerReservation /\ [Next]_vars => OneOrderPerReservation'
<1> SUFFICES ASSUME TypeOK, OneOrderPerReservation, [Next]_vars
             PROVE  OneOrderPerReservation'
  OBVIOUS
<1>a. UNCHANGED <<status, orders>> => OneOrderPerReservation'
  BY DEF OneOrderPerReservation
<1>b. ASSUME NEW r \in Reservations, ExpireRow(r)
      PROVE  OneOrderPerReservation'
  BY <1>b DEF ExpireRow, OneOrderPerReservation, TypeOK
<1>1. ASSUME NEW q \in Requests, NEW r \in Reservations, ReleaseVictim(q, r)
      PROVE  OneOrderPerReservation'
  BY <1>1, <1>b DEF ReleaseVictim
<1>2. ASSUME NEW q \in Requests, ReleaseById(q)
      PROVE  OneOrderPerReservation'
  <2>1. request[q].r \in Reservations
    BY <1>2 DEF ReleaseById, TypeOK, Request, Idle
  <2> QED
    BY <1>2, <2>1, <1>b DEF ReleaseById
<1>3. ASSUME NEW q \in Requests, NEW r \in Reservations, CreateReservation(q, r)
      PROVE  OneOrderPerReservation'
  BY <1>3 DEF CreateReservation, NextRow, OneOrderPerReservation, TypeOK
<1>4. ASSUME NEW q \in Requests, PlaceOrder(q)
      PROVE  OneOrderPerReservation'
  <2>1. request[q].r \in Reservations
    BY <1>4 DEF PlaceOrder, TypeOK, Request, Idle
  <2> QED
    BY <1>4, <2>1 DEF PlaceOrder, Consume, OneOrderPerReservation, TypeOK
<1>5. ASSUME NEW p \in Pods, ExpiryCommit(p)
      PROVE  OneOrderPerReservation'
  BY <1>5 DEF ExpiryCommit, Active, OneOrderPerReservation, TypeOK
<1>6. ASSUME \/ \E q \in Requests :
                  \/ \E u \in Users, cart \in Carts : ReadCart(q, u, cart)
                  \/ \E r \in Reservations :
                       ReadForRelease(q, r) \/ ValidateForCheckout(q, r) \/ SkipVictim(q, r)
                  \/ RejectReservation(q) \/ RejectOrder(q) \/ Abort(q)
             \/ \E r \in Reservations : Elapse(r)
             \/ \E p \in Pods :
                  (\E S \in SUBSET Reservations : ExpirySnapshot(p, S)) \/ ExpiryAbort(p)
             \/ \E v \in Variants :
                  \/ \E n \in StockLevels : OperatorSetsStock(v, n)
                  \/ \E n \in VariantEdits : OperatorEditsVariant(v, n)
             \/ UNCHANGED vars
      PROVE  OneOrderPerReservation'
  BY <1>6, <1>a
     DEF ReadCart, ReadForRelease, ValidateForCheckout, SkipVictim, RejectReservation,
         RejectOrder, Abort, Elapse, ExpirySnapshot, ExpiryAbort, OperatorSetsStock,
         OperatorEditsVariant, reservationVars, vars
<1> QED
  BY <1>1, <1>2, <1>3, <1>4, <1>5, <1>6 DEF Next, Serve

\* However many times and however late checkout is submitted for a reservation,
\* one order at most is created from it.
THEOREM OneOrderEach == Spec => []OneOrderPerReservation
<1>1. Init => OneOrderPerReservation
  BY DEF Init, OneOrderPerReservation
<1> QED
  BY <1>1, TypeCorrect, OneOrderStep, PTL DEF Spec

-----------------------------------------------------------------------------
(***************************************************************************)
(* The write-through copy.                                                 *)
(***************************************************************************)

LEMMA ReservedCacheAfterExpireRow ==
    ASSUME TypeOK, ReservedCacheInSync, NEW r \in Reservations, ExpireRow(r)
    PROVE  ReservedCacheInSync'
BY DEF ExpireRow, Release, ReservedCacheInSync, inventoryVars

LEMMA ReservedCacheStep == TypeOK /\ ReservedCacheInSync /\ [Next]_vars => ReservedCacheInSync'
<1> SUFFICES ASSUME TypeOK, ReservedCacheInSync, [Next]_vars PROVE ReservedCacheInSync'
  OBVIOUS
<1>a. UNCHANGED <<reserved, variantReserved>> => ReservedCacheInSync'
  BY DEF ReservedCacheInSync
<1> USE DEF inventoryVars
<1>1. ASSUME NEW q \in Requests, NEW r \in Reservations, ReleaseVictim(q, r)
      PROVE  ReservedCacheInSync'
  BY <1>1, ReservedCacheAfterExpireRow DEF ReleaseVictim
<1>2. ASSUME NEW q \in Requests, ReleaseById(q)
      PROVE  ReservedCacheInSync'
  <2>1. request[q].r \in Reservations
    BY <1>2 DEF ReleaseById, TypeOK, Request, Idle
  <2> QED
    BY <1>2, <2>1, ReservedCacheAfterExpireRow DEF ReleaseById
<1>3. ASSUME NEW q \in Requests, NEW r \in Reservations, CreateReservation(q, r)
      PROVE  ReservedCacheInSync'
  BY <1>3 DEF CreateReservation, Reserve, ReservedCacheInSync
<1>4. ASSUME NEW p \in Pods, ExpiryCommit(p)
      PROVE  ReservedCacheInSync'
  BY <1>4 DEF ExpiryCommit, Release, ReservedCacheInSync
<1>5. ASSUME NEW v \in Variants, NEW n \in StockLevels, OperatorSetsStock(v, n)
      PROVE  ReservedCacheInSync'
  BY <1>5 DEF OperatorSetsStock, UpdateInventory, ReservedCacheInSync, TypeOK, InventoryTypeOK
<1>6. ASSUME \/ \E q \in Requests :
                  \/ \E u \in Users, cart \in Carts : ReadCart(q, u, cart)
                  \/ \E r \in Reservations :
                       ReadForRelease(q, r) \/ ValidateForCheckout(q, r) \/ SkipVictim(q, r)
                  \/ RejectReservation(q) \/ PlaceOrder(q) \/ RejectOrder(q) \/ Abort(q)
             \/ \E r \in Reservations : Elapse(r)
             \/ \E p \in Pods :
                  (\E S \in SUBSET Reservations : ExpirySnapshot(p, S)) \/ ExpiryAbort(p)
             \/ \E v \in Variants : \E n \in VariantEdits : OperatorEditsVariant(v, n)
             \/ UNCHANGED vars
      PROVE  ReservedCacheInSync'
  BY <1>6, <1>a
     DEF ReadCart, ReadForRelease, ValidateForCheckout, SkipVictim, RejectReservation,
         PlaceOrder, RejectOrder, Abort, Elapse, ExpirySnapshot, ExpiryAbort,
         OperatorEditsVariant, UpdateVariant, vars
<1> QED
  BY <1>1, <1>2, <1>3, <1>4, <1>5, <1>6 DEF Next, Serve

\* I-1, reserved half: Variant.reservedStock is the reserved column of the
\* warehouse row at all times, edits of the catalogue included.
THEOREM ReservedCacheAlwaysInSync == Spec => []ReservedCacheInSync
<1>1. Init => ReservedCacheInSync
  BY DEF Init, InventoryInit, ReservedCacheInSync
<1> QED
  BY <1>1, TypeCorrect, ReservedCacheStep, PTL DEF Spec

LEMMA StockCacheStep ==
    ASSUME VariantEdits = {}
    PROVE  TypeOK /\ variantStock = stock /\ [Next]_vars => (variantStock = stock)'
<1> SUFFICES ASSUME TypeOK, variantStock = stock, [Next]_vars
             PROVE  variantStock' = stock'
  OBVIOUS
<1>1. ASSUME NEW v \in Variants, NEW n \in StockLevels, OperatorSetsStock(v, n)
      PROVE  variantStock' = stock'
  BY <1>1 DEF OperatorSetsStock, UpdateInventory
<1>2. ASSUME NEW r \in Reservations, ExpireRow(r)
      PROVE  UNCHANGED <<stock, variantStock>>
  BY <1>2 DEF ExpireRow, Release, inventoryVars
<1>3. ASSUME NEW q \in Requests, ReleaseById(q)
      PROVE  UNCHANGED <<stock, variantStock>>
  <2>1. request[q].r \in Reservations
    BY <1>3 DEF ReleaseById, TypeOK, Request, Idle
  <2> QED
    BY <1>2, <1>3, <2>1 DEF ReleaseById
<1>4. ASSUME NEW q \in Requests, NEW r \in Reservations, ReleaseVictim(q, r)
      PROVE  UNCHANGED <<stock, variantStock>>
  BY <1>2, <1>4 DEF ReleaseVictim
<1>5. ASSUME \/ \E q \in Requests :
                  \/ \E u \in Users, cart \in Carts : ReadCart(q, u, cart)
                  \/ \E r \in Reservations :
                       \/ ReadForRelease(q, r) \/ ValidateForCheckout(q, r)
                       \/ SkipVictim(q, r) \/ CreateReservation(q, r)
                  \/ RejectReservation(q) \/ PlaceOrder(q) \/ RejectOrder(q) \/ Abort(q)
             \/ \E r \in Reservations : Elapse(r)
             \/ \E p \in Pods :
                  \/ \E S \in SUBSET Reservations : ExpirySnapshot(p, S)
                  \/ ExpiryAbort(p) \/ ExpiryCommit(p)
             \/ UNCHANGED vars
      PROVE  UNCHANGED <<stock, variantStock>>
  BY <1>5
     DEF ReadCart, ReadForRelease, ValidateForCheckout, SkipVictim, CreateReservation, Reserve,
         RejectReservation, PlaceOrder, RejectOrder, Abort, Elapse, ExpirySnapshot,
         ExpiryAbort, ExpiryCommit, Release, inventoryVars, vars
<1> QED
  BY <1>1, <1>3, <1>4, <1>5 DEF Next, Serve

\* I-1: while stock is edited through warehouse rows only, both columns of the
\* Variant row are those of the warehouse row after every transaction.
THEOREM CacheAlwaysInSync ==
    ASSUME VariantEdits = {}
    PROVE  Spec => []CacheInSync
<1>1. Init => variantStock = stock
  BY DEF Init, InventoryInit
<1>2. Spec => [](variantStock = stock)
  BY <1>1, TypeCorrect, StockCacheStep, PTL DEF Spec
<1>3. variantStock = stock /\ ReservedCacheInSync => CacheInSync
  BY DEF CacheInSync, ReservedCacheInSync
<1> QED
  BY <1>2, <1>3, ReservedCacheAlwaysInSync, PTL

-----------------------------------------------------------------------------
(***************************************************************************)
(* The gate is advisory, for any carts, requests, pods and failures: a     *)
(* behaviour of the reservations behind the gate is a behaviour of         *)
(* CartReservation, so everything proved of the latter holds of the        *)
(* former.  The steps at the gate change nothing PostgreSQL keeps; every   *)
(* other step of FlashGate contains a step of CartReservation.             *)
(***************************************************************************)

\* The gate's own steps are invisible to PostgreSQL.
LEMMA GateStepsStutter ==
    ASSUME NEW q \in Requests, NEW v \in Variants,
           \/ PassGate(q, v) \/ ReadSellable(q, v) \/ PassUngated(q, v) \/ FillGate(q)
           \/ ReturnToken(v) \/ LoseToken(v) \/ GateExpires(v)
    PROVE  UNCHANGED vars
BY DEF PassGate, ReadSellable, PassUngated, FillGate, ReturnToken, LoseToken, GateExpires

\* What the gate leaves alone is a step of CartReservation as it stands.
LEMMA GatelessIsNext == GatelessStep => Next
BY DEF GatelessStep, Next, Serve

\* What the gate takes part in is a step of CartReservation and more.
LEMMA GatedRequestIsNext ==
    ASSUME NEW q \in Requests,
           \/ \E v \in Variants : GateRejects(q, v)
           \/ \E r \in Reservations : FlashCreate(q, r) \/ FlashReleaseVictim(q, r)
           \/ FlashReject(q)
           \/ FlashReleaseById(q)
           \/ FlashAbort(q)
    PROVE  Next
<1>1. CASE \E v \in Variants : GateRejects(q, v)
  <2>1. Abort(q)
    BY <1>1 DEF GateRejects
  <2> QED
    BY <2>1 DEF Next
<1>2. CASE \E r \in Reservations : FlashCreate(q, r) \/ FlashReleaseVictim(q, r)
  <2>1. \E r \in Reservations : CreateReservation(q, r) \/ ReleaseVictim(q, r)
    BY <1>2 DEF FlashCreate, FlashReleaseVictim
  <2>2. Serve(q)
    BY <2>1 DEF Serve
  <2> QED
    BY <2>2 DEF Next
<1>3. CASE FlashReject(q) \/ FlashReleaseById(q)
  <2>1. RejectReservation(q) \/ ReleaseById(q)
    BY <1>3 DEF FlashReject, FlashReleaseById
  <2>2. Serve(q)
    BY <2>1 DEF Serve
  <2> QED
    BY <2>2 DEF Next
<1>4. CASE FlashAbort(q)
  <2>1. Abort(q)
    BY <1>4 DEF FlashAbort
  <2> QED
    BY <2>1 DEF Next
<1> QED
  BY <1>1, <1>2, <1>3, <1>4

\* Every step behind the gate is a step of CartReservation or a stutter.
LEMMA FlashStepSimulates == [FlashNext]_flashVars => [Next]_vars
<1> SUFFICES ASSUME [FlashNext]_flashVars PROVE [Next]_vars
  OBVIOUS
<1>1. CASE UNCHANGED flashVars
  BY <1>1 DEF flashVars
<1>2. CASE GatelessStep
  BY <1>2, GatelessIsNext
<1>3. ASSUME NEW q \in Requests, NEW v \in Variants,
             PassGate(q, v) \/ GateRejects(q, v) \/ ReadSellable(q, v) \/ PassUngated(q, v)
      PROVE  [Next]_vars
  <2>1. CASE GateRejects(q, v)
    BY <2>1, GatedRequestIsNext
  <2> QED
    BY <1>3, <2>1, GateStepsStutter
<1>4. ASSUME NEW q \in Requests, FillGate(q)
      PROVE  [Next]_vars
  BY <1>4 DEF FillGate
<1>5. ASSUME NEW q \in Requests,
             \/ \E r \in Reservations : FlashCreate(q, r) \/ FlashReleaseVictim(q, r)
             \/ FlashReject(q)
             \/ FlashReleaseById(q)
             \/ FlashAbort(q)
      PROVE  [Next]_vars
  BY <1>5, GatedRequestIsNext
<1>6. ASSUME NEW p \in Pods, FlashExpiryCommit(p)
      PROVE  [Next]_vars
  BY <1>6 DEF FlashExpiryCommit, Next
<1>7. ASSUME NEW v \in Variants, ReturnToken(v) \/ LoseToken(v) \/ GateExpires(v)
      PROVE  [Next]_vars
  BY <1>7 DEF ReturnToken, LoseToken, GateExpires
<1> QED
  BY <1>1, <1>2, <1>3, <1>4, <1>5, <1>6, <1>7 DEF FlashNext

\* cart-reservation.service.ts:277: PostgreSQL stays authoritative.  Whatever
\* the gate answers and however it fails, the system does what CartReservation
\* says.
THEOREM GateIsAdvisory == FlashSpec => ImplementsReservation
<1>1. FlashInit => Init
  BY DEF FlashInit
<1> QED
  BY <1>1, FlashStepSimulates, PTL DEF FlashSpec, ImplementsReservation, Spec

\* I-2 and the absence of overselling behind the gate: a gate that lets too
\* many through, or that returns tokens twice, cannot break them.
THEOREM GateCannotOversell == FlashSpec => [](ReservedIsHeld /\ NoOversell)
<1>1. Spec => []ReservedIsHeld
  BY ReservedIsAlwaysHeld
<1>2. Spec => []NoOversell
  BY NeverOversold
<1>3. FlashSpec => Spec
  BY GateIsAdvisory DEF ImplementsReservation
<1> QED
  BY <1>1, <1>2, <1>3, PTL
-----------------------------------------------------------------------------
(***************************************************************************)
(* Types of the gate: whatever is lost, repeated or returned too late, a   *)
(* gate that exists has no negative count.                                 *)
(***************************************************************************)
TokensType == [Variants -> 0..MaxQty]
ColdType == {Warm} \cup [step : {"init", "retry"}, v : Variants, sellable : Nat]

LEMMA NoTokensTyped == NoTokens \in TokensType /\ NoTokens \in [Variants -> Nat]
BY BoundsAssumption DEF NoTokens, TokensType

LEMMA CartTyped ==
    ASSUME TypeOK, NEW q \in Requests, request[q].op = "reserve"
    PROVE  request[q].cart \in TokensType
BY CartsAssumption DEF TypeOK, Request, Idle, TokensType

LEMMA ForgetTyped ==
    ASSUME GateTypeOK, NEW q \in Requests, Forget(q)
    PROVE  /\ asked' \in [Requests -> SUBSET Variants]
           /\ tokens' \in [Requests -> TokensType]
           /\ cold' \in [Requests -> ColdType]
BY NoTokensTyped DEF GateTypeOK, Forget, TokensType, ColdType

LEMMA ReturnTyped ==
    ASSUME GateTypeOK, NEW qty \in [Variants -> Nat], ReleaseReserveGate(qty)
    PROVE  gate' \in [Variants -> Nat \cup {NoGate}]
BY DEF GateTypeOK, ReleaseReserveGate, NoGate

LEMMA OweTyped ==
    ASSUME GateTypeOK, NEW qty \in [Variants -> Nat], Owe(qty)
    PROVE  owed' \in [Variants -> Nat]
BY DEF GateTypeOK, Owe

\* Taking tokens and passing without one.
LEMMA GateStepTyped ==
    ASSUME TypeOK, NoOversell, GateTypeOK, NEW q \in Requests, NEW v \in Variants,
           PassGate(q, v) \/ GateRejects(q, v) \/ ReadSellable(q, v) \/ PassUngated(q, v)
    PROVE  GateTypeOK'
<1>1. CASE PassGate(q, v)
  <2> DEFINE n == request[q].cart[v]
  <2>1. n \in 0..MaxQty /\ n \in Nat
    BY <1>1, CartTyped, BoundsAssumption DEF PassGate, AtGate, TokensType
  <2>2. gate[v] \in Nat /\ gate[v] - n \in Nat
    BY <1>1, <2>1 DEF GateTypeOK, PassGate, TryReserveGate
  <2>3. gate' \in [Variants -> Nat \cup {NoGate}]
    BY <1>1, <2>2 DEF GateTypeOK, PassGate, TryReserveGate
  <2>4. tokens' \in [Requests -> TokensType]
    BY <1>1, <2>1 DEF GateTypeOK, PassGate, TokensType
  <2>5. asked' \in [Requests -> SUBSET Variants] /\ cold' \in [Requests -> ColdType]
    BY <1>1 DEF GateTypeOK, PassGate, ColdType
  <2> QED
    BY <1>1, <2>3, <2>4, <2>5 DEF GateTypeOK, PassGate, TokensType, ColdType
<1>2. CASE GateRejects(q, v)
  BY <1>2, ForgetTyped DEF GateRejects, GateTypeOK, TokensType, ColdType
<1>3. CASE ReadSellable(q, v)
  <2>1. Sellable(v) \in Nat
    BY DEF TypeOK, InventoryTypeOK, NoOversell, Sellable
  <2>2. cold' \in [Requests -> ColdType]
    BY <1>3, <2>1 DEF ReadSellable, GateTypeOK, ColdType
  <2> QED
    BY <1>3, <2>2 DEF ReadSellable, GateTypeOK, ColdType
<1>4. CASE PassUngated(q, v)
  BY <1>4 DEF PassUngated, GateTypeOK
<1> QED
  BY <1>1, <1>2, <1>3, <1>4

LEMMA FillTyped ==
    ASSUME GateTypeOK, NEW q \in Requests, FillGate(q)
    PROVE  GateTypeOK'
<1>1. cold[q] \in [step : {"init", "retry"}, v : Variants, sellable : Nat]
  BY DEF FillGate, GateTypeOK, Warm
<1>2. cold' \in [Requests -> ColdType]
  BY <1>1 DEF FillGate, GateTypeOK, ColdType
<1>3. gate' \in [Variants -> Nat \cup {NoGate}]
  BY <1>1 DEF FillGate, GateTypeOK, InitReserveGate
<1> QED
  BY <1>2, <1>3 DEF FillGate, GateTypeOK, ColdType

LEMMA GatedRequestTyped ==
    ASSUME TypeOK, GateTypeOK, NEW q \in Requests,
           \/ \E r \in Reservations : FlashCreate(q, r)
           \/ FlashReject(q)
           \/ FlashAbort(q)
    PROVE  GateTypeOK'
<1>1. /\ asked' \in [Requests -> SUBSET Variants]
      /\ tokens' \in [Requests -> TokensType]
      /\ cold' \in [Requests -> ColdType]
  BY ForgetTyped DEF FlashCreate, FlashReject, FlashAbort
<1>2. CASE FlashReject(q)
  <2>1. tokens[q] \in [Variants -> Nat]
    BY BoundsAssumption DEF GateTypeOK
  <2>2. gate' \in [Variants -> Nat \cup {NoGate}]
    BY <1>2, <2>1, ReturnTyped DEF FlashReject
  <2> QED
    BY <1>1, <1>2, <2>2 DEF FlashReject, GateTypeOK, TokensType, ColdType
<1>3. CASE (\E r \in Reservations : FlashCreate(q, r)) \/ FlashAbort(q)
  BY <1>1, <1>3 DEF FlashCreate, FlashAbort, GateTypeOK, TokensType, ColdType
<1> QED
  BY <1>2, <1>3

\* Tokens owed after a commit, and returned or lost one at a time.
LEMMA OwedTyped ==
    ASSUME TypeOK, GateTypeOK,
           \/ \E q \in Requests : FlashReleaseById(q) \/ \E r \in Reservations : FlashReleaseVictim(q, r)
           \/ \E p \in Pods : FlashExpiryCommit(p)
    PROVE  GateTypeOK'
<1>0. ASSUME NEW r \in Reservations PROVE ItemsIfActive(r) \in [Variants -> Nat]
  BY NoTokensTyped, BoundsAssumption DEF TypeOK, ItemsIfActive
<1>1. ASSUME owed' \in [Variants -> Nat], UNCHANGED <<gate, asked, tokens, cold>>
      PROVE  GateTypeOK'
  BY <1>1 DEF GateTypeOK
<1>2. ASSUME NEW q \in Requests, FlashReleaseById(q) PROVE GateTypeOK'
  <2>1. request[q].r \in Reservations
    BY <1>2 DEF FlashReleaseById, ReleaseById, TypeOK, Request, Idle
  <2> QED
    BY <1>0, <1>1, <1>2, <2>1, OweTyped DEF FlashReleaseById
<1>3. ASSUME NEW q \in Requests, NEW r \in Reservations, FlashReleaseVictim(q, r) PROVE GateTypeOK'
  BY <1>0, <1>1, <1>3, OweTyped DEF FlashReleaseVictim
<1>4. ASSUME NEW p \in Pods, FlashExpiryCommit(p) PROVE GateTypeOK'
  <2>1. Quantity(batch[p]) \in [Variants -> Nat]
    BY QuantityType DEF TypeOK
  <2> QED
    BY <1>1, <1>4, <2>1, OweTyped DEF FlashExpiryCommit
<1> QED
  BY <1>2, <1>3, <1>4

LEMMA TokenTyped ==
    ASSUME GateTypeOK, NEW v \in Variants, ReturnToken(v) \/ LoseToken(v) \/ GateExpires(v)
    PROVE  GateTypeOK'
<1>1. CASE ReturnToken(v)
  <2>1. One(v) \in [Variants -> Nat]
    BY DEF One
  <2>2. gate' \in [Variants -> Nat \cup {NoGate}]
    BY <1>1, <2>1, ReturnTyped DEF ReturnToken
  <2>3. owed' \in [Variants -> Nat]
    <3>1. owed[v] - 1 \in Nat
      BY <1>1 DEF ReturnToken, GateTypeOK
    <3>2. owed' = [owed EXCEPT ![v] = owed[v] - 1]
      BY <1>1 DEF ReturnToken
    <3> QED
      BY <3>1, <3>2 DEF GateTypeOK
  <2> QED
    BY <1>1, <2>2, <2>3 DEF ReturnToken, GateTypeOK
<1>2. CASE LoseToken(v) \/ GateExpires(v)
  BY <1>2 DEF LoseToken, GateExpires, GateTypeOK
<1> QED
  BY <1>1, <1>2

\* Types of the rows and at the gate, for any carts, requests, pods and failures:
\* the script of redis.service.ts:212 never takes a gate below zero.
THEOREM GateTypeCorrect == FlashSpec => []FlashTypeOK
<1>1. FlashInit => GateTypeOK
  <2> SUFFICES ASSUME FlashInit PROVE GateTypeOK
    OBVIOUS
  <2>1. tokens \in [Requests -> TokensType] /\ owed \in [Variants -> Nat]
    BY NoTokensTyped DEF FlashInit
  <2> QED
    BY <2>1 DEF FlashInit, GateTypeOK, TokensType
<1>2. TypeOK /\ NoOversell /\ GateTypeOK /\ [FlashNext]_flashVars => GateTypeOK'
  <2> SUFFICES ASSUME TypeOK, NoOversell, GateTypeOK, [FlashNext]_flashVars PROVE GateTypeOK'
    OBVIOUS
  <2>1. CASE UNCHANGED gateVars
    BY <2>1 DEF gateVars, GateTypeOK
  <2>2. UNCHANGED flashVars => UNCHANGED gateVars
    BY DEF flashVars
  <2> QED
    BY <2>1, <2>2, GateStepTyped, FillTyped, GatedRequestTyped, OwedTyped, TokenTyped DEF FlashNext
<1>3. Spec => []TypeOK /\ []NoOversell
  BY TypeCorrect, NeverOversold, PTL
<1>4. FlashSpec => Spec
  BY GateIsAdvisory DEF ImplementsReservation
<1> QED
  BY <1>1, <1>2, <1>3, <1>4, PTL DEF FlashSpec, FlashTypeOK
=============================================================================
