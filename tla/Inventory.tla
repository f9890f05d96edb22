------------------------------ MODULE Inventory ------------------------------
(***************************************************************************)
(* The stock of every product variant: the WarehouseInventory row of the   *)
(* DEFAULT warehouse, which is authoritative, and the Variant row, whose   *)
(* stock and reservedStock are write-through copies of it.                 *)
(*                                                                         *)
(* Every operator below is the body of one SQL statement pair (WI row,     *)
(* Variant row) of a transaction of InventoryService, CartReservation-     *)
(* Service or WarehouseService.  A transaction holds the row locks it      *)
(* takes until it commits, so a movement is one step.  A quantity argument *)
(* is a function from variants to units: zero for a variant the            *)
(* transaction does not touch.                                             *)
(***************************************************************************)
EXTENDS Integers

CONSTANT Variants

VARIABLES
    stock,            \* WarehouseInventory.stock
    reserved,         \* WarehouseInventory.reserved
    variantStock,     \* Variant.stock
    variantReserved   \* Variant.reservedStock

inventoryVars == <<stock, reserved, variantStock, variantReserved>>

InventoryTypeOK ==
    /\ stock \in [Variants -> Nat]
    /\ reserved \in [Variants -> Nat]
    /\ variantStock \in [Variants -> Nat]
    /\ variantReserved \in [Variants -> Nat]

\* The seeded catalogue: both rows agree and nothing is reserved.
InventoryInit(initial) ==
    /\ stock = initial
    /\ variantStock = initial
    /\ reserved = [v \in Variants |-> 0]
    /\ variantReserved = [v \in Variants |-> 0]

-----------------------------------------------------------------------------
\* GREATEST(0, a - b)
Monus(a, b) == IF a >= b THEN a - b ELSE 0

\* The units of v that can still be promised.
Sellable(v) == stock[v] - reserved[v]

\* Dropping the WHERE clause of the conditional reserve.
ReservableUnchecked(qty) ==
    \A v \in Variants : variantReserved[v] + qty[v] <= variantStock[v]

\* The conditional update finds sellable units for every line, and the CHECK
\* variant_reserved_le_stock_chk accepts the copy.
Reservable(qty) ==
    /\ \A v \in Variants : qty[v] > 0 => Sellable(v) >= qty[v]
    /\ \A v \in Variants : qty[v] > 0 =>
           variantReserved[v] + qty[v] <= variantStock[v]

Reserve(qty) ==
    /\ Reservable(qty)
    /\ reserved' = [v \in Variants |-> reserved[v] + qty[v]]
    /\ variantReserved' = [v \in Variants |-> variantReserved[v] + qty[v]]
    /\ UNCHANGED <<stock, variantStock>>

\* Releasing the warehouse row only.
ReleaseNoCache(qty) ==
    /\ reserved' = [v \in Variants |-> Monus(reserved[v], qty[v])]
    /\ UNCHANGED <<stock, variantStock, variantReserved>>

Release(qty) ==
    /\ reserved' = [v \in Variants |-> Monus(reserved[v], qty[v])]
    /\ variantReserved' = [v \in Variants |-> Monus(variantReserved[v], qty[v])]
    /\ UNCHANGED <<stock, variantStock>>

\* Committing without the stock and reserved guards.
CanCommitAlways(qty) == \A v \in Variants : qty[v] >= 0

\* Units leave the warehouse.  Fails unless they are in stock and reserved in
\* the WI row and the CHECKs accept the copy.
CanCommitShipment(qty) ==
    \A v \in Variants : qty[v] > 0 =>
        /\ stock[v] >= qty[v]
        /\ reserved[v] >= qty[v]
        /\ variantReserved[v] >= qty[v]
        /\ variantStock[v] >= qty[v]

\* Taking the units out of stock and leaving them reserved.
CommitKeepsReserved(qty) ==
    /\ CanCommitShipment(qty)
    /\ stock' = [v \in Variants |-> stock[v] - qty[v]]
    /\ variantStock' = [v \in Variants |-> variantStock[v] - qty[v]]
    /\ UNCHANGED <<reserved, variantReserved>>

CommitShipment(qty) ==
    /\ CanCommitShipment(qty)
    /\ stock' = [v \in Variants |-> stock[v] - qty[v]]
    /\ reserved' = [v \in Variants |-> reserved[v] - qty[v]]
    /\ variantStock' = [v \in Variants |-> variantStock[v] - qty[v]]
    /\ variantReserved' = [v \in Variants |-> variantReserved[v] - qty[v]]

\* PATCH of the warehouse row: an absolute stock, refused by the CHECK when it
\* is below what is reserved; syncVariantCache then copies the row.
UpdateInventory(v, n) ==
    /\ n >= reserved[v]
    /\ stock' = [stock EXCEPT ![v] = n]
    /\ variantStock' = [variantStock EXCEPT ![v] = n]
    /\ variantReserved' = [variantReserved EXCEPT ![v] = reserved[v]]
    /\ UNCHANGED reserved

\* PATCH of the catalogue variant: writes Variant.stock and nothing else.
UpdateVariant(v, n) ==
    /\ n >= variantReserved[v]
    /\ variantStock' = [variantStock EXCEPT ![v] = n]
    /\ UNCHANGED <<stock, reserved, variantReserved>>

-----------------------------------------------------------------------------
\* The warehouse never promises more units than it has.
NoOversell == \A v \in Variants : reserved[v] <= stock[v]

\* I-1: the copy on the Variant row is the warehouse row.
CacheInSync == variantStock = stock /\ variantReserved = reserved

\* The reserved half of I-1, which survives edits of the catalogue row.
ReservedCacheInSync == variantReserved = reserved
=============================================================================
