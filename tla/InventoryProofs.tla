---------------------------- MODULE InventoryProofs ----------------------------
(***************************************************************************)
(* What every movement of stock preserves, whichever service makes it.  A  *)
(* module that shows its steps to be movements gets NoOversell and the     *)
(* write-through copy from here.                                           *)
(***************************************************************************)
EXTENDS Inventory, TLAPS

\* The movements keep the four inventory columns natural numbers.
LEMMA ReserveType ==
    ASSUME InventoryTypeOK, NEW qty \in [Variants -> Nat], Reserve(qty)
    PROVE  InventoryTypeOK'
BY DEF InventoryTypeOK, Reserve

LEMMA ReleaseType ==
    ASSUME InventoryTypeOK, NEW qty \in [Variants -> Nat], Release(qty)
    PROVE  InventoryTypeOK'
BY DEF InventoryTypeOK, Release, Monus

LEMMA CommitShipmentType ==
    ASSUME InventoryTypeOK, NEW qty \in [Variants -> Nat], CommitShipment(qty)
    PROVE  InventoryTypeOK'
<1>1. \A v \in Variants : /\ qty[v] \in Nat /\ stock[v] \in Nat /\ reserved[v] \in Nat
                          /\ variantStock[v] \in Nat /\ variantReserved[v] \in Nat
  BY DEF InventoryTypeOK
<1>2. \A v \in Variants : /\ stock[v] - qty[v] \in Nat
                          /\ reserved[v] - qty[v] \in Nat
                          /\ variantStock[v] - qty[v] \in Nat
                          /\ variantReserved[v] - qty[v] \in Nat
  <2> SUFFICES ASSUME NEW v \in Variants
               PROVE  /\ stock[v] - qty[v] \in Nat
                      /\ reserved[v] - qty[v] \in Nat
                      /\ variantStock[v] - qty[v] \in Nat
                      /\ variantReserved[v] - qty[v] \in Nat
    OBVIOUS
  <2>1. CASE qty[v] > 0
    BY <1>1, <2>1 DEF CommitShipment, CanCommitShipment
  <2>2. CASE qty[v] = 0
    BY <1>1, <2>2
  <2> QED
    BY <1>1, <2>1, <2>2
<1> QED
  BY <1>2 DEF CommitShipment, InventoryTypeOK

\* No movement promises more than there is.
LEMMA NoOversellAfterReserve ==
    ASSUME InventoryTypeOK, NoOversell, NEW qty \in [Variants -> Nat], Reserve(qty)
    PROVE  NoOversell'
BY DEF InventoryTypeOK, NoOversell, Reserve, Reservable, Sellable

LEMMA NoOversellAfterRelease ==
    ASSUME InventoryTypeOK, NoOversell, NEW qty \in [Variants -> Nat], Release(qty)
    PROVE  NoOversell'
BY DEF InventoryTypeOK, NoOversell, Release, Monus

LEMMA NoOversellAfterCommitShipment ==
    ASSUME InventoryTypeOK, NoOversell, NEW qty \in [Variants -> Nat], CommitShipment(qty)
    PROVE  NoOversell'
BY DEF InventoryTypeOK, NoOversell, CommitShipment

\* Every movement writes the copy through.
LEMMA CacheAfterMovement ==
    ASSUME CacheInSync, NEW qty,
           Reserve(qty) \/ Release(qty) \/ CommitShipment(qty)
    PROVE  CacheInSync'
BY DEF CacheInSync, Reserve, Release, CommitShipment

\* The seeded catalogue.
LEMMA InventoryInitSound ==
    ASSUME NEW initial \in [Variants -> Nat], InventoryInit(initial)
    PROVE  InventoryTypeOK /\ NoOversell /\ CacheInSync
<1>1. InventoryTypeOK /\ CacheInSync
  BY DEF InventoryInit, InventoryTypeOK, CacheInSync
<1>2. \A n \in Nat : 0 <= n
  OBVIOUS
<1>3. \A v \in Variants : reserved[v] = 0 /\ stock[v] \in Nat
  BY DEF InventoryInit
<1>4. NoOversell
  BY <1>2, <1>3 DEF NoOversell
<1> QED
  BY <1>1, <1>4
=============================================================================
