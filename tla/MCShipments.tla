------------------------------ MODULE MCShipments ------------------------------
(***************************************************************************)
(* A finite instance of Shipments for TLC: one variant on two shelves.     *)
(***************************************************************************)
EXTENDS Shipments, TLC

CONSTANT v1

OneUnit == v1 :> 1
=============================================================================
