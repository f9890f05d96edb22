----------------------------- MODULE MCFlashGate -----------------------------
(***************************************************************************)
(* A finite instance of FlashGate, and through its refinement of           *)
(* CartReservation, for TLC.                                               *)
(***************************************************************************)
EXTENDS FlashGate, TLC

CONSTANT v1

\* Carts of one variant: one unit or two.
OneVariantCarts == {[v \in {v1} |-> n] : n \in 1..2}
OneVariantStock == [v \in {v1} |-> 2]

Symmetry == Permutations(Requests) \cup Permutations(Users)
=============================================================================
