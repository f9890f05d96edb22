------------------------------ MODULE MCPayments ------------------------------
(***************************************************************************)
(* Finite instances of Payments for TLC.                                   *)
(***************************************************************************)
EXTENDS Payments, TLC

CONSTANTS q1, q2

Symmetry == Permutations(Requests)
=============================================================================
