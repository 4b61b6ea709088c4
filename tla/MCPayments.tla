------------------------------ MODULE MCPayments ------------------------------
(* Small instances of Payments for TLC. *)
EXTENDS Payments, TLC

Symmetry == Permutations(Workers)
=============================================================================
