---------------------------- MODULE MCSaleLocking ----------------------------
(* Small instances of SaleLocking for TLC. *)
EXTENDS SaleLocking, TLC

CONSTANTS v1, v2

\* Two variants of two products, locked in this order.
RankV    == [v \in Variants |-> IF v = v1 THEN 1 ELSE 2]
ProductV == [v \in Variants |-> v]

Symmetry == Permutations(Sales) \cup Permutations(Workers)
=============================================================================
