---------------------------- MODULE MCSaleLedger ----------------------------
(* Small instances of SaleLedger for TLC. *)
EXTENDS SaleLedger, TLC

Symmetry == Permutations(Variants) \cup Permutations(Sales) \cup Permutations(Workers)
=============================================================================
