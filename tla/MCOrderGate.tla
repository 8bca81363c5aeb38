---------------------------- MODULE MCOrderGate ----------------------------
(* Algos differ in nothing but their names.                                *)
EXTENDS OrderGate, TLC

AlgoSymmetry == Permutations(Algos)
=============================================================================
