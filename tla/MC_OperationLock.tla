--------------------------- MODULE MC_OperationLock ---------------------------
(* The instances of OperationLock that TLC checks.                          *)
EXTENDS OperationLock, TLC
Symmetry == Permutations(Callers) \cup Permutations(Inodes)
===============================================================================
