--------------------------- MODULE MC_EmailDelivery ---------------------------
(* TLC instances of EmailDelivery.                                           *)
EXTENDS EmailDelivery, TLC

Symmetry == Permutations(Workers)
===============================================================================
