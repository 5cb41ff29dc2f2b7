--------------------------- MODULE MC_InstanceFleet ---------------------------
(* The instance of InstanceFleet that TLC checks.                           *)
EXTENDS InstanceFleet
===============================================================================
