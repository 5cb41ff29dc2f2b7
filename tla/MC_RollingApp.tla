---------------------------- MODULE MC_RollingApp ----------------------------
(* The instances of RollingApp that TLC checks.                             *)
EXTENDS RollingApp
==============================================================================
