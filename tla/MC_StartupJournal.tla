-------------------------- MODULE MC_StartupJournal --------------------------
(* The instance of StartupJournal that TLC checks.                          *)
EXTENDS StartupJournal
==============================================================================
