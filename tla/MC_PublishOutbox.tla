-------------------------- MODULE MC_PublishOutbox --------------------------
(* The instances of PublishOutbox that TLC checks.                          *)
EXTENDS PublishOutbox
=============================================================================
