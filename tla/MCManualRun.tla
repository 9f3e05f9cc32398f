---------------------------- MODULE MCManualRun -----------------------------
(* ManualRun for TLC. *)
EXTENDS ManualRun
=============================================================================
