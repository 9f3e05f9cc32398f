---------------------------- MODULE MCTuningLoop ----------------------------
(* TuningLoop for TLC: every kind of session, the changes as model values. *)
EXTENDS TuningLoop, TLC

MCModes == Mode

=============================================================================
