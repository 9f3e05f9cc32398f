---------------------------- MODULE MCTuningRun -----------------------------
(* TuningRun for TLC: full loops.  A retry leaves a training behind as the *)
(* background mode does; the other modes are MCTuningLoop's.               *)
EXTENDS TuningRun, TLC

MCModes ==
  {[execute |-> TRUE, analyze |-> TRUE, loop |-> TRUE, keep |-> FALSE]}

(* What the next steps and the record depend on: of the rounds before the *)
(* current one only what was tried and whether one is scored; the history *)
(* variables steer nothing.                                               *)
ThisRound == IF round = 0 THEN <<>> ELSE <<outcome[round], change[round]>>

RecordView == <<budget, pc, round, ThisRound, tried, Scored, result, proc,
                cancel, done, slot, faults, mem, file, fwd, stopper, lost,
                quiet>>
=============================================================================
