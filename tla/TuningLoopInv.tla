---------------------------- MODULE TuningLoopInv ----------------------------
(* The inductive invariant of TuningLoop: what the worker thread may rely on *)
(* where it is.                                                            *)
EXTENDS TuningLoop

InRoundPcs == {"decide", "launch", "identify", "forward", "probe", "wait",
               "analyze"}
TrainingPcs == {"identify", "forward", "probe", "wait", "analyze"}
RunningPcs == {"begin", "round"} \cup InRoundPcs

(* A result is there from the return of the loop on. *)
ResultIsLast == pc \in RunningPcs => result = "none"

(* Rounds that were not begun are untouched, and the one that is under way *)
(* is not closed.                                                          *)
RoundsInOrder ==
  /\ pc \in InRoundPcs => round >= 1
  /\ \A k \in Rounds : k > round => proc[k] = "none" /\ outcome[k] = "none"
  /\ \A k \in Rounds : k = round /\ pc \in InRoundPcs => outcome[k] = "none"
  /\ \A k \in Rounds : k = round /\ pc \in {"decide", "launch"} => proc[k] = "none"

(* The analysis follows the exit it waited for. *)
AnalysisHasExit ==
  \A k \in Rounds : k = round /\ pc = "analyze" => proc[k] = "zero"

(* What was evaluated is known to be tried, and what a round trains with,  *)
(* or is about to, is none of it.                                          *)
TriedIsKnown ==
  mode.loop => \A k \in Rounds : Trained(k) => change[k] \in tried

ChangesAreNew ==
  mode.loop /\ ~mode.keep =>
    \A j, k \in Rounds :
      /\ j < k /\ Trained(j)
      /\ proc[k] # "none" \/ (k = round /\ pc = "launch")
      => change[j] # change[k]

(* Until the loop returns, only retried rounds and the one under way have  *)
(* a living training.                                                      *)
LeftAreRetried ==
  pc \in RunningPcs =>
    \A k \in Rounds : proc[k] = "alive" =>
      outcome[k] = "retried" \/ (k = round /\ pc \in TrainingPcs)

(* A stop that was noticed without a return was noticed by a probe, and    *)
(* the head of the next round has to look at it.                           *)
SeenIsOnItsWay ==
  seen /\ result = "none" =>
    /\ pc \in {"round", "crashed"}
    /\ cancel
    /\ round >= 1
    /\ \A k \in Rounds : k = round => outcome[k] = "aborted"

(* A stop between the head of a round and its launch fell into this round. *)
StopFellHere ==
  cancel /\ pc \in {"decide", "launch"} => stopRound = round

LoopInv ==
  /\ LoopTypeOK
  /\ ResultIsLast
  /\ RoundsInOrder
  /\ AnalysisHasExit
  /\ TriedIsKnown
  /\ ChangesAreNew
  /\ LeftAreRetried
  /\ SeenIsOnItsWay
  /\ StopFellHere
  /\ TrainingsAreEarned
  /\ EndIsEarned
=============================================================================
