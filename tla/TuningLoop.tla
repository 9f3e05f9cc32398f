----------------------------- MODULE TuningLoop -----------------------------
(***************************************************************************)
(* One auto-tuning session: run_tuning_loop (agent_engine/loop.py) in the  *)
(* worker thread of its TuningRunController, the trainings it launches,    *)
(* the probe that judges them, and the stop event.  The run record and the *)
(* threads that write it are added by TuningRun.                           *)
(*                                                                         *)
(* Of a decision only the signature of its changes is kept, of the metrics *)
(* whether a round has a score and whether it improves on the baseline.    *)
(***************************************************************************)
EXTENDS Naturals, FiniteSets

CONSTANTS
  MaxRetries,  \* bound of max_retries
  Changes,     \* the signatures of the parameter changes a model may propose
  NoChange,    \* the proposal keep_params
  Modes,       \* the kinds of session that are started
  MaxFaults    \* bound: errors raised while a training runs

(* execute: not a dry run; analyze: auto_analyze; loop: auto_loop;         *)
(* keep: the user chose to train with the parameters as they are.          *)
Mode == [execute : BOOLEAN, analyze : BOOLEAN, loop : BOOLEAN, keep : BOOLEAN]

ASSUME RetriesAssumption == MaxRetries \in Nat \ {0}
ASSUME ChangesAssumption == NoChange \notin Changes
ASSUME ModesAssumption == Modes \subseteq Mode
ASSUME FaultsAssumption == MaxFaults \in Nat

Rounds == 1..MaxRetries
Proposals == Changes \cup {NoChange}

TerminalStatuses == {"completed", "failed", "cancelled"}

(* signalled: terminate() was called, the process has not ended yet. *)
ProcStates == {"none", "alive", "signalled", "zero", "nonzero"}

Outcomes == {"none", "retried", "aborted", "failed", "scored", "unscored",
             "background"}

VARIABLES
  mode, budget,   \* the request: the mode and max_retries
  pc,             \* the next step of the worker thread
  round,          \* the iteration
  change,         \* the change a round trains with
  tried,          \* round_state.tried_signatures
  outcome,        \* tuning_result["iterations"]
  result,         \* how the loop returned, as the controller classifies it
  proc,           \* the training process of a round
  cancel,         \* cancel_event
  done, slot,     \* controller._done, the training slot reservation
  faults,
  stopRound,      \* history: the round in which the stop was requested
  seen            \* history: the loop noticed the stop

reqVars   == <<mode, budget>>
roundVars == <<round, change, tried>>
stopVars  == <<cancel, stopRound>>
ctlVars   == <<done, slot>>
loopVars  == <<reqVars, pc, roundVars, outcome, result, proc, stopVars,
               ctlVars, faults, seen>>

Labels == {"begin", "round", "decide", "launch", "identify", "forward",
           "probe", "wait", "analyze", "terminal", "persist", "mark",
           "release", "end", "crashed"}

LoopTypeOK ==
  /\ mode \in Modes
  /\ budget \in Rounds
  /\ pc \in Labels
  /\ round \in 0..budget
  /\ change \in [Rounds -> Proposals]
  /\ tried \subseteq Proposals
  /\ outcome \in [Rounds -> Outcomes]
  /\ result \in TerminalStatuses \cup {"none"}
  /\ proc \in [Rounds -> ProcStates]
  /\ cancel \in BOOLEAN
  /\ done \in BOOLEAN
  /\ slot \in BOOLEAN
  /\ faults \in Nat
  /\ stopRound \in 0..budget
  /\ seen \in BOOLEAN

(* start_tuning: a dry run takes no slot; auto_analyze with several        *)
(* retries turns auto_loop on.                                             *)
LoopInit ==
  /\ mode \in Modes
  /\ budget \in Rounds
  /\ mode.analyze /\ budget > 1 => mode.loop
  /\ pc = "begin"
  /\ round = 0
  /\ change = [k \in Rounds |-> NoChange]
  /\ tried = {}
  /\ outcome = [k \in Rounds |-> "none"]
  /\ result = "none"
  /\ proc = [k \in Rounds |-> "none"]
  /\ cancel = FALSE
  /\ done = FALSE
  /\ slot = mode.execute
  /\ faults = 0
  /\ stopRound = 0
  /\ seen = FALSE

-----------------------------------------------------------------------------
(* Helpers of the actions. *)

Step(from, to) == pc = from /\ pc' = to

Return(res) == pc' = "terminal" /\ result' = res

(* The round is closed with an outcome. *)
Close(verdict) == outcome' = [outcome EXCEPT ![round] = verdict]

(* TrainingProcess.terminate: signals, does not wait. *)
Terminate ==
  proc' = [proc EXCEPT ![round] = IF @ = "alive" THEN "signalled" ELSE @]

Scored == \E k \in Rounds : outcome[k] = "scored"

(* Mutant of Pointless: the changes tried before are not looked up. *)
PointlessIfKept(c) == mode.loop /\ ~mode.keep /\ c = NoChange

(* evaluate_decision_before_training, but for the oscillation. *)
Pointless(c) == mode.loop /\ ~mode.keep /\ (c = NoChange \/ c \in tried)

-----------------------------------------------------------------------------
(* From the head of the loop to the launch. *)

Begin ==
  /\ Step("begin", "round")
  /\ UNCHANGED <<reqVars, roundVars, outcome, result, proc, stopVars, ctlVars,
                 faults, seen>>

CancelAtRound ==
  /\ pc = "round"
  /\ round < budget
  /\ cancel
  /\ Return("cancelled")
  /\ seen' = TRUE
  /\ UNCHANGED <<reqVars, roundVars, outcome, proc, stopVars, ctlVars, faults>>

(* Mutant of StartRound: the stop is not looked at. *)
StartRoundAnyway ==
  /\ Step("round", "decide")
  /\ round < budget
  /\ round' = round + 1
  /\ UNCHANGED <<reqVars, change, tried, outcome, result, proc, stopVars,
                 ctlVars, faults, seen>>

StartRound ==
  /\ Step("round", "decide")
  /\ round < budget
  /\ ~cancel
  /\ round' = round + 1
  /\ UNCHANGED <<reqVars, change, tried, outcome, result, proc, stopVars,
                 ctlVars, faults, seen>>

(* Mutant of Exhausted: only the last round counts. *)
ExhaustedLastRound ==
  /\ pc = "round"
  /\ round = budget
  /\ Return(IF outcome[round] = "scored" THEN "completed" ELSE "failed")
  /\ UNCHANGED <<reqVars, roundVars, outcome, proc, stopVars, ctlVars, faults,
                 seen>>

(* "All retries exhausted": an error unless some round has metrics. *)
Exhausted ==
  /\ pc = "round"
  /\ round = budget
  /\ Return(IF Scored THEN "completed" ELSE "failed")
  /\ UNCHANGED <<reqVars, roundVars, outcome, proc, stopVars, ctlVars, faults,
                 seen>>

(* Perception, facts, decision, guardrails, preflight, command, audit or   *)
(* the launch itself fails: _abort_tuning.                                 *)
RoundFails ==
  /\ pc \in {"decide", "launch"}
  /\ Close("failed")
  /\ Return("failed")
  /\ UNCHANGED <<reqVars, roundVars, proc, stopVars, ctlVars, faults, seen>>

PlanOnly ==
  /\ pc = "decide"
  /\ ~mode.execute
  /\ Return("completed")
  /\ UNCHANGED <<reqVars, roundVars, outcome, proc, stopVars, ctlVars, faults,
                 seen>>

(* A pointless change, or one that reverses the direction of an earlier.   *)
StopBeforeTraining ==
  /\ pc = "decide"
  /\ mode.execute /\ mode.loop /\ ~mode.keep
  /\ \E c \in Proposals : Pointless(c) \/ tried # {}
  /\ Return("completed")
  /\ UNCHANGED <<reqVars, roundVars, outcome, proc, stopVars, ctlVars, faults,
                 seen>>

Decide ==
  /\ Step("decide", "launch")
  /\ mode.execute
  /\ \E c \in Proposals :
       /\ mode.keep => c = NoChange
       /\ ~Pointless(c)
       /\ change' = [change EXCEPT ![round] = c]
  /\ UNCHANGED <<reqVars, round, tried, outcome, result, proc, stopVars,
                 ctlVars, faults, seen>>

Launch ==
  /\ Step("launch", "identify")
  /\ proc' = [proc EXCEPT ![round] = "alive"]
  /\ UNCHANGED <<reqVars, roundVars, outcome, result, stopVars, ctlVars,
                 faults, seen>>

(* The identity is reported to the controller. *)
Identify ==
  /\ Step("identify", "forward")
  /\ UNCHANGED <<reqVars, roundVars, outcome, result, proc, stopVars, ctlVars,
                 faults, seen>>

StartForwarder ==
  /\ Step("forward", "probe")
  /\ UNCHANGED <<reqVars, roundVars, outcome, result, proc, stopVars, ctlVars,
                 faults, seen>>

-----------------------------------------------------------------------------
(* monitor_training, and what the loop makes of its verdict. *)

ProbeEnds(verdict) ==
  /\ Step("probe", "round")
  /\ Close(verdict)
  /\ UNCHANGED <<reqVars, roundVars, result, stopVars, ctlVars, faults>>

ProbeCancelled ==
  /\ ProbeEnds("aborted")
  /\ cancel
  /\ seen' = TRUE
  /\ Terminate

EarlyAbort ==
  /\ ProbeEnds("aborted")
  /\ proc[round] = "alive"
  /\ Terminate
  /\ UNCHANGED seen

(* The probe epochs are over without a trend: nothing is terminated. *)
ProbeRetry ==
  /\ ProbeEnds("retried")
  /\ UNCHANGED <<proc, seen>>

(* The process ended before the probe did. *)
ProbeFailed ==
  /\ ProbeEnds("aborted")
  /\ proc[round] # "alive"
  /\ UNCHANGED <<proc, seen>>

(* The verdict cannot be audited: instead of the next round a fatal        *)
(* failure, which counts as cancelled when it quotes the stop.             *)
ProbeUnaudited ==
  /\ pc = "probe"
  /\ faults < MaxFaults
  /\ faults' = faults + 1
  /\ Close("failed")
  /\ \/ Return("failed") /\ (Terminate \/ UNCHANGED proc) /\ UNCHANGED seen
     \/ cancel /\ Return("cancelled") /\ Terminate /\ seen' = TRUE
  /\ UNCHANGED <<reqVars, roundVars, stopVars, ctlVars>>

ProbePassed ==
  /\ Step("probe", "wait")
  /\ proc[round] # "nonzero"
  /\ UNCHANGED <<reqVars, roundVars, outcome, result, proc, stopVars, ctlVars,
                 faults, seen>>

-----------------------------------------------------------------------------
(* The full training. *)

(* auto_analyze is off: "training continues in background". *)
LeaveInBackground ==
  /\ pc = "wait"
  /\ ~mode.analyze
  /\ Close("background")
  /\ Return("completed")
  /\ UNCHANGED <<reqVars, roundVars, proc, stopVars, ctlVars, faults, seen>>

(* Mutant of CancelWait: the stop is looked at once the training ended. *)
CancelWaitLate ==
  /\ pc = "wait"
  /\ mode.analyze
  /\ cancel
  /\ proc[round] # "alive"
  /\ Close("aborted")
  /\ Return("cancelled")
  /\ seen' = TRUE
  /\ Terminate
  /\ UNCHANGED <<reqVars, roundVars, stopVars, ctlVars, faults>>

CancelWait ==
  /\ pc = "wait"
  /\ mode.analyze
  /\ cancel
  /\ Close("aborted")
  /\ Return("cancelled")
  /\ seen' = TRUE
  /\ Terminate
  /\ UNCHANGED <<reqVars, roundVars, stopVars, ctlVars, faults>>

(* auto_loop goes on to the next round, a single training has failed. *)
TrainingFailed ==
  /\ pc = "wait"
  /\ mode.analyze
  /\ proc[round] = "nonzero"
  /\ Close("failed")
  /\ IF mode.loop THEN pc' = "round" /\ UNCHANGED result ELSE Return("failed")
  /\ UNCHANGED <<reqVars, roundVars, proc, stopVars, ctlVars, faults, seen>>

TrainingCompleted ==
  /\ Step("wait", "analyze")
  /\ mode.analyze
  /\ proc[round] = "zero"
  /\ UNCHANGED <<reqVars, roundVars, outcome, result, proc, stopVars, ctlVars,
                 faults, seen>>

(* evaluate_round: a score that does not improve ends the session, a       *)
(* missing score does not, keep_params always does.                        *)
Evaluate ==
  /\ pc = "analyze"
  /\ mode.loop
  /\ \E score \in {"scored", "unscored"}, improved \in BOOLEAN :
       /\ improved => score = "scored"
       /\ Close(score)
       /\ IF mode.keep \/ (score = "scored" /\ ~improved)
          THEN Return("completed")
          ELSE pc' = "round" /\ UNCHANGED result
  /\ tried' = tried \cup {change[round]}
  /\ UNCHANGED <<reqVars, round, change, proc, stopVars, ctlVars, faults, seen>>

(* auto_analyze without auto_loop: success, whatever the analysis gave. *)
AnalyzeOnly ==
  /\ pc = "analyze"
  /\ ~mode.loop
  /\ \E score \in {"scored", "unscored"} : Close(score)
  /\ Return("completed")
  /\ UNCHANGED <<reqVars, roundVars, proc, stopVars, ctlVars, faults, seen>>

(* An exception after the launch: the loop returns, the process stays,     *)
(* unless it is the stop that cannot be audited.                           *)
RoundRaises ==
  /\ pc \in {"forward", "probe", "wait", "analyze"}
  /\ faults < MaxFaults
  /\ faults' = faults + 1
  /\ Close("failed")
  /\ Return("failed")
  /\ \/ UNCHANGED <<proc, seen>>
     \/ pc = "wait" /\ mode.analyze /\ cancel /\ Terminate /\ seen' = TRUE
  /\ UNCHANGED <<reqVars, roundVars, stopVars, ctlVars>>

(* An exception between two rounds ends run_tuning_loop itself. *)
SessionRaises ==
  /\ pc \in {"begin", "round"}
  /\ faults < MaxFaults
  /\ faults' = faults + 1
  /\ Return("failed")
  /\ UNCHANGED <<reqVars, roundVars, outcome, proc, stopVars, ctlVars, seen>>

-----------------------------------------------------------------------------
(* The end of the controller thread; the record it writes is TuningRun's.  *)

WriteTerminal ==
  /\ Step("terminal", "persist")
  /\ UNCHANGED <<reqVars, roundVars, outcome, result, proc, stopVars, ctlVars,
                 faults, seen>>

PersistTerminal ==
  /\ Step("persist", "mark")
  /\ UNCHANGED <<reqVars, roundVars, outcome, result, proc, stopVars, ctlVars,
                 faults, seen>>

MarkDone ==
  /\ Step("mark", "release")
  /\ done' = TRUE
  /\ UNCHANGED <<reqVars, roundVars, outcome, result, proc, stopVars, slot,
                 faults, seen>>

ReleaseSlot ==
  /\ Step("release", "end")
  /\ slot' = FALSE
  /\ UNCHANGED <<reqVars, roundVars, outcome, result, proc, stopVars, done,
                 faults, seen>>

-----------------------------------------------------------------------------
(* The other actors. *)

(* request_stop sets the event; it looked at _done some time before. *)
StopSignal ==
  /\ ~cancel
  /\ pc # "crashed"
  /\ cancel' = TRUE
  /\ stopRound' = round
  /\ UNCHANGED <<reqVars, pc, roundVars, outcome, result, proc, ctlVars,
                 faults, seen>>

ProcessExits(k) ==
  /\ proc[k] \in {"alive", "signalled"}
  /\ \E code \in {"zero", "nonzero"} : proc' = [proc EXCEPT ![k] = code]
  /\ UNCHANGED <<reqVars, pc, roundVars, outcome, result, stopVars, ctlVars,
                 faults, seen>>

(* The service dies with its threads; the trainings live on. *)
Crash ==
  /\ pc # "crashed"
  /\ pc' = "crashed"
  /\ slot' = FALSE
  /\ UNCHANGED <<reqVars, roundVars, outcome, result, proc, stopVars, done,
                 faults, seen>>

Deciding == \/ Begin \/ CancelAtRound \/ StartRound \/ Exhausted \/ RoundFails
            \/ PlanOnly \/ StopBeforeTraining \/ Decide

Launching == Launch \/ Identify \/ StartForwarder

Probing == \/ ProbeCancelled \/ EarlyAbort \/ ProbeRetry \/ ProbeFailed
           \/ ProbeUnaudited \/ ProbePassed

Waiting == \/ LeaveInBackground \/ CancelWait \/ TrainingFailed
           \/ TrainingCompleted \/ Evaluate \/ AnalyzeOnly

Raising == RoundRaises \/ SessionRaises

Closing == WriteTerminal \/ PersistTerminal \/ MarkDone \/ ReleaseSlot

Worker == Deciding \/ Launching \/ Probing \/ Waiting \/ Raising \/ Closing

LoopNext ==
  \/ Worker
  \/ StopSignal
  \/ \E k \in Rounds : ProcessExits(k)
  \/ Crash

LoopSpec == LoopInit /\ [][LoopNext]_loopVars

(* The worker thread runs, but nothing forces a probe to see an epoch of a *)
(* live training, or an error to be raised, and a training may take for    *)
(* ever.                                                                   *)
Prompt == /\ pc = "probe" => cancel \/ proc[round] # "alive"
          /\ Worker
          /\ UNCHANGED faults

FairSpec == LoopSpec /\ WF_loopVars(Prompt)

-----------------------------------------------------------------------------
(* Properties. *)

Trained(k) == outcome[k] \in {"scored", "unscored"}

(* A round is analyzed, and its metrics enter the history, only after its  *)
(* own training exited with code zero (loop.py: the wait for the end).     *)
AnalyzedAfterExit == \A k \in Rounds : Trained(k) => proc[k] = "zero"

(* Once a stop is requested no later round starts a training; the round    *)
(* that was between its check and its launch may still start its own.      *)
StopStartsNothingNew ==
  [][\A k \in Rounds :
       cancel /\ proc[k] = "none" /\ proc'[k] = "alive" => stopRound = k]_loopVars

(* In auto_loop mode a change that was trained and evaluated is not        *)
(* trained a second time, however many rounds lie between.                 *)
EvaluatedChangeNotRepeated ==
  mode.loop /\ ~mode.keep =>
    \A j, k \in Rounds :
      j < k /\ Trained(j) /\ proc[k] # "none" => change[j] # change[k]

(* A session with a scored round ends failed only by a fatal error of its  *)
(* last round or an error raised between two: a retry, an abort or a       *)
(* failed training after the scored round costs nothing.                   *)
BestIsKept ==
  result = "failed" /\ Scored => outcome[round] = "failed" \/ faults > 0

(* A session completes for a reason: a plan, a training, or the verdict    *)
(* that no further training is worth while (auto_loop only).               *)
CompletionIsEarned ==
  result = "completed" =>
    \/ ~mode.execute
    \/ \E k \in Rounds : Trained(k) \/ outcome[k] = "background"
    \/ mode.loop /\ ~mode.keep /\ outcome[round] = "none"

(* A cancelled session leaves no training behind but those of the rounds   *)
(* that a probe gave up for a retry (monitor_training and the wait         *)
(* terminate what they wait for).                                          *)
CancelLeavesOnlyRetried ==
  result = "cancelled" =>
    \A k \in Rounds : proc[k] = "alive" => outcome[k] = "retried"

(* A requested stop ends the session, even if no training ever ends.       *)
StopEndsSession == cancel ~> (done \/ pc = "crashed")

(* Every session ends when its trainings do: retries are bounded.          *)
TrainingsEnd == \A k \in Rounds : []<>(proc[k] \notin {"alive", "signalled"})

SessionEnds == TrainingsEnd => <>(done \/ pc = "crashed")

(* A stop the loop noticed ends the session as cancelled, unless something *)
(* fails, or the probe of the last round noticed it: monitor_training      *)
(* makes an aborted round of it, and there is no further round whose head  *)
(* would make it a cancelled session (stop_tuning, app.py:2450, promises   *)
(* cancelled without this exception).                                      *)
NoticedStopIsCancelled ==
  seen /\ result # "none" =>
    \/ result = "cancelled"
    \/ faults > 0
    \/ round = budget /\ outcome[round] = "aborted"

(* What a round trains with and what it is judged by: its own finished     *)
(* training, on a change that was not evaluated before.                    *)
TrainingsAreEarned == AnalyzedAfterExit /\ EvaluatedChangeNotRepeated

(* The status the session is recorded with is deserved, for every order in *)
(* which rounds retry, abort, fail and score, and a stop falls into them:  *)
(* the loop's returns (loop.py:856-1564) and what the controller makes of  *)
(* them (tuning_controller.py:187-216).                                    *)
EndIsEarned ==
  /\ BestIsKept
  /\ CompletionIsEarned
  /\ CancelLeavesOnlyRetried
  /\ NoticedStopIsCancelled

(* A stop ends the session, and without one the session ends when its      *)
(* trainings do.                                                           *)
EndsWhenTold == StopEndsSession /\ SessionEnds
=============================================================================
