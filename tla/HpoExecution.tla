---------------------------- MODULE HpoExecution ----------------------------
(***************************************************************************)
(* The sequential HPO executor: HpoRunner (modules/hpo/execution.py) over  *)
(* the study file (study.json: ask/tell), the execution audit              *)
(* (execution.json), the run_state.json and the run directory of a trial,  *)
(* the training history, and the training process itself.                  *)
(*                                                                         *)
(* Every atomic file replacement is one action, so a crash, a failed write *)
(* or a busy lock can fall between any two of them.  What a session only   *)
(* holds in memory is sess[r]; everything else survives a crash.  A trial  *)
(* n of the model is trial_number n - 1 of the code.                       *)
(***************************************************************************)
EXTENDS Naturals, FiniteSets

CONSTANTS
  Budget,     \* study.config.budget: how many trials the study may claim
  Runners,    \* the threads and processes that may call run() / resume()
  NoRunner,   \* the runner lock is free
  Unsafe,     \* the trials whose sampled candidate the guardrails reject
  MaxFaults,  \* bound: crashes, raised errors and unverifiable identities
  MaxStops    \* bound: user stop requests

Trials == 1..Budget

ASSUME BudgetAssumption == Budget \in Nat \ {0}
ASSUME RunnerAssumption == NoRunner \notin Runners
ASSUME UnsafeAssumption == Unsafe \subseteq Trials
ASSUME BoundsAssumption == MaxFaults \in Nat /\ MaxStops \in Nat

-----------------------------------------------------------------------------
(* The data of the files. *)

Result(state, reason) == [state |-> state, reason |-> reason]

Success        == Result("SUCCESS", "none")
InvalidParams  == Result("FAILED", "invalid_params")
TrainingFailed == Result("FAILED", "training_failed")  \* "oom" included
TimedOut       == Result("FAILED", "timeout")
Cancelled      == Result("CANCELLED", "user_stopped")
Interrupted    == Result("INTERRUPTED", "process_interrupted")

Results == {Success, InvalidParams, TrainingFailed, TimedOut, Cancelled,
            Interrupted}

NoResult  == Result("none", "none")       \* attempt.result is None
Unclaimed == Result("UNCLAIMED", "none")  \* the trial is not in study.json
Pending   == Result("PENDING", "none")

Phases == {"NONE", "PREPARED", "LAUNCH_INTENT", "RUNNING", "EXITED",
           "RESULT_READY", "TOLD", "FINALIZED"}

(* "INTERRUPTED" is declared too, but no code path writes it. *)
Statuses == {"ABSENT", "READY", "RUNNING", "PAUSED", "COMPLETED", "BLOCKED"}

(* identity: pid and process_create_token are recorded;                    *)
(* returncode: "none", "zero", "nonzero";  upserted: finalizer_record set. *)
NoAttempt == [phase |-> "NONE", identity |-> FALSE, returncode |-> "none",
              termination |-> "none", result |-> NoResult, upserted |-> FALSE]

Attempt == [phase : Phases, identity : BOOLEAN,
            returncode : {"none", "zero", "nonzero"},
            termination : {"none", "user_stopped", "timeout"},
            result : Results \cup {NoResult}, upserted : BOOLEAN]

(* What the executor commits to an attempt: one field group at a time. *)
InPhase(attempt, phase) == [attempt EXCEPT !.phase = phase]

Running(attempt) == [attempt EXCEPT !.phase = "RUNNING", !.identity = TRUE]

Exited(attempt, code) ==
  [attempt EXCEPT !.phase = "EXITED", !.returncode = code]

Terminated(attempt, reason) == [attempt EXCEPT !.termination = reason]

Resolved(attempt, result) ==
  [attempt EXCEPT !.phase = "RESULT_READY", !.result = result]

Finalized(attempt, upserted) ==
  [attempt EXCEPT !.phase = "FINALIZED", !.upserted = upserted]

(* The status run_state.json carries for a result ("stopping" is status    *)
(* running, phase stopping).                                               *)
RunStatusOf(result) ==
  CASE result.state = "SUCCESS"   -> "completed"
    [] result.state = "FAILED"    -> "failed"
    [] result.state = "CANCELLED" -> "cancelled"
    [] OTHER                      -> "interrupted"

TerminalRunStates == {"completed", "failed", "cancelled", "interrupted"}
RunStates == {"none", "starting", "running", "stopping"} \cup TerminalRunStates

ProcStates == {"none", "alive", "zero", "nonzero"}

-----------------------------------------------------------------------------
VARIABLES
  asked,     \* len(study.trials)
  trials,    \* study.trials: claimed, pending or with a terminal result
  status,    \* execution.json status
  attempts,  \* execution.json attempts, by trial
  runDirs,   \* the trials whose run directory exists
  runState,  \* run_state.json of a trial
  history,   \* what the finalizer recorded of a trial in the history
  proc,      \* the training process of a trial (or its exit code)
  launches,  \* how many processes were created for a trial
  holder,    \* the runner that holds .hpo-runner.lock
  sess,      \* the volatile state of a runner's session
  faults, stops

studyVars == <<asked, trials>>
execVars  == <<status, attempts>>
runVars   == <<runDirs, runState, history>>
procVars  == <<proc, launches>>
lockVars  == <<holder, sess>>
envVars   == <<faults, stops>>
vars == <<studyVars, execVars, runVars, procVars, lockVars, envVars>>

(* pc names the next write of the session.                                 *)
(*   owned:     the session holds the handle of a process it created       *)
(*   finalizer: the result being committed goes through the finalizer      *)
(*   replay:    the result comes from an earlier session                   *)
(*   stop:      the stop event of the controller is set                    *)
Labels == {"idle", "open", "loop", "prepare", "dirMade", "stated", "spawn",
           "launchFailed", "adopt", "unidentified", "announce", "monitor",
           "stopping", "terminate", "decide", "terminal", "tell", "told",
           "finalizer", "finalized", "pause", "cleanup"}

NoSession == [pc |-> "idle", owned |-> FALSE, finalizer |-> FALSE,
              replay |-> FALSE, stop |-> FALSE]

Session == [pc : Labels, owned : BOOLEAN, finalizer : BOOLEAN,
            replay : BOOLEAN, stop : BOOLEAN]

TypeOK ==
  /\ asked \in 0..Budget
  /\ trials \in [Trials -> Results \cup {Unclaimed, Pending}]
  /\ status \in Statuses
  /\ attempts \in [Trials -> Attempt]
  /\ runDirs \subseteq Trials
  /\ runState \in [Trials -> RunStates]
  /\ history \in [Trials -> TerminalRunStates \cup {"none"}]
  /\ proc \in [Trials -> ProcStates]
  /\ launches \in [Trials -> Nat]
  /\ holder \in Runners \cup {NoRunner}
  /\ sess \in [Runners -> Session]
  /\ faults \in Nat
  /\ stops \in Nat

Init ==
  /\ asked = 0
  /\ trials = [n \in Trials |-> Unclaimed]
  /\ status = "ABSENT"
  /\ attempts = [n \in Trials |-> NoAttempt]
  /\ runDirs = {}
  /\ runState = [n \in Trials |-> "none"]
  /\ history = [n \in Trials |-> "none"]
  /\ proc = [n \in Trials |-> "none"]
  /\ launches = [n \in Trials |-> 0]
  /\ holder = NoRunner
  /\ sess = [r \in Runners |-> NoSession]
  /\ faults = 0
  /\ stops = 0

-----------------------------------------------------------------------------
(* Helpers of the actions. *)

(* _current_attempt: the attempt that is not FINALIZED yet. *)
Current == {n \in Trials : attempts[n].phase \notin {"NONE", "FINALIZED"}}

TailPending == asked > 0 /\ trials[asked] = Pending

BudgetSpent == ~TailPending /\ asked = Budget

At(r, label) == sess[r].pc = label

Goto(r, label) ==
  /\ sess' = [sess EXCEPT ![r].pc = label]
  /\ UNCHANGED holder

(* run() / resume() return or raise: the runner lock is released. *)
Leave(r) ==
  /\ sess' = [sess EXCEPT ![r] = NoSession]
  /\ holder' = NoRunner

(* _commit of one field group of the current attempt. *)
Commit(n, attempt) ==
  /\ attempts' = [attempts EXCEPT ![n] = attempt]
  /\ UNCHANGED status

(* _blocked: the record is BLOCKED and the stable code is raised. *)
Block(r) ==
  /\ status' = "BLOCKED"
  /\ UNCHANGED <<attempts, studyVars, runVars, procVars, envVars>>
  /\ Goto(r, "cleanup")

(* The first write of _commit_result: the result is durable before it is   *)
(* told.                                                                   *)
ResultReady(r, n, result, finalizer) ==
  /\ Commit(n, Resolved(attempts[n], result))
  /\ sess' = [sess EXCEPT ![r].pc = "terminal", ![r].finalizer = finalizer,
                          ![r].replay = FALSE]
  /\ UNCHANGED <<holder, studyVars, runVars, procVars, envVars>>

-----------------------------------------------------------------------------
(* prepare, run and resume. *)

Prepare(r) ==
  /\ At(r, "idle")
  /\ holder = NoRunner
  /\ status = "ABSENT"
  /\ \A n \in Trials : trials[n] \notin Results
  /\ status' = "READY"
  /\ UNCHANGED <<attempts, studyVars, runVars, procVars, lockVars, envVars>>

(* The lock is not waited for: a second caller gets HPO_EXECUTION_BUSY. *)
Enter(r) ==
  /\ At(r, "idle")
  /\ holder = NoRunner
  /\ holder' = r
  /\ sess' = [sess EXCEPT ![r].pc = "open"]
  /\ UNCHANGED <<studyVars, execVars, runVars, procVars, envVars>>

(* Any status but READY makes run() return or raise. *)
Run(r) == status = "READY" /\ Enter(r)

Resume(r) == status \notin {"ABSENT", "COMPLETED"} /\ Enter(r)

(* The head of _run_session. *)
OpenSession(r) ==
  /\ At(r, "open")
  /\ status' = "RUNNING"
  /\ Goto(r, "loop")
  /\ UNCHANGED <<attempts, studyVars, runVars, procVars, envVars>>

Finish(r, final) ==
  /\ status' = final
  /\ Leave(r)
  /\ UNCHANGED <<attempts, studyVars, runVars, procVars, envVars>>

Complete(r) ==
  /\ At(r, "loop")
  /\ Current = {}
  /\ BudgetSpent
  /\ Finish(r, "COMPLETED")

(* Mutant of Pause: the stop is looked at before the open attempt. *)
PauseMidAttempt(r) ==
  /\ \/ At(r, "pause")
     \/ At(r, "loop") /\ ~BudgetSpent /\ sess[r].stop
  /\ Finish(r, "PAUSED")

(* Either the stop is seen between two trials, or right after a result of  *)
(* this session was finalized (even if it was the last of the budget).     *)
Pause(r) ==
  /\ \/ At(r, "pause")
     \/ At(r, "loop") /\ Current = {} /\ ~BudgetSpent /\ sess[r].stop
  /\ Finish(r, "PAUSED")

-----------------------------------------------------------------------------
(* _claim_next. *)

(* Mutant of Ask: a fresh request id, so a pending tail is refused with    *)
(* HPO_PENDING_TRIAL.                                                      *)
AskFreshId(r) ==
  /\ At(r, "loop")
  /\ Current = {} /\ ~BudgetSpent /\ ~sess[r].stop
  /\ \/ TailPending /\ UNCHANGED studyVars /\ Goto(r, "cleanup")
     \/ /\ ~TailPending
        /\ asked' = asked + 1
        /\ trials' = [trials EXCEPT ![asked + 1] = Pending]
        /\ Goto(r, "prepare")
  /\ UNCHANGED <<execVars, runVars, procVars, envVars>>

(* ask() with the fixed request id: a pending tail is returned as it is. *)
Ask(r) ==
  /\ At(r, "loop")
  /\ Current = {}
  /\ ~BudgetSpent
  /\ ~sess[r].stop
  /\ \/ TailPending /\ UNCHANGED studyVars
     \/ /\ ~TailPending
        /\ asked' = asked + 1
        /\ trials' = [trials EXCEPT ![asked + 1] = Pending]
  /\ Goto(r, "prepare")
  /\ UNCHANGED <<execVars, runVars, procVars, envVars>>

(* GuardrailRejection: the trial fails without an attempt. *)
RejectCandidate(r) ==
  /\ At(r, "prepare")
  /\ asked \in Unsafe
  /\ trials' = [trials EXCEPT ![asked] = InvalidParams]
  /\ Goto(r, "loop")
  /\ UNCHANGED <<asked, execVars, runVars, procVars, envVars>>

(* adapter.prepare: mkdir(exist_ok=False), then args.yaml. *)
MakeRunDir(r) ==
  /\ At(r, "prepare")
  /\ asked \notin Unsafe \cup runDirs
  /\ runDirs' = runDirs \cup {asked}
  /\ Goto(r, "dirMade")
  /\ UNCHANGED <<runState, history, studyVars, execVars, procVars, envVars>>

(* FileExistsError leaves the session. *)
RunDirExists(r) ==
  /\ At(r, "prepare")
  /\ asked \in runDirs \ Unsafe
  /\ Goto(r, "cleanup")
  /\ UNCHANGED <<studyVars, execVars, runVars, procVars, envVars>>

WriteStarting(r) ==
  /\ At(r, "dirMade")
  /\ runState' = [runState EXCEPT ![asked] = "starting"]
  /\ Goto(r, "stated")
  /\ UNCHANGED <<runDirs, history, studyVars, execVars, procVars, envVars>>

CommitPrepared(r) ==
  /\ At(r, "stated")
  /\ Commit(asked, InPhase(NoAttempt, "PREPARED"))
  /\ Goto(r, "loop")
  /\ UNCHANGED <<studyVars, runVars, procVars, envVars>>

-----------------------------------------------------------------------------
(* _launch_new and _launch_owned. *)

Driving(r, n, phase) == At(r, "loop") /\ n \in Current
                        /\ attempts[n].phase = phase

CancelBeforeLaunch(r) == \E n \in Trials :
  /\ Driving(r, n, "PREPARED")
  /\ sess[r].stop
  /\ ResultReady(r, n, Cancelled, FALSE)

(* validate_launch fails: the evidence is kept and the record is BLOCKED. *)
RefuseLaunch(r) == \E n \in Trials :
  /\ Driving(r, n, "PREPARED")
  /\ ~sess[r].stop
  /\ faults < MaxFaults
  /\ faults' = faults + 1
  /\ status' = "BLOCKED"
  /\ Goto(r, "cleanup")
  /\ UNCHANGED <<attempts, studyVars, runVars, procVars, stops>>

CommitIntent(r) == \E n \in Trials :
  /\ Driving(r, n, "PREPARED")
  /\ ~sess[r].stop
  /\ Commit(n, InPhase(attempts[n], "LAUNCH_INTENT"))
  /\ Goto(r, "spawn")
  /\ UNCHANGED <<studyVars, runVars, procVars, envVars>>

Launch(r) == \E n \in Current :
  /\ At(r, "spawn")
  /\ proc' = [proc EXCEPT ![n] = "alive"]
  /\ launches' = [launches EXCEPT ![n] = @ + 1]
  /\ sess' = [sess EXCEPT ![r].pc = "adopt", ![r].owned = TRUE]
  /\ UNCHANGED <<holder, studyVars, execVars, runVars, envVars>>

(* The re-validation inside launch() fails: nothing was started. *)
BlockAtLaunch(r) ==
  /\ At(r, "spawn")
  /\ faults < MaxFaults
  /\ faults' = faults + 1
  /\ status' = "BLOCKED"
  /\ Goto(r, "cleanup")
  /\ UNCHANGED <<attempts, studyVars, runVars, procVars, stops>>

(* The process cannot be created: EXITED with return code -1. *)
LaunchFails(r) == \E n \in Current :
  /\ At(r, "spawn")
  /\ faults < MaxFaults
  /\ faults' = faults + 1
  /\ Commit(n, Exited(attempts[n], "nonzero"))
  /\ Goto(r, "launchFailed")
  /\ UNCHANGED <<studyVars, runVars, procVars, stops>>

RecordLaunchFailure(r) == \E n \in Current :
  /\ At(r, "launchFailed")
  /\ ResultReady(r, n, TrainingFailed, FALSE)

(* The identity is captured: RUNNING with pid and token. *)
CommitRunning(r) == \E n \in Current :
  /\ At(r, "adopt")
  /\ Commit(n, Running(attempts[n]))
  /\ Goto(r, "announce")
  /\ UNCHANGED <<studyVars, runVars, procVars, envVars>>

(* No identity, but the exit was seen: straight to EXITED. *)
CommitShortLived(r) == \E n \in Current :
  /\ At(r, "adopt")
  /\ proc[n] \in {"zero", "nonzero"}
  /\ Commit(n, Exited(attempts[n], proc[n]))
  /\ Goto(r, "decide")
  /\ UNCHANGED <<studyVars, runVars, procVars, envVars>>

(* _stop_process: the exit is confirmed or not. *)
StopProcess(n) ==
  \/ proc[n] = "alive" /\ proc' = [proc EXCEPT ![n] = "nonzero"]
  \/ UNCHANGED proc

(* No identity and alive: stop the process, whatever comes of it, then     *)
(* block.                                                                  *)
StopUnidentified(r) == \E n \in Current :
  /\ At(r, "adopt")
  /\ proc[n] = "alive"
  /\ faults < MaxFaults
  /\ faults' = faults + 1
  /\ StopProcess(n)
  /\ Goto(r, "unidentified")
  /\ UNCHANGED <<launches, studyVars, execVars, runVars, stops>>

BlockUnidentified(r) == At(r, "unidentified") /\ Block(r)

WriteRunning(r) == \E n \in Current :
  /\ At(r, "announce")
  /\ runState' = [runState EXCEPT ![n] = "running"]
  /\ Goto(r, "monitor")
  /\ UNCHANGED <<runDirs, history, studyVars, execVars, procVars, envVars>>

-----------------------------------------------------------------------------
(* _monitor. *)

ObserveExit(r) == \E n \in Current :
  /\ At(r, "monitor")
  /\ proc[n] \in {"zero", "nonzero"}
  /\ Commit(n, Exited(attempts[n], proc[n]))
  /\ Goto(r, "decide")
  /\ UNCHANGED <<studyVars, runVars, procVars, envVars>>

(* The reason is durable before the process is touched. *)
CommitTermination(r) == \E n \in Current, reason \in {"user_stopped", "timeout"} :
  /\ At(r, "monitor")
  /\ proc[n] = "alive"
  /\ attempts[n].termination = "none"
  /\ (reason = "user_stopped") = sess[r].stop
  /\ Commit(n, Terminated(attempts[n], reason))
  /\ Goto(r, "stopping")
  /\ UNCHANGED <<studyVars, runVars, procVars, envVars>>

WriteStopping(r) == \E n \in Current :
  /\ At(r, "stopping")
  /\ runState' = [runState EXCEPT ![n] = "stopping"]
  /\ Goto(r, "terminate")
  /\ UNCHANGED <<runDirs, history, studyVars, execVars, procVars, envVars>>

Terminate(r) == \E n \in Current :
  /\ At(r, "terminate")
  /\ proc' = [proc EXCEPT ![n] = IF @ = "alive" THEN "nonzero" ELSE @]
  /\ Goto(r, "monitor")
  /\ UNCHANGED <<launches, studyVars, execVars, runVars, envVars>>

(* The exit is not confirmed within the two waits. *)
BlockStillActive(r) == \E n \in Current :
  /\ At(r, "terminate")
  /\ proc[n] = "alive"
  /\ Block(r)

-----------------------------------------------------------------------------
(* _decide_from_exited, _reconcile_running, _replay. *)

(* What collect() may find after a clean exit. *)
Collected == {Success, InvalidParams, TrainingFailed}

DecidedResults(attempt) ==
  IF attempt.returncode = "zero" /\ attempt.termination = "none"
    THEN Collected
    ELSE IF attempt.termination = "user_stopped" THEN {Cancelled}
    ELSE IF attempt.termination = "timeout" THEN {TimedOut}
    ELSE {TrainingFailed}

(* Mutant of Decide: a committed result is collected again. *)
DecideAgain(r) == \E n \in Current : \E result \in DecidedResults(attempts[n]) :
  /\ \/ At(r, "decide") \/ Driving(r, n, "EXITED")
     \/ Driving(r, n, "RESULT_READY") /\ attempts[n].returncode # "none"
  /\ ResultReady(r, n, result, TRUE)

Decide(r) == \E n \in Current : \E result \in DecidedResults(attempts[n]) :
  /\ At(r, "decide") \/ Driving(r, n, "EXITED")
  /\ ResultReady(r, n, result, TRUE)

(* Mutant of BlockUnprovable: an intent without identity is launched again. *)
RelaunchIntent(r) == \E n \in Trials :
  /\ Driving(r, n, "LAUNCH_INTENT")
  /\ Goto(r, "spawn")
  /\ UNCHANGED <<studyVars, execVars, runVars, procVars, envVars>>

BlockUnprovable(r) == \E n \in Trials :
  /\ Driving(r, n, "LAUNCH_INTENT")
  /\ Block(r)

(* MATCH: the original process is alive. *)
BlockMatch(r) == \E n \in Trials :
  /\ Driving(r, n, "RUNNING")
  /\ proc[n] = "alive"
  /\ Block(r)

(* UNVERIFIABLE, whether the process is alive or not. *)
BlockUnverifiable(r) == \E n \in Trials :
  /\ Driving(r, n, "RUNNING")
  /\ faults < MaxFaults
  /\ faults' = faults + 1
  /\ status' = "BLOCKED"
  /\ Goto(r, "cleanup")
  /\ UNCHANGED <<attempts, studyVars, runVars, procVars, stops>>

(* Mutant of RecordInterrupted: an old process counts as gone unseen. *)
InterruptUnseen(r) == \E n \in Trials :
  /\ Driving(r, n, "RUNNING")
  /\ ResultReady(r, n, Interrupted, TRUE)

(* MISSING, or MISMATCH when the pid was reused. *)
RecordInterrupted(r) == \E n \in Trials :
  /\ Driving(r, n, "RUNNING")
  /\ proc[n] # "alive"
  /\ ResultReady(r, n, Interrupted, TRUE)

(* Mutant of Replay: the run state is left as it is. *)
ReplayTellOnly(r) == \E n \in Trials :
  /\ Driving(r, n, "RESULT_READY") \/ Driving(r, n, "TOLD")
  /\ sess' = [sess EXCEPT ![r].pc = "tell", ![r].replay = TRUE,
                          ![r].finalizer = \/ attempts[n].identity
                                           \/ attempts[n].returncode # "none"]
  /\ UNCHANGED <<holder, studyVars, execVars, runVars, procVars, envVars>>

Replay(r) == \E n \in Trials :
  /\ Driving(r, n, "RESULT_READY") \/ Driving(r, n, "TOLD")
  /\ sess' = [sess EXCEPT ![r].pc = "terminal", ![r].replay = TRUE,
                          ![r].finalizer = \/ attempts[n].identity
                                           \/ attempts[n].returncode # "none"]
  /\ UNCHANGED <<holder, studyVars, execVars, runVars, procVars, envVars>>

-----------------------------------------------------------------------------
(* The tail shared by _commit_result_with_error and _replay. *)

WriteTerminal(r) == \E n \in Current :
  /\ At(r, "terminal")
  /\ runState' = [runState EXCEPT ![n] = RunStatusOf(attempts[n].result)]
  /\ Goto(r, "tell")
  /\ UNCHANGED <<runDirs, history, studyVars, execVars, procVars, envVars>>

(* tell() is idempotent; another terminal result is HPO_RESULT_CONFLICT,   *)
(* raised as HPO_CORRUPT_EXECUTION.                                        *)
Tell(r) == \E n \in Current :
  /\ At(r, "tell")
  /\ trials' = [trials EXCEPT ![n] = IF @ = Pending THEN attempts[n].result
                                                  ELSE @]
  /\ Goto(r, IF trials[n] \in {Pending, attempts[n].result} THEN "told"
                                                           ELSE "cleanup")
  /\ UNCHANGED <<asked, execVars, runVars, procVars, envVars>>

CommitTold(r) == \E n \in Current :
  /\ At(r, "told")
  /\ Commit(n, InPhase(attempts[n], "TOLD"))
  /\ Goto(r, IF sess[r].finalizer THEN "finalizer" ELSE "finalized")
  /\ UNCHANGED <<studyVars, runVars, procVars, envVars>>

(* An upsert keyed by the run: a repetition changes nothing. *)
RunFinalizer(r) == \E n \in Current :
  /\ At(r, "finalizer")
  /\ history' = [history EXCEPT ![n] = RunStatusOf(attempts[n].result)]
  /\ Goto(r, "finalized")
  /\ UNCHANGED <<runDirs, runState, studyVars, execVars, procVars, envVars>>

CommitFinalized(r) == \E n \in Current :
  /\ At(r, "finalized")
  /\ Commit(n, Finalized(attempts[n], sess[r].finalizer))
  /\ sess' = [sess EXCEPT
       ![r].owned = FALSE,
       ![r].pc = IF sess[r].stop /\ ~sess[r].replay THEN "pause" ELSE "loop"]
  /\ UNCHANGED <<holder, studyVars, runVars, procVars, envVars>>

-----------------------------------------------------------------------------
(* Errors, crashes and the environment. *)

(* A raised error at any step: a busy lock, a failed write, an environment *)
(* or binding drift, a history error.                                      *)
StepFails(r) ==
  /\ sess[r].pc \notin {"idle", "cleanup"}
  /\ faults < MaxFaults
  /\ faults' = faults + 1
  /\ Goto(r, "cleanup")
  /\ UNCHANGED <<studyVars, execVars, runVars, procVars, stops>>

(* The exception boundary of _launch_new: the owned process is stopped,    *)
(* confirmed or not, and the error leaves run() / resume().                *)
Cleanup(r) ==
  /\ At(r, "cleanup")
  /\ \/ sess[r].owned /\ \E n \in Current : StopProcess(n)
     \/ ~sess[r].owned /\ UNCHANGED proc
  /\ Leave(r)
  /\ UNCHANGED <<launches, studyVars, execVars, runVars, envVars>>

(* The process that hosts the runner dies; the training process survives. *)
Crash(r) ==
  /\ ~At(r, "idle")
  /\ faults < MaxFaults
  /\ faults' = faults + 1
  /\ Leave(r)
  /\ UNCHANGED <<studyVars, execVars, runVars, procVars, stops>>

(* HpoController.request_stop. *)
RequestStop(r) ==
  /\ ~At(r, "idle")
  /\ ~sess[r].stop
  /\ stops < MaxStops
  /\ stops' = stops + 1
  /\ sess' = [sess EXCEPT ![r].stop = TRUE]
  /\ UNCHANGED <<holder, studyVars, execVars, runVars, procVars, faults>>

(* The training process ends by itself. *)
ProcessExits(n) ==
  /\ proc[n] = "alive"
  /\ \E code \in {"zero", "nonzero"} : proc' = [proc EXCEPT ![n] = code]
  /\ UNCHANGED <<launches, studyVars, execVars, runVars, lockVars, envVars>>

-----------------------------------------------------------------------------
Claiming(r) ==
  Ask(r) \/ RejectCandidate(r) \/ MakeRunDir(r) \/ RunDirExists(r)
  \/ WriteStarting(r) \/ CommitPrepared(r)

Launching(r) ==
  CancelBeforeLaunch(r) \/ RefuseLaunch(r) \/ CommitIntent(r) \/ Launch(r)
  \/ BlockAtLaunch(r) \/ LaunchFails(r) \/ RecordLaunchFailure(r)
  \/ CommitRunning(r) \/ CommitShortLived(r) \/ StopUnidentified(r)
  \/ BlockUnidentified(r) \/ WriteRunning(r)

Monitoring(r) ==
  ObserveExit(r) \/ CommitTermination(r) \/ WriteStopping(r) \/ Terminate(r)
  \/ BlockStillActive(r)

Recovering(r) ==
  Decide(r) \/ BlockUnprovable(r) \/ BlockMatch(r) \/ BlockUnverifiable(r)
  \/ RecordInterrupted(r) \/ Replay(r)

Committing(r) ==
  WriteTerminal(r) \/ Tell(r) \/ CommitTold(r) \/ RunFinalizer(r)
  \/ CommitFinalized(r)

(* What the session thread does on its own. *)
SessionStep(r) ==
  OpenSession(r) \/ Complete(r) \/ Pause(r) \/ Claiming(r) \/ Launching(r)
  \/ Monitoring(r) \/ Recovering(r) \/ Committing(r) \/ Cleanup(r)

Next ==
  \/ \E r \in Runners :
       \/ Prepare(r) \/ Run(r) \/ Resume(r)
       \/ SessionStep(r)
       \/ StepFails(r) \/ Crash(r) \/ RequestStop(r)
  \/ \E n \in Trials : ProcessExits(n)

Spec == Init /\ [][Next]_vars

(* A started thread runs on, a training ends, the study is prepared and    *)
(* resumed again and again.                                                *)
FairSpec ==
  /\ Spec
  /\ \A r \in Runners : WF_vars(SessionStep(r)) /\ WF_vars(Prepare(r))
  /\ WF_vars(\E r \in Runners : Resume(r))
  /\ \A n \in Trials : WF_vars(ProcessExits(n))

-----------------------------------------------------------------------------
(* Properties. *)

(* A trial gets at most one training process, over every crash, retry and  *)
(* resume ("失败不重试原 trial"; recovery must not retrain).               *)
LaunchedAtMostOnce == \A n \in Trials : launches[n] <= 1

(* A process exists only for a trial whose launch intent is in the audit:  *)
(* the intent is durable before the launch.                                *)
LaunchIsAudited ==
  \A n \in Trials : launches[n] > 0 =>
                     attempts[n].phase \notin {"NONE", "PREPARED"}

(* Never two trainings of the study at once: an exit that is not confirmed *)
(* keeps every later trial from starting.                                  *)
OneTraining ==
  \A m, n \in Trials : proc[m] = "alive" /\ proc[n] = "alive" => m = n

(* What a launch may never do, taken together: twice, unrecorded, or       *)
(* beside another (_launch_new, _drive_attempt).                           *)
LaunchesAreSafe == LaunchedAtMostOnce /\ LaunchIsAudited /\ OneTraining

(* No file claims an outcome while the process still trains: not the       *)
(* audit, not study.json, not run_state.json.                              *)
NoResultWhileTraining ==
  \A n \in Trials : proc[n] = "alive" =>
    /\ attempts[n].result = NoResult
    /\ trials[n] = Pending
    /\ runState[n] \notin TerminalRunStates

(* _cross_validate holds at every moment, so neither a crash nor an error  *)
(* between two files makes the next status, run or resume report           *)
(* HPO_CORRUPT_EXECUTION.                                                  *)
RecordsAgree ==
  /\ \A n \in Trials :
       /\ attempts[n].phase # "NONE" => n <= asked
       /\ attempts[n].phase = "FINALIZED" => /\ trials[n] \in Results
                                             /\ trials[n] = attempts[n].result
  /\ status = "COMPLETED" => /\ Current = {}
                             /\ asked = Budget
                             /\ \A n \in Trials : trials[n] # Pending

(* A terminal trial that had an attempt has the same terminal state in     *)
(* study.json, run_state.json and the history, in whichever session each   *)
(* of them was written.                                                    *)
TerminalFactsAgree ==
  \A n \in Trials : attempts[n].phase # "NONE" /\ trials[n] \in Results =>
    /\ runState[n] = RunStatusOf(trials[n])
    /\ history[n] \in {"none", RunStatusOf(trials[n])}

(* Every training that ran has reached the history before its trial is     *)
(* closed, whichever recovery path closed it.                              *)
EveryTrainingIsRecorded ==
  \A n \in Trials : attempts[n].phase = "FINALIZED" /\ launches[n] > 0 =>
                     attempts[n].upserted /\ history[n] # "none"

(* What a stop or a timeout ended is never a success, and a trial is only  *)
(* cancelled by a stop that is on record or that came before the launch.   *)
TerminationDecides ==
  \A n \in Trials :
    /\ attempts[n].termination # "none" =>
         attempts[n].result \in {NoResult, Cancelled, TimedOut, Interrupted}
    /\ attempts[n].result = Cancelled /\ launches[n] > 0 =>
         attempts[n].termination = "user_stopped"

(* The statuses that the training gate takes for free are free: no open    *)
(* attempt, no process (modules/run_state/gate.py, "Studies already at a   *)
(* terminal execution status never block").                                *)
RestIsFree ==
  status \in {"READY", "PAUSED", "COMPLETED"} =>
    Current = {} /\ \A n \in Trials : proc[n] # "alive"

(* The files never contradict each other or the process, at any write      *)
(* (_cross_validate, _commit_result, _finish_session).                     *)
FilesAgree == NoResultWhileTraining /\ RecordsAgree /\ RestIsFree

(* What the files say of a settled trial is one story, and the true one    *)
(* (_commit_result, _replay, _reconcile_running, _decide_from_exited).     *)
SettledIsTrue ==
  TerminalFactsAgree /\ EveryTrainingIsRecorded /\ TerminationDecides

(* What is decided stays decided: neither a replay nor a second decision   *)
(* changes a committed or told result.                                     *)
ResultsAreFinal ==
  [][\A n \in Trials :
       /\ trials[n] \in Results => trials'[n] = trials[n]
       /\ attempts[n].result # NoResult =>
            attempts'[n].result = attempts[n].result]_vars

(* The executor implements the ledger of trials: claimed in order, trained *)
(* at most once and alone, settled once and only at rest.                  *)
Ledger == INSTANCE TrialLedger WITH
  Outcomes <- Results,
  Open     <- Pending,
  claimed  <- asked,
  started  <- {n \in Trials : launches[n] > 0},
  training <- {n \in Trials : proc[n] = "alive"},
  outcome  <- [n \in Trials |-> IF trials[n] \in Results THEN trials[n]
                                                        ELSE Pending]

ImplementsLedger == Ledger!Spec

(* And it keeps to the course of a study that the page is shown: a session *)
(* opens, claims and settles trials, and ends blocked, paused or completed *)
(* (_run_session, _finish_session, _blocked).                              *)
ShownState(result) ==
  IF result.state = "INTERRUPTED" THEN "FAILED" ELSE result.state

Course == INSTANCE StudyCourse WITH
  states <- [n \in Trials |-> ShownState(trials[n])]

ImplementsCourse == Course!Spec

(* What the executor promises, whatever crashes, to the trials and to the  *)
(* page (HpoRunner.run, HpoRunner.resume).                                 *)
KeepsPromises == ImplementsLedger /\ ImplementsCourse

(* Every session ends, stopped or not, whatever fails in it. *)
SessionEnds == \A r \in Runners : ~At(r, "idle") ~> At(r, "idle")

(* The two states no resume leads out of: a launch whose outcome nothing   *)
(* proves, and a claimed trial that has a directory but no attempt.        *)
LaunchUnprovable ==
  holder = NoRunner /\ \E n \in Current : attempts[n].phase = "LAUNCH_INTENT"
RunDirOrphaned ==
  holder = NoRunner /\ TailPending /\ Current = {} /\ asked \in runDirs

(* With a resume after every error the study completes, unless it is in    *)
(* one of those two states.                                                *)
CompletesUnlessWedged ==
  <>(status = "COMPLETED" \/ LaunchUnprovable \/ RunDirOrphaned)

(* Sessions end and, resumed again and again, the study completes unless   *)
(* no resume leads out of its state (run, resume, _run_session).           *)
StudyGetsOn == SessionEnds /\ CompletesUnlessWedged
=============================================================================
