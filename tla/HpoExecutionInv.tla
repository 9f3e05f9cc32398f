--------------------------- MODULE HpoExecutionInv ---------------------------
(***************************************************************************)
(* The inductive invariant of HpoExecution: what holds between any two     *)
(* writes, and from which its safety properties follow.                    *)
(***************************************************************************)
EXTENDS HpoExecution

(* Only the holder of the runner lock is inside run() or resume(). *)
LockHeld == \A r \in Runners : ~At(r, "idle") => holder = r

(* Trials are claimed in order and settled before the next one is claimed; *)
(* the open attempt belongs to the last of them.                           *)
ClaimedInOrder ==
  \A n \in Trials :
    /\ n > asked => trials[n] = Unclaimed /\ attempts[n].phase = "NONE"
    /\ n = asked => trials[n] # Unclaimed
    /\ n < asked => trials[n] \in Results
    /\ attempts[n].phase \notin {"NONE", "FINALIZED"} => n = asked

(* The phase of an attempt bounds what happened to its process. *)
PhaseBoundsProcess ==
  \A n \in Trials :
    /\ launches[n] <= 1
    /\ attempts[n].phase \in {"NONE", "PREPARED"} => launches[n] = 0
    /\ launches[n] = 0 => proc[n] = "none"
    /\ proc[n] = "alive" => attempts[n].phase \in {"LAUNCH_INTENT", "RUNNING"}

(* The phase of an attempt bounds what the other files say of its trial. *)
PhaseBoundsFiles ==
  \A n \in Trials :
    /\ attempts[n].phase \notin {"RESULT_READY", "TOLD", "FINALIZED"} =>
         attempts[n].result = NoResult
    /\ attempts[n].phase \in {"RESULT_READY", "TOLD", "FINALIZED"} =>
         attempts[n].result \in Results
    /\ attempts[n].phase \in {"PREPARED", "LAUNCH_INTENT", "RUNNING", "EXITED"} =>
         trials[n] = Pending /\ runState[n] \notin TerminalRunStates
    /\ attempts[n].phase = "RESULT_READY" =>
         trials[n] \in {Pending, attempts[n].result}
    /\ attempts[n].phase \in {"TOLD", "FINALIZED"} =>
         trials[n] = attempts[n].result

(* The phase of the open attempt at a label of the session that drives it. *)
PhasesAt(label) ==
  CASE label \in {"spawn", "adopt", "unidentified"} -> {"LAUNCH_INTENT"}
    [] label \in {"announce", "monitor", "stopping", "terminate"} -> {"RUNNING"}
    [] label \in {"launchFailed", "decide"} -> {"EXITED"}
    [] label \in {"terminal", "tell", "told"} -> {"RESULT_READY", "TOLD"}
    [] label \in {"finalizer", "finalized"} -> {"TOLD"}
    [] label \in {"prepare", "dirMade", "stated", "pause"} -> {}
    [] OTHER -> Phases

(* What a session knows at its next write. *)
SessionKnows(r) ==
  /\ \A n \in Current : attempts[n].phase \in PhasesAt(sess[r].pc)
  /\ sess[r].pc \in {"prepare", "dirMade", "stated"} =>
       /\ asked \in Trials
       /\ trials[asked] = Pending
       /\ attempts[asked].phase = "NONE"
  /\ At(r, "stated") => runState[asked] = "starting"
  /\ At(r, "spawn") => \A n \in Current : launches[n] = 0
  /\ At(r, "told") => \A n \in Current : trials[n] = attempts[n].result

SessionsKnow == \A r \in Runners : SessionKnows(r)

(* A study at rest has no open attempt, and a session is not under way. *)
RestIsSettled ==
  /\ status \in {"ABSENT", "READY", "PAUSED", "COMPLETED"} =>
       /\ Current = {}
       /\ \A r \in Runners : sess[r].pc \in {"idle", "open", "cleanup"}
  /\ status = "COMPLETED" =>
       /\ asked = Budget
       /\ trials[asked] # Pending
       /\ \A r \in Runners : At(r, "idle")

IInv ==
  /\ TypeOK
  /\ LockHeld
  /\ ClaimedInOrder
  /\ PhaseBoundsProcess
  /\ PhaseBoundsFiles
  /\ SessionsKnow
  /\ RestIsSettled

-----------------------------------------------------------------------------
(* Why a settled trial tells one story.  What the files say of one trial:  *)
(* the run state follows the committed result as soon as the result is     *)
(* told,                                                                   *)
RunStateFollows(n) ==
  /\ attempts[n].phase \in {"TOLD", "FINALIZED"} =>
       runState[n] = RunStatusOf(attempts[n].result)
  /\ attempts[n].phase = "RESULT_READY" /\ trials[n] # Pending =>
       runState[n] = RunStatusOf(attempts[n].result)

(* the history follows the told result,                                    *)
HistoryFollows(n) ==
  history[n] # "none" => /\ attempts[n].phase \in {"TOLD", "FINALIZED"}
                         /\ history[n] = RunStatusOf(attempts[n].result)

(* a replay can tell from the audit that there was a process, and a closed *)
(* training is in the history,                                             *)
TrainingOnRecord(n) ==
  /\ attempts[n].phase = "RUNNING" => attempts[n].identity
  /\ attempts[n].phase = "EXITED" => attempts[n].returncode # "none"
  /\ attempts[n].phase \in {"RESULT_READY", "TOLD"} /\ launches[n] > 0 =>
       attempts[n].identity \/ attempts[n].returncode # "none"
  /\ attempts[n].phase = "FINALIZED" /\ launches[n] > 0 =>
       attempts[n].upserted /\ history[n] # "none"

(* and a termination is committed while the process runs and decides the   *)
(* result.                                                                 *)
TerminationOnRecord(n) ==
  /\ attempts[n].phase \in {"NONE", "PREPARED", "LAUNCH_INTENT"} =>
       attempts[n].termination = "none"
  /\ attempts[n].termination # "none" =>
       attempts[n].result \in {NoResult, Cancelled, TimedOut, Interrupted}
  /\ attempts[n].result = Cancelled /\ launches[n] > 0 =>
       attempts[n].termination = "user_stopped"

TrialOnRecord(n) ==
  RunStateFollows(n) /\ HistoryFollows(n) /\ TrainingOnRecord(n)
  /\ TerminationOnRecord(n)

(* What the session that commits a result knows: a trained trial goes      *)
(* through the finalizer, a launch that failed left nothing, the run state *)
(* was written before tell(), the history before the attempt is closed.    *)
CommitKnows(r) ==
  \A n \in Current :
    /\ At(r, "launchFailed") => /\ launches[n] = 0
                                /\ attempts[n].termination = "none"
    /\ sess[r].pc \in {"terminal", "tell", "told", "finalizer", "finalized"} =>
         (launches[n] > 0 => sess[r].finalizer)
    /\ sess[r].pc \in {"tell", "told"} =>
         runState[n] = RunStatusOf(attempts[n].result)
    /\ At(r, "finalized") => (sess[r].finalizer => history[n] # "none")

SettledInv ==
  /\ \A n \in Trials : TrialOnRecord(n)
  /\ \A r \in Runners : CommitKnows(r)

-----------------------------------------------------------------------------
(* Why the page sees the course of a study: a session that writes has      *)
(* opened the record, nobody else changes its status meanwhile, and a      *)
(* launch that is blocked is the launch of an open attempt.                *)
SessionIsShown ==
  \A r \in Runners :
    /\ sess[r].pc \notin {"idle", "open", "cleanup"} => status = "RUNNING"
    /\ At(r, "open") => status \notin {"ABSENT", "COMPLETED"}
    /\ sess[r].pc \in {"spawn", "unidentified"} => Current # {}
=============================================================================
