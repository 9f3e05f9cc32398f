------------------------- MODULE HpoExecutionProofs -------------------------
(***************************************************************************)
(* What holds of the HPO executor for every budget, every set of callers   *)
(* and every number of faults and stops.  The argument: IInv is inductive  *)
(* (one lemma per conjunct, one step per action that can disturb it), and  *)
(* the safety properties of HpoExecution follow from it.                   *)
(***************************************************************************)
EXTENDS HpoExecutionInv, TLAPS

USE DEF studyVars, execVars, runVars, procVars, lockVars, envVars

-----------------------------------------------------------------------------
(* The data of the files. *)

(* Results, Pending, Unclaimed and "no result" can be told apart. *)
LEMMA ResultsDistinct ==
  /\ Success \in Results /\ InvalidParams \in Results
  /\ TrainingFailed \in Results /\ TimedOut \in Results
  /\ Cancelled \in Results /\ Interrupted \in Results
  /\ NoResult \notin Results /\ Pending \notin Results
  /\ Unclaimed \notin Results /\ Pending # Unclaimed
BY DEF Results, Success, InvalidParams, TrainingFailed, TimedOut, Cancelled,
       Interrupted, Result, NoResult, Pending, Unclaimed

(* Every field group the executor commits leaves an attempt well typed and *)
(* changes no other field.                                                 *)
LEMMA AttemptUpdates ==
  ASSUME NEW a \in Attempt
  PROVE  /\ \A p \in Phases : /\ InPhase(a, p) \in Attempt
                             /\ InPhase(a, p).phase = p
                             /\ InPhase(a, p).result = a.result
         /\ \A c \in {"none", "zero", "nonzero"} :
              /\ Exited(a, c) \in Attempt
              /\ Exited(a, c).phase = "EXITED"
              /\ Exited(a, c).result = a.result
         /\ /\ Running(a) \in Attempt
            /\ Running(a).phase = "RUNNING"
            /\ Running(a).result = a.result
         /\ \A t \in {"user_stopped", "timeout"} :
              /\ Terminated(a, t) \in Attempt
              /\ Terminated(a, t).phase = a.phase
              /\ Terminated(a, t).result = a.result
         /\ \A u \in BOOLEAN : /\ Finalized(a, u) \in Attempt
                               /\ Finalized(a, u).phase = "FINALIZED"
                               /\ Finalized(a, u).result = a.result
BY DEF Attempt, Phases, InPhase, Exited, Running, Terminated, Finalized

(* A resolved attempt is RESULT_READY with that result. *)
LEMMA ResolvedUpdate ==
  ASSUME NEW a \in Attempt, NEW x \in Results
  PROVE  /\ Resolved(a, x) \in Attempt
         /\ Resolved(a, x).phase = "RESULT_READY"
         /\ Resolved(a, x).result = x
BY DEF Attempt, Phases, Resolved

(* A fresh attempt is one that the audit model accepts. *)
LEMMA NoAttemptType ==
  NoAttempt \in Attempt /\ NoAttempt.phase = "NONE" /\ NoAttempt.result = NoResult
BY DEF NoAttempt, Attempt, Phases

(* Every result has a terminal run_state.json status. *)
LEMMA RunStatusType ==
  ASSUME NEW x
  PROVE  RunStatusOf(x) \in TerminalRunStates
BY DEF RunStatusOf, TerminalRunStates

-----------------------------------------------------------------------------
(* What the helpers of the actions do. *)

(* A step within a session moves one session and keeps the lock. *)
LEMMA GotoEffect ==
  ASSUME TypeOK, NEW r \in Runners, NEW label \in Labels, Goto(r, label)
  PROVE  /\ sess' \in [Runners -> Session]
         /\ sess'[r].pc = label
         /\ \A q \in Runners \ {r} : sess'[q] = sess[q]
         /\ holder' = holder
<1>1. [sess[r] EXCEPT !.pc = label] \in Session
  BY DEF TypeOK, Session
<1>2. sess' = [sess EXCEPT ![r] = [sess[r] EXCEPT !.pc = label]]
  BY DEF Goto, TypeOK
<1>3. [sess[r] EXCEPT !.pc = label].pc = label
  BY DEF TypeOK, Session
<1> QED BY <1>1, <1>2, <1>3 DEF TypeOK, Goto

(* A session that returns or raises frees the lock. *)
LEMMA LeaveEffect ==
  ASSUME TypeOK, NEW r \in Runners, Leave(r)
  PROVE  /\ sess' \in [Runners -> Session]
         /\ sess'[r].pc = "idle"
         /\ \A q \in Runners \ {r} : sess'[q] = sess[q]
         /\ holder' = NoRunner
<1>1. NoSession \in Session /\ NoSession.pc = "idle"
  BY DEF NoSession, Session, Labels
<1> QED BY <1>1 DEF TypeOK, Leave

(* A commit writes one attempt and leaves the others as they are. *)
LEMMA CommitEffect ==
  ASSUME TypeOK, NEW n \in Trials, NEW attempt \in Attempt, Commit(n, attempt)
  PROVE  /\ attempts' \in [Trials -> Attempt]
         /\ attempts'[n] = attempt
         /\ \A m \in Trials \ {n} : attempts'[m] = attempts[m]
         /\ status' = status
BY DEF TypeOK, Commit

(* The first write of _commit_result: one attempt, one session. *)
LEMMA ResultReadyEffect ==
  ASSUME TypeOK, NEW r \in Runners, NEW n \in Trials, NEW result \in Results,
         NEW finalizer \in BOOLEAN, ResultReady(r, n, result, finalizer)
  PROVE  /\ attempts' \in [Trials -> Attempt]
         /\ attempts'[n].phase = "RESULT_READY"
         /\ attempts'[n].result = result
         /\ \A m \in Trials \ {n} : attempts'[m] = attempts[m]
         /\ sess' \in [Runners -> Session]
         /\ sess'[r].pc = "terminal"
         /\ \A q \in Runners \ {r} : sess'[q] = sess[q]
         /\ UNCHANGED <<status, holder, studyVars, runVars, procVars, envVars>>
<1> DEFINE s == [sess[r] EXCEPT !.pc = "terminal", !.finalizer = finalizer,
                                !.replay = FALSE]
           b == Resolved(attempts[n], result)
<1>1. b \in Attempt /\ b.phase = "RESULT_READY" /\ b.result = result
  <2>1. attempts[n] \in Attempt
    BY DEF TypeOK
  <2> QED BY <2>1, ResolvedUpdate
<1>2. /\ attempts' \in [Trials -> Attempt]
      /\ attempts'[n].phase = "RESULT_READY"
      /\ attempts'[n].result = result
      /\ \A m \in Trials \ {n} : attempts'[m] = attempts[m]
      /\ status' = status
  <2>1. Commit(n, b)
    BY DEF ResultReady
  <2> HIDE DEF b
  <2> QED BY <1>1, <2>1, CommitEffect
<1>3. s \in Session /\ s.pc = "terminal"
  BY DEF TypeOK, Session, Labels
<1>4. sess' = [sess EXCEPT ![r] = s]
  BY DEF ResultReady, TypeOK
<1>5. /\ sess' \in [Runners -> Session]
      /\ sess'[r].pc = "terminal"
      /\ \A q \in Runners \ {r} : sess'[q] = sess[q]
  BY <1>3, <1>4 DEF TypeOK
<1> QED BY <1>2, <1>5 DEF ResultReady

(* The session that drives an attempt knows the phase it is in. *)
LEMMA OpenPhase ==
  ASSUME SessionsKnow, NEW r \in Runners, NEW n \in Current, NEW label,
         At(r, label)
  PROVE  attempts[n].phase \in PhasesAt(label)
BY DEF SessionsKnow, SessionKnows, At

-----------------------------------------------------------------------------
(* Type correctness.  That the trial a session prepares exists is what     *)
(* makes it depend on the other conjuncts of IInv.                         *)

(* Every step keeps the files and the sessions of their types. *)
LEMMA TypeStep ==
  ASSUME IInv, Next
  PROVE  TypeOK'
<1> USE DEF IInv
<1>1. ASSUME NEW r \in Runners PROVE Prepare(r) \/ Run(r) \/ Resume(r) => TypeOK'
  <2>1. [sess[r] EXCEPT !.pc = "open"] \in Session
    BY DEF TypeOK, Session, Labels
  <2>2. Enter(r) => TypeOK'
    BY <2>1 DEF Enter, TypeOK
  <2> QED BY <2>2 DEF Prepare, Run, Resume, TypeOK, Statuses
<1>2. ASSUME NEW r \in Runners PROVE OpenSession(r) => TypeOK'
  BY GotoEffect DEF OpenSession, TypeOK, Labels, Statuses
<1>3. ASSUME NEW r \in Runners PROVE Complete(r) \/ Pause(r) => TypeOK'
  BY LeaveEffect DEF Complete, Pause, Finish, TypeOK, Statuses
<1>4. ASSUME NEW r \in Runners PROVE Claiming(r) => TypeOK'
  <2>1. Ask(r) => TypeOK'
    BY GotoEffect, BudgetAssumption
    DEF Ask, TypeOK, Labels, Trials, BudgetSpent
  <2>2. RejectCandidate(r) => TypeOK'
    BY GotoEffect, ResultsDistinct DEF RejectCandidate, TypeOK, Labels
  <2>3. MakeRunDir(r) => TypeOK'
    BY GotoEffect DEF MakeRunDir, TypeOK, Labels, SessionsKnow, SessionKnows, At
  <2>4. RunDirExists(r) => TypeOK'
    BY GotoEffect DEF RunDirExists, TypeOK, Labels
  <2>5. WriteStarting(r) => TypeOK'
    BY GotoEffect DEF WriteStarting, TypeOK, Labels, RunStates
  <2>6. CommitPrepared(r) => TypeOK'
    BY GotoEffect, CommitEffect, AttemptUpdates, NoAttemptType
    DEF CommitPrepared, TypeOK, Labels, Phases, SessionsKnow, SessionKnows, At
  <2> QED BY <2>1, <2>2, <2>3, <2>4, <2>5, <2>6 DEF Claiming
<1>5. ASSUME NEW r \in Runners PROVE Launching(r) => TypeOK'
  <2>1. CancelBeforeLaunch(r) \/ RecordLaunchFailure(r) => TypeOK'
    BY ResultReadyEffect, ResultsDistinct
    DEF CancelBeforeLaunch, RecordLaunchFailure, Current, TypeOK
  <2>2. RefuseLaunch(r) \/ BlockAtLaunch(r) => TypeOK'
    BY GotoEffect DEF RefuseLaunch, BlockAtLaunch, TypeOK, Labels, Statuses
  <2>3. CommitIntent(r) => TypeOK'
    BY GotoEffect, CommitEffect, AttemptUpdates
    DEF CommitIntent, TypeOK, Labels, Phases
  <2>4. Launch(r) => TypeOK'
    <3>1. [sess[r] EXCEPT !.pc = "adopt", !.owned = TRUE] \in Session
      BY DEF TypeOK, Session, Labels
    <3> QED BY <3>1 DEF Launch, Current, TypeOK, ProcStates
  <2>5. LaunchFails(r) => TypeOK'
    BY GotoEffect, CommitEffect, AttemptUpdates
    DEF LaunchFails, Current, TypeOK, Labels
  <2>6. CommitRunning(r) => TypeOK'
    BY GotoEffect, CommitEffect, AttemptUpdates
    DEF CommitRunning, Current, TypeOK, Labels
  <2>7. CommitShortLived(r) => TypeOK'
    BY GotoEffect, CommitEffect, AttemptUpdates
    DEF CommitShortLived, Current, TypeOK, Labels
  <2>8. StopUnidentified(r) => TypeOK'
    BY GotoEffect DEF StopUnidentified, StopProcess, TypeOK, Labels, ProcStates
  <2>9. BlockUnidentified(r) => TypeOK'
    BY GotoEffect DEF BlockUnidentified, Block, TypeOK, Labels, Statuses
  <2>10. WriteRunning(r) => TypeOK'
    BY GotoEffect DEF WriteRunning, TypeOK, Labels, RunStates
  <2> QED BY <2>1, <2>2, <2>3, <2>4, <2>5, <2>6, <2>7, <2>8, <2>9, <2>10
          DEF Launching
<1>6. ASSUME NEW r \in Runners PROVE Monitoring(r) => TypeOK'
  <2>1. ObserveExit(r) => TypeOK'
    BY GotoEffect, CommitEffect, AttemptUpdates
    DEF ObserveExit, Current, TypeOK, Labels
  <2>2. CommitTermination(r) => TypeOK'
    BY GotoEffect, CommitEffect, AttemptUpdates
    DEF CommitTermination, Current, TypeOK, Labels
  <2>3. WriteStopping(r) => TypeOK'
    BY GotoEffect DEF WriteStopping, TypeOK, Labels, RunStates
  <2>4. Terminate(r) => TypeOK'
    <3>1. ASSUME NEW n \in Current,
                 proc' = [proc EXCEPT ![n] = IF @ = "alive" THEN "nonzero" ELSE @]
          PROVE  proc' \in [Trials -> ProcStates]
      BY <3>1 DEF Current, TypeOK, ProcStates
    <3> QED BY <3>1, GotoEffect DEF Terminate, TypeOK, Labels
  <2>5. BlockStillActive(r) => TypeOK'
    BY GotoEffect DEF BlockStillActive, Block, TypeOK, Labels, Statuses
  <2> QED BY <2>1, <2>2, <2>3, <2>4, <2>5 DEF Monitoring
<1>7. ASSUME NEW r \in Runners PROVE Recovering(r) => TypeOK'
  <2>1. Decide(r) => TypeOK'
    BY ResultReadyEffect, ResultsDistinct
    DEF Decide, DecidedResults, Collected, Current, TypeOK
  <2>2. BlockUnprovable(r) \/ BlockMatch(r) \/ BlockUnverifiable(r) => TypeOK'
    BY GotoEffect
    DEF BlockUnprovable, BlockMatch, BlockUnverifiable, Block, TypeOK, Labels,
        Statuses
  <2>3. RecordInterrupted(r) => TypeOK'
    BY ResultReadyEffect, ResultsDistinct DEF RecordInterrupted, TypeOK
  <2>4. Replay(r) => TypeOK'
    <3>1. \A f \in BOOLEAN :
            [sess[r] EXCEPT !.pc = "terminal", !.replay = TRUE, !.finalizer = f]
              \in Session
      BY DEF TypeOK, Session, Labels
    <3>2. \A n \in Trials : (attempts[n].identity \/ attempts[n].returncode # "none")
                            \in BOOLEAN
      OBVIOUS
    <3>3. Replay(r) => sess' \in [Runners -> Session]
      BY <3>1, <3>2 DEF Replay, TypeOK
    <3> QED BY <3>3 DEF Replay, TypeOK
  <2> QED BY <2>1, <2>2, <2>3, <2>4 DEF Recovering
<1>8. ASSUME NEW r \in Runners PROVE Committing(r) => TypeOK'
  <2>1. WriteTerminal(r) => TypeOK'
    <3>1. \A n \in Trials : RunStatusOf(attempts[n].result) \in RunStates
      BY RunStatusType DEF RunStates
    <3> QED BY <3>1, GotoEffect DEF WriteTerminal, Current, TypeOK, Labels
  <2>2. Tell(r) => TypeOK'
    <3> SUFFICES ASSUME At(r, "tell"), NEW n \in Current,
                        NEW label \in Labels, Goto(r, label),
                        trials' = [trials EXCEPT ![n] =
                          IF @ = Pending THEN attempts[n].result ELSE @],
                        UNCHANGED <<asked, execVars, runVars, procVars, envVars>>
                 PROVE  TypeOK'
      BY DEF Tell, Labels
    <3>1. attempts[n].result \in Results
      BY OpenPhase DEF PhasesAt, PhaseBoundsFiles, Current
    <3> QED BY <3>1, GotoEffect DEF TypeOK
  <2>3. CommitTold(r) => TypeOK'
    BY GotoEffect, CommitEffect, AttemptUpdates
    DEF CommitTold, Current, TypeOK, Labels, Phases
  <2>4. RunFinalizer(r) => TypeOK'
    <3>1. \A n \in Trials :
            RunStatusOf(attempts[n].result) \in TerminalRunStates
      BY RunStatusType
    <3> QED BY <3>1, GotoEffect DEF RunFinalizer, Current, TypeOK, Labels
  <2>5. CommitFinalized(r) => TypeOK'
    <3> SUFFICES ASSUME NEW n \in Current, CommitFinalized(r)!(n)
                 PROVE  TypeOK'
      BY DEF CommitFinalized
    <3>1. [sess[r] EXCEPT !.owned = FALSE,
             !.pc = IF sess[r].stop /\ ~sess[r].replay THEN "pause" ELSE "loop"]
            \in Session
      BY DEF TypeOK, Session, Labels
    <3>2. sess' \in [Runners -> Session]
      BY <3>1 DEF TypeOK
    <3>3. attempts[n] \in Attempt /\ sess[r].finalizer \in BOOLEAN
      BY DEF Current, TypeOK, Session
    <3>4. Finalized(attempts[n], sess[r].finalizer) \in Attempt
      BY <3>3, AttemptUpdates
    <3>5. attempts' \in [Trials -> Attempt] /\ status' = status
      BY <3>4, CommitEffect DEF Current, TypeOK
    <3> QED BY <3>2, <3>5 DEF TypeOK
  <2> QED BY <2>1, <2>2, <2>3, <2>4, <2>5 DEF Committing
<1>9. ASSUME NEW r \in Runners PROVE Cleanup(r) => TypeOK'
  BY LeaveEffect DEF Cleanup, StopProcess, TypeOK, ProcStates
<1>10. ASSUME NEW r \in Runners
       PROVE  StepFails(r) \/ Crash(r) \/ RequestStop(r) => TypeOK'
  <2>1. StepFails(r) => TypeOK'
    BY GotoEffect DEF StepFails, TypeOK, Labels
  <2>2. Crash(r) => TypeOK'
    BY LeaveEffect DEF Crash, TypeOK
  <2>3. RequestStop(r) => TypeOK'
    <3>1. [sess[r] EXCEPT !.stop = TRUE] \in Session
      BY DEF TypeOK, Session
    <3> QED BY <3>1 DEF RequestStop, TypeOK
  <2> QED BY <2>1, <2>2, <2>3
<1>11. ASSUME NEW n \in Trials PROVE ProcessExits(n) => TypeOK'
  BY DEF ProcessExits, TypeOK, ProcStates
<1> QED BY <1>1, <1>2, <1>3, <1>4, <1>5, <1>6, <1>7, <1>8, <1>9, <1>10, <1>11
        DEF Next, SessionStep

-----------------------------------------------------------------------------
(* The runner lock, and who writes what. *)

(* A step of a session disturbs no other session, and either keeps the     *)
(* lock or ends the session and frees it.                                  *)
LEMMA SessionMoves ==
  ASSUME TypeOK, NEW r \in Runners,
         SessionStep(r) \/ StepFails(r) \/ Crash(r) \/ RequestStop(r)
  PROVE  /\ ~At(r, "idle")
         /\ \A q \in Runners \ {r} : sess'[q] = sess[q]
         /\ \/ holder' = holder
            \/ holder' = NoRunner /\ sess'[r].pc = "idle"
<1> DEFINE Moves == /\ ~At(r, "idle")
                    /\ \A q \in Runners \ {r} : sess'[q] = sess[q]
                    /\ \/ holder' = holder
                       \/ holder' = NoRunner /\ sess'[r].pc = "idle"
<1>1. OpenSession(r) \/ Complete(r) \/ Pause(r) => Moves
  BY GotoEffect, LeaveEffect
  DEF OpenSession, Complete, Pause, Finish, At, Labels
<1>2. Claiming(r) => Moves
  BY GotoEffect
  DEF Claiming, Ask, RejectCandidate, MakeRunDir, RunDirExists, WriteStarting,
      CommitPrepared, At, Labels
<1>3. Launching(r) => Moves
  <2>1. CancelBeforeLaunch(r) \/ RecordLaunchFailure(r) => Moves
    BY DEF CancelBeforeLaunch, RecordLaunchFailure, ResultReady, Driving, At,
           TypeOK
  <2>2. RefuseLaunch(r) \/ CommitIntent(r) \/ BlockAtLaunch(r) \/ LaunchFails(r)
        => Moves
    BY GotoEffect
    DEF RefuseLaunch, CommitIntent, BlockAtLaunch, LaunchFails, Driving, At,
        Labels
  <2>3. Launch(r) => Moves
    BY DEF Launch, At, TypeOK
  <2>4. CommitRunning(r) \/ CommitShortLived(r) \/ StopUnidentified(r)
        \/ BlockUnidentified(r) \/ WriteRunning(r) => Moves
    BY GotoEffect
    DEF CommitRunning, CommitShortLived, StopUnidentified, BlockUnidentified,
        Block, WriteRunning, At, Labels
  <2> QED BY <2>1, <2>2, <2>3, <2>4 DEF Launching
<1>4. Monitoring(r) => Moves
  BY GotoEffect
  DEF Monitoring, ObserveExit, CommitTermination, WriteStopping, Terminate,
      BlockStillActive, Block, At, Labels
<1>5. Recovering(r) => Moves
  <2>1. Decide(r) \/ RecordInterrupted(r) => Moves
    BY DEF Decide, RecordInterrupted, ResultReady, Driving, At, TypeOK
  <2>2. BlockUnprovable(r) \/ BlockMatch(r) \/ BlockUnverifiable(r) => Moves
    BY GotoEffect
    DEF BlockUnprovable, BlockMatch, BlockUnverifiable, Block, Driving, At,
        Labels
  <2>3. Replay(r) => Moves
    BY DEF Replay, Driving, At, TypeOK
  <2> QED BY <2>1, <2>2, <2>3 DEF Recovering
<1>6. Committing(r) => Moves
  <2>1. WriteTerminal(r) \/ Tell(r) \/ CommitTold(r) \/ RunFinalizer(r) => Moves
    BY GotoEffect
    DEF WriteTerminal, Tell, CommitTold, RunFinalizer, At, Labels
  <2>2. CommitFinalized(r) => Moves
    BY DEF CommitFinalized, At, TypeOK
  <2> QED BY <2>1, <2>2 DEF Committing
<1>7. Cleanup(r) => Moves
  BY LeaveEffect DEF Cleanup, At
<1>8. StepFails(r) \/ Crash(r) \/ RequestStop(r) => Moves
  BY GotoEffect, LeaveEffect DEF StepFails, Crash, RequestStop, At, Labels, TypeOK
<1> QED BY <1>1, <1>2, <1>3, <1>4, <1>5, <1>6, <1>7, <1>8 DEF SessionStep

(* A session that is under way keeps every other caller out. *)
LEMMA OthersIdle ==
  ASSUME LockHeld, NEW r \in Runners, ~At(r, "idle"), NEW q \in Runners \ {r}
  PROVE  At(q, "idle")
BY DEF LockHeld

(* Every step keeps a session inside the lock it holds. *)
LEMMA LockStep ==
  ASSUME IInv, Next
  PROVE  LockHeld'
<1> USE DEF IInv
<1>1. ASSUME NEW r \in Runners PROVE Prepare(r) \/ Run(r) \/ Resume(r) => LockHeld'
  BY RunnerAssumption DEF Prepare, Run, Resume, Enter, LockHeld, At, TypeOK
<1>2. ASSUME NEW r \in Runners,
             SessionStep(r) \/ StepFails(r) \/ Crash(r) \/ RequestStop(r)
      PROVE  LockHeld'
  BY <1>2, SessionMoves, OthersIdle DEF LockHeld, At
<1>3. ASSUME NEW n \in Trials PROVE ProcessExits(n) => LockHeld'
  BY DEF ProcessExits, LockHeld, At
<1> QED BY <1>1, <1>2, <1>3 DEF Next

(* Every step writes one file at most: study.json (Ask, RejectCandidate,   *)
(* Tell), the attempts of execution.json, run_state.json, or it concerns   *)
(* the training process.                                                   *)
Quiet == UNCHANGED <<studyVars, attempts, runState, procVars>>

StudyWrite(r) == Ask(r) \/ RejectCandidate(r) \/ Tell(r)

AttemptWrite(r) ==
  CommitPrepared(r) \/ CancelBeforeLaunch(r) \/ CommitIntent(r)
  \/ LaunchFails(r) \/ RecordLaunchFailure(r) \/ CommitRunning(r)
  \/ CommitShortLived(r) \/ ObserveExit(r) \/ CommitTermination(r)
  \/ Decide(r) \/ RecordInterrupted(r) \/ CommitTold(r) \/ CommitFinalized(r)

RunStateWrite(r) ==
  WriteStarting(r) \/ WriteRunning(r) \/ WriteStopping(r) \/ WriteTerminal(r)

ProcessWrite(r) ==
  Launch(r) \/ StopUnidentified(r) \/ Terminate(r) \/ Cleanup(r)

(* Which actions write study.json, the audit, the run state, the
   processes: all others leave them alone. *)
LEMMA Writers ==
  ASSUME Next
  PROVE  \/ Quiet
         \/ \E r \in Runners : \/ StudyWrite(r) \/ AttemptWrite(r)
                               \/ RunStateWrite(r) \/ ProcessWrite(r)
         \/ \E n \in Trials : ProcessExits(n)
<1>1. ASSUME NEW r \in Runners
      PROVE  Prepare(r) \/ Run(r) \/ Resume(r) \/ OpenSession(r) \/ Complete(r)
             \/ Pause(r) \/ StepFails(r) \/ Crash(r) \/ RequestStop(r) => Quiet
  BY DEF Quiet, Prepare, Run, Resume, Enter, OpenSession, Complete, Pause,
         Finish, StepFails, Crash, RequestStop
<1>2. ASSUME NEW r \in Runners
      PROVE  Claiming(r) =>
               Quiet \/ StudyWrite(r) \/ AttemptWrite(r) \/ RunStateWrite(r)
  BY DEF Quiet, Claiming, MakeRunDir, RunDirExists, StudyWrite, AttemptWrite,
         RunStateWrite
<1>3. ASSUME NEW r \in Runners
      PROVE  Launching(r) =>
               Quiet \/ AttemptWrite(r) \/ RunStateWrite(r) \/ ProcessWrite(r)
  BY DEF Quiet, Launching, RefuseLaunch, BlockAtLaunch, BlockUnidentified, Block,
         AttemptWrite, RunStateWrite, ProcessWrite
<1>4. ASSUME NEW r \in Runners
      PROVE  Monitoring(r) =>
               Quiet \/ AttemptWrite(r) \/ RunStateWrite(r) \/ ProcessWrite(r)
  BY DEF Quiet, Monitoring, BlockStillActive, Block, AttemptWrite,
         RunStateWrite, ProcessWrite
<1>5. ASSUME NEW r \in Runners PROVE Recovering(r) => Quiet \/ AttemptWrite(r)
  BY DEF Quiet, Recovering, BlockUnprovable, BlockMatch, BlockUnverifiable,
         Replay, Block, AttemptWrite
<1>6. ASSUME NEW r \in Runners
      PROVE  Committing(r) =>
               Quiet \/ StudyWrite(r) \/ AttemptWrite(r) \/ RunStateWrite(r)
  BY DEF Quiet, Committing, RunFinalizer, StudyWrite, AttemptWrite,
         RunStateWrite
<1> QED BY <1>1, <1>2, <1>3, <1>4, <1>5, <1>6
        DEF Next, SessionStep, ProcessWrite

-----------------------------------------------------------------------------
(* What one write does, given the invariant. *)

(* The attempts move along the phase graph, and only as far as the process *)
(* and study.json allow.                                                   *)
PhaseStep(n) ==
  LET a == attempts[n]
      b == attempts'[n]
  IN  /\ \/ a.phase = "NONE" /\ b.phase = "PREPARED" /\ n = asked
            /\ trials[n] = Pending /\ runState[n] = "starting"
         \/ a.phase = "PREPARED" /\ b.phase = "LAUNCH_INTENT"
         \/ a.phase = "LAUNCH_INTENT" /\ b.phase = "RUNNING"
         \/ a.phase = "RUNNING" /\ b.phase = "RUNNING"
         \/ a.phase \in {"LAUNCH_INTENT", "RUNNING"} /\ b.phase = "EXITED"
            /\ proc[n] # "alive"
         \/ a.phase \in {"PREPARED", "RUNNING", "EXITED"}
            /\ b.phase = "RESULT_READY" /\ proc[n] # "alive"
         \/ a.phase \in {"RESULT_READY", "TOLD"} /\ b.phase = "TOLD"
            /\ trials[n] = a.result
         \/ a.phase = "TOLD" /\ b.phase = "FINALIZED"
      /\ IF b.phase = "RESULT_READY" THEN b.result \in Results
                                     ELSE b.result = a.result

(* What a step may do to the audit of one trial. *)
LEMMA AttemptEffect ==
  ASSUME IInv, NEW r \in Runners, AttemptWrite(r)
  PROVE  /\ UNCHANGED <<status, studyVars, runVars, procVars>>
         /\ \E n \in Trials : /\ PhaseStep(n)
                              /\ \A m \in Trials \ {n} :
                                   attempts'[m] = attempts[m]
<1> USE DEF IInv
<1> DEFINE Effect(n) ==
             /\ UNCHANGED <<status, studyVars, runVars, procVars>>
             /\ PhaseStep(n)
             /\ \A m \in Trials \ {n} : attempts'[m] = attempts[m]
<1>0. \A n \in Trials : attempts[n] \in Attempt
  BY DEF TypeOK
<1>1. CASE CommitPrepared(r)
  <2>1. /\ asked \in Trials /\ attempts[asked].phase = "NONE"
        /\ trials[asked] = Pending /\ runState[asked] = "starting"
        /\ attempts[asked].result = NoResult
    BY <1>1 DEF CommitPrepared, SessionsKnow, SessionKnows, At,
                PhaseBoundsFiles
  <2>2. Effect(asked)
    BY <1>1, <2>1, CommitEffect, AttemptUpdates, NoAttemptType
    DEF CommitPrepared, PhaseStep, Phases
  <2> QED BY <2>1, <2>2
<1>2. CASE CancelBeforeLaunch(r)
  <2>1. PICK n \in Trials : Driving(r, n, "PREPARED")
                            /\ ResultReady(r, n, Cancelled, FALSE)
    BY <1>2 DEF CancelBeforeLaunch
  <2>2. Effect(n)
    BY <2>1, ResultReadyEffect, ResultsDistinct
    DEF Driving, PhaseStep, PhaseBoundsProcess
  <2> QED BY <2>2
<1>3. CASE CommitIntent(r)
  <2>1. PICK n \in Trials : CommitIntent(r)!(n)
    BY <1>3 DEF CommitIntent
  <2>2. Effect(n)
    BY <1>0, <2>1, CommitEffect, AttemptUpdates DEF Driving, PhaseStep, Phases
  <2> QED BY <2>2
<1>4. CASE LaunchFails(r)
  <2>1. PICK n \in Current : LaunchFails(r)!(n)
    BY <1>4 DEF LaunchFails
  <2>2. attempts[n].phase = "LAUNCH_INTENT" /\ proc[n] = "none"
    BY <2>1, OpenPhase
    DEF PhasesAt, SessionsKnow, SessionKnows, At, PhaseBoundsProcess, Current
  <2>3. Effect(n)
    BY <1>0, <2>1, <2>2, CommitEffect, AttemptUpdates DEF PhaseStep, Current
  <2> QED BY <2>3 DEF Current
<1>5. CASE RecordLaunchFailure(r)
  <2>1. PICK n \in Current : RecordLaunchFailure(r)!(n)
    BY <1>5 DEF RecordLaunchFailure
  <2>2. attempts[n].phase = "EXITED" /\ proc[n] # "alive"
    BY <2>1, OpenPhase DEF PhasesAt, PhaseBoundsProcess, Current
  <2>3. Effect(n)
    BY <2>1, <2>2, ResultReadyEffect, ResultsDistinct DEF PhaseStep, Current
  <2> QED BY <2>3 DEF Current
<1>6. CASE CommitRunning(r)
  <2>1. PICK n \in Current : CommitRunning(r)!(n)
    BY <1>6 DEF CommitRunning
  <2>2. attempts[n].phase = "LAUNCH_INTENT"
    BY <2>1, OpenPhase DEF PhasesAt
  <2>3. Effect(n)
    BY <1>0, <2>1, <2>2, CommitEffect, AttemptUpdates DEF PhaseStep, Current
  <2> QED BY <2>3 DEF Current
<1>7. CASE CommitShortLived(r) \/ ObserveExit(r)
  <2>1. PICK n \in Current : CommitShortLived(r)!(n) \/ ObserveExit(r)!(n)
    BY <1>7 DEF CommitShortLived, ObserveExit
  <2>2. attempts[n].phase \in {"LAUNCH_INTENT", "RUNNING"}
    BY <2>1, OpenPhase DEF PhasesAt
  <2>3. Effect(n)
    BY <1>0, <2>1, <2>2, CommitEffect, AttemptUpdates DEF PhaseStep, Current
  <2> QED BY <2>3 DEF Current
<1>8. CASE CommitTermination(r)
  <2>1. PICK n \in Current, reason \in {"user_stopped", "timeout"} :
               At(r, "monitor") /\ Commit(n, Terminated(attempts[n], reason))
    BY <1>8 DEF CommitTermination
  <2>2. attempts[n].phase = "RUNNING"
    BY <2>1, OpenPhase DEF PhasesAt
  <2>3. Effect(n)
    BY <1>0, <1>8, <2>1, <2>2, CommitEffect, AttemptUpdates
    DEF CommitTermination, PhaseStep, Current
  <2> QED BY <2>3 DEF Current
<1>9. CASE Decide(r)
  <2>1. PICK n \in Current : \E result \in DecidedResults(attempts[n]) :
               /\ At(r, "decide") \/ Driving(r, n, "EXITED")
               /\ ResultReady(r, n, result, TRUE)
    BY <1>9 DEF Decide
  <2>2. attempts[n].phase = "EXITED" /\ proc[n] # "alive"
    BY <2>1, OpenPhase DEF PhasesAt, Driving, PhaseBoundsProcess, Current
  <2>3. DecidedResults(attempts[n]) \subseteq Results
    BY ResultsDistinct DEF DecidedResults, Collected
  <2>4. Effect(n)
    BY <2>1, <2>2, <2>3, ResultReadyEffect DEF PhaseStep, Current
  <2> QED BY <2>4 DEF Current
<1>10. CASE RecordInterrupted(r)
  <2>1. PICK n \in Trials : RecordInterrupted(r)!(n)
    BY <1>10 DEF RecordInterrupted
  <2>2. Effect(n)
    BY <2>1, ResultReadyEffect, ResultsDistinct DEF Driving, PhaseStep
  <2> QED BY <2>2
<1>11. CASE CommitTold(r)
  <2>1. PICK n \in Current : CommitTold(r)!(n)
    BY <1>11 DEF CommitTold
  <2>2. attempts[n].phase \in {"RESULT_READY", "TOLD"}
        /\ trials[n] = attempts[n].result
    BY <2>1, OpenPhase DEF PhasesAt, SessionsKnow, SessionKnows
  <2>3. Effect(n)
    BY <1>0, <2>1, <2>2, CommitEffect, AttemptUpdates
    DEF PhaseStep, Current, Phases
  <2> QED BY <2>3 DEF Current
<1>12. CASE CommitFinalized(r)
  <2>1. PICK n \in Current :
               /\ At(r, "finalized")
               /\ Commit(n, Finalized(attempts[n], sess[r].finalizer))
               /\ UNCHANGED <<studyVars, runVars, procVars>>
    BY <1>12 DEF CommitFinalized
  <2> DEFINE b == Finalized(attempts[n], sess[r].finalizer)
  <2>2. attempts[n].phase = "TOLD" /\ sess[r].finalizer \in BOOLEAN
    BY <2>1, OpenPhase DEF PhasesAt, TypeOK, Session
  <2>3. /\ b \in Attempt
        /\ b.phase = "FINALIZED"
        /\ b.result = attempts[n].result
    BY <1>0, <2>2, AttemptUpdates, Zenon DEF Current
  <2> HIDE DEF b
  <2>4. Effect(n)
    BY <2>1, <2>2, <2>3, CommitEffect DEF b, PhaseStep, Current
  <2> QED BY <2>4 DEF Current
<1> QED BY <1>1, <1>2, <1>3, <1>4, <1>5, <1>6, <1>7, <1>8, <1>9, <1>10,
           <1>11, <1>12 DEF AttemptWrite

(* study.json: a new pending trial when every earlier one is settled, or   *)
(* the open trial gets its result.                                         *)
StudyStep ==
  \/ /\ \A n \in Trials : n <= asked => trials[n] \in Results
     /\ Current = {}
     /\ asked + 1 \in Trials
     /\ asked' = asked + 1
     /\ trials' = [trials EXCEPT ![asked + 1] = Pending]
  \/ /\ asked' = asked
     /\ asked \in Trials
     /\ trials[asked] = Pending
     /\ attempts[asked].phase = "NONE"
     /\ \E x \in Results : trials' = [trials EXCEPT ![asked] = x]
  \/ /\ asked' = asked
     /\ \E n \in Trials :
          /\ attempts[n].phase \in {"RESULT_READY", "TOLD"}
          /\ trials[n] = Pending
          /\ trials' = [trials EXCEPT ![n] = attempts[n].result]

(* What a step may do to study.json. *)
LEMMA StudyEffect ==
  ASSUME IInv, NEW r \in Runners, StudyWrite(r)
  PROVE  /\ UNCHANGED <<execVars, runVars, procVars>>
         /\ StudyStep \/ UNCHANGED studyVars
<1> USE DEF IInv
<1>1. CASE Ask(r)
  <2>1. CASE TailPending
    BY <1>1, <2>1 DEF Ask
  <2>2. CASE ~TailPending
    <3>1. /\ asked' = asked + 1
          /\ trials' = [trials EXCEPT ![asked + 1] = Pending]
          /\ asked # Budget
      BY <1>1, <2>2 DEF Ask, BudgetSpent
    <3>2. asked + 1 \in Trials
      BY <3>1, BudgetAssumption DEF TypeOK, Trials
    <3>3. \A n \in Trials : n <= asked => trials[n] \in Results
      BY <2>2, BudgetAssumption
      DEF TailPending, ClaimedInOrder, TypeOK, Trials
    <3> QED BY <1>1, <3>1, <3>2, <3>3 DEF Ask, StudyStep
  <2> QED BY <2>1, <2>2
<1>2. CASE RejectCandidate(r)
  BY <1>2, ResultsDistinct
  DEF RejectCandidate, SessionsKnow, SessionKnows, At, StudyStep
<1>3. CASE Tell(r)
  <2>1. PICK n \in Current :
               /\ At(r, "tell")
               /\ asked' = asked
               /\ trials' = [trials EXCEPT ![n] = IF @ = Pending
                                THEN attempts[n].result ELSE @]
               /\ UNCHANGED <<execVars, runVars, procVars>>
    BY <1>3 DEF Tell
  <2>2. n \in Trials /\ attempts[n].phase \in {"RESULT_READY", "TOLD"}
    BY <2>1, OpenPhase DEF PhasesAt, Current
  <2>3. CASE trials[n] = Pending
    BY <2>1, <2>2, <2>3 DEF StudyStep
  <2>4. CASE trials[n] # Pending
    <3>1. trials' = trials
      BY <2>1, <2>2, <2>4 DEF TypeOK
    <3> QED BY <2>1, <3>1
  <2> QED BY <2>3, <2>4
<1> QED BY <1>1, <1>2, <1>3 DEF StudyWrite

(* run_state.json: a terminal state is only written for an attempt whose   *)
(* result is ready.                                                        *)
LEMMA RunStateEffect ==
  ASSUME IInv, NEW r \in Runners, RunStateWrite(r)
  PROVE  /\ UNCHANGED <<execVars, studyVars, procVars>>
         /\ \A n \in Trials :
              \/ runState'[n] = runState[n]
              \/ runState'[n] \notin TerminalRunStates
              \/ attempts[n].phase \in {"RESULT_READY", "TOLD"}
<1> USE DEF IInv
<1>1. CASE WriteStarting(r)
  BY <1>1 DEF WriteStarting, TypeOK, TerminalRunStates
<1>2. CASE WriteRunning(r) \/ WriteStopping(r)
  BY <1>2 DEF WriteRunning, WriteStopping, TypeOK, TerminalRunStates
<1>3. CASE WriteTerminal(r)
  <2>1. PICK n \in Current : WriteTerminal(r)!(n)
    BY <1>3 DEF WriteTerminal
  <2>2. attempts[n].phase \in {"RESULT_READY", "TOLD"}
    BY <2>1, OpenPhase DEF PhasesAt
  <2> QED BY <2>1, <2>2 DEF TypeOK
<1> QED BY <1>1, <1>2, <1>3 DEF RunStateWrite

(* The process: created once, for a launch intent; or it ends. *)
Created(n) ==
  /\ attempts[n].phase = "LAUNCH_INTENT"
  /\ launches[n] = 0
  /\ launches' = [launches EXCEPT ![n] = 1]
  /\ proc' = [proc EXCEPT ![n] = "alive"]

Ended(n) ==
  /\ proc[n] = "alive"
  /\ launches' = launches
  /\ \E code \in {"zero", "nonzero"} : proc' = [proc EXCEPT ![n] = code]

(* What a step may do to the training process of a trial. *)
LEMMA ProcessEffect ==
  ASSUME IInv,
         \/ \E r \in Runners : ProcessWrite(r)
         \/ \E n \in Trials : ProcessExits(n)
  PROVE  /\ UNCHANGED <<execVars, studyVars, runVars>>
         /\ \/ UNCHANGED procVars
            \/ \E n \in Trials : Created(n) \/ Ended(n)
<1> USE DEF IInv
<1> DEFINE Effect == /\ UNCHANGED <<execVars, studyVars, runVars>>
                     /\ \/ UNCHANGED procVars
                        \/ \E n \in Trials : Created(n) \/ Ended(n)
<1>1. ASSUME NEW r \in Runners, Launch(r) PROVE Effect
  <2>1. PICK n \in Current : Launch(r)!(n)
    BY <1>1 DEF Launch
  <2>2. attempts[n].phase = "LAUNCH_INTENT" /\ launches[n] = 0
    BY <2>1, OpenPhase DEF PhasesAt, SessionsKnow, SessionKnows
  <2>3. Created(n)
    BY <2>1, <2>2 DEF Created, TypeOK, Current
  <2> QED BY <2>1, <2>3 DEF Current
<1>2. ASSUME NEW r \in Runners, StopUnidentified(r) PROVE Effect
  BY <1>2 DEF StopUnidentified, StopProcess, Ended, Current
<1>3. ASSUME NEW r \in Runners, Terminate(r) PROVE Effect
  <2>1. PICK n \in Current : Terminate(r)!(n)
    BY <1>3 DEF Terminate
  <2>2. proc[n] = "alive" => Ended(n)
    BY <2>1 DEF Ended, TypeOK, Current
  <2>3. proc[n] # "alive" => UNCHANGED procVars
    BY <2>1 DEF TypeOK, Current
  <2> QED BY <2>1, <2>2, <2>3 DEF Current
<1>4. ASSUME NEW r \in Runners, Cleanup(r) PROVE Effect
  BY <1>4 DEF Cleanup, StopProcess, Ended, Current
<1>5. ASSUME NEW n \in Trials, ProcessExits(n) PROVE Effect
  BY <1>5 DEF ProcessExits, Ended
<1> QED BY <1>1, <1>2, <1>3, <1>4, <1>5 DEF ProcessWrite

-----------------------------------------------------------------------------
(* The conjuncts of the invariant about the files and the process. *)

(* Every step keeps the claiming order. *)
LEMMA ClaimStep ==
  ASSUME IInv, Next
  PROVE  ClaimedInOrder'
<1> USE DEF IInv
<1>1. CASE UNCHANGED <<studyVars, attempts>>
  BY <1>1 DEF ClaimedInOrder
<1>2. CASE StudyStep /\ UNCHANGED attempts
  <2>1. CASE asked' = asked + 1
    <3>0. asked \in Nat /\ Trials \subseteq Nat
      BY BudgetAssumption DEF TypeOK, Trials
    <3>1. asked' # asked
      BY <2>1, <3>0
    <3>2. /\ \A n \in Trials : n <= asked => trials[n] \in Results
          /\ Current = {}
          /\ trials' = [trials EXCEPT ![asked + 1] = Pending]
      BY <1>2, <3>1 DEF StudyStep
    <3>3. ASSUME NEW n \in Trials
          PROVE  /\ n = asked + 1 => trials'[n] = Pending
                 /\ n <= asked => trials'[n] \in Results
                 /\ n > asked + 1 => trials'[n] = Unclaimed
      BY <3>0, <3>2 DEF ClaimedInOrder, TypeOK
    <3>4. \A n \in Trials : attempts[n].phase \in {"NONE", "FINALIZED"}
      BY <3>2 DEF Current
    <3> QED BY <1>2, <2>1, <3>0, <3>3, <3>4, ResultsDistinct DEF ClaimedInOrder
  <2>2. CASE asked' = asked
    <3>1. PICK n \in Trials, x \in Results :
                 trials[n] = Pending /\ trials' = [trials EXCEPT ![n] = x]
      BY <1>2, <2>2 DEF StudyStep, PhaseBoundsFiles, TypeOK
    <3>2. n = asked
      BY <3>1, ResultsDistinct DEF ClaimedInOrder, TypeOK, Trials
    <3> QED BY <1>2, <2>2, <3>1, <3>2, ResultsDistinct
            DEF ClaimedInOrder, TypeOK, Trials
  <2> QED BY <1>2, <2>1, <2>2 DEF StudyStep
<1>3. ASSUME NEW n \in Trials, PhaseStep(n), UNCHANGED studyVars,
             \A m \in Trials \ {n} : attempts'[m] = attempts[m]
      PROVE  ClaimedInOrder'
  BY <1>3 DEF PhaseStep, ClaimedInOrder, TypeOK, Trials
<1> QED BY <1>1, <1>2, <1>3, Writers, StudyEffect, AttemptEffect,
           RunStateEffect, ProcessEffect DEF Quiet

(* Every step keeps the phase a bound on the process. *)
LEMMA ProcessStep ==
  ASSUME IInv, Next
  PROVE  PhaseBoundsProcess'
<1> USE DEF IInv
<1>1. CASE UNCHANGED <<attempts, procVars>>
  BY <1>1 DEF PhaseBoundsProcess
<1>2. ASSUME NEW n \in Trials, PhaseStep(n), UNCHANGED procVars,
             \A m \in Trials \ {n} : attempts'[m] = attempts[m]
      PROVE  PhaseBoundsProcess'
  BY <1>2 DEF PhaseStep, PhaseBoundsProcess
<1>3. ASSUME NEW n \in Trials, Created(n) \/ Ended(n), UNCHANGED attempts
      PROVE  PhaseBoundsProcess'
  BY <1>3 DEF Created, Ended, PhaseBoundsProcess, TypeOK
<1> QED BY <1>1, <1>2, <1>3, Writers, StudyEffect, AttemptEffect,
           RunStateEffect, ProcessEffect DEF Quiet

(* Every step keeps the phase a bound on the other files. *)
LEMMA FilesStep ==
  ASSUME IInv, Next
  PROVE  PhaseBoundsFiles'
<1> USE DEF IInv
<1>1. CASE UNCHANGED <<trials, attempts, runState>>
  BY <1>1 DEF PhaseBoundsFiles
<1>2. CASE StudyStep /\ UNCHANGED <<attempts, runState>>
  <2>1. PICK n \in Trials :
               /\ attempts[n].phase \notin
                    {"PREPARED", "LAUNCH_INTENT", "RUNNING", "EXITED"}
               /\ \A m \in Trials \ {n} : trials'[m] = trials[m]
               /\ \/ trials'[n] = attempts[n].result
                  \/ attempts[n].phase = "NONE"
    <3>1. CASE asked' = asked
      BY <1>2, <3>1 DEF StudyStep, TypeOK
    <3>2. CASE asked' # asked
      <4>1. /\ Current = {}
            /\ asked + 1 \in Trials
            /\ trials' = [trials EXCEPT ![asked + 1] = Pending]
        BY <1>2, <3>2 DEF StudyStep
      <4>2. attempts[asked + 1].phase = "NONE"
        BY <4>1, BudgetAssumption DEF ClaimedInOrder, TypeOK, Trials
      <4> QED BY <4>1, <4>2 DEF TypeOK
    <3> QED BY <3>1, <3>2
  <2> QED BY <1>2, <2>1 DEF PhaseBoundsFiles
<1>3. ASSUME NEW n \in Trials, PhaseStep(n), UNCHANGED <<trials, runState>>,
             \A m \in Trials \ {n} : attempts'[m] = attempts[m]
      PROVE  PhaseBoundsFiles'
  BY <1>3, ResultsDistinct
  DEF PhaseStep, PhaseBoundsFiles, TerminalRunStates
<1>4. CASE /\ UNCHANGED <<trials, attempts>>
           /\ \A n \in Trials :
                \/ runState'[n] = runState[n]
                \/ runState'[n] \notin TerminalRunStates
                \/ attempts[n].phase \in {"RESULT_READY", "TOLD"}
  BY <1>4 DEF PhaseBoundsFiles
<1> QED BY <1>1, <1>2, <1>3, <1>4, Writers, StudyEffect, AttemptEffect,
           RunStateEffect, ProcessEffect DEF Quiet

-----------------------------------------------------------------------------
(* What the sessions know. *)

(* After a step too there is one open attempt at most. *)
LEMMA OneOpenAfter ==
  ASSUME IInv, Next, NEW n \in Trials,
         attempts'[n].phase \notin {"NONE", "FINALIZED"}
  PROVE  \A m \in Current' : m = n
BY ClaimStep DEF ClaimedInOrder, Current

(* At these labels a session relies on nothing. *)
LEMMA RestingKnows ==
  ASSUME IInv, Next, NEW r \in Runners,
         sess'[r].pc \in {"idle", "open", "loop", "cleanup"}
  PROVE  SessionKnows(r)'
<1>1. \A n \in Trials : attempts'[n].phase \in Phases
  BY TypeStep DEF TypeOK, Attempt
<1>2. \A label \in {"idle", "open", "loop", "cleanup"} : PhasesAt(label) = Phases
  BY DEF PhasesAt
<1>3. \A n \in Current' : attempts'[n].phase \in PhasesAt(sess[r].pc)'
  BY <1>1, <1>2 DEF Current
<1> QED BY <1>3 DEF SessionKnows, At

(* A label that asks for one phase, reached by committing that phase. *)
LEMMA CommittedKnows ==
  ASSUME IInv, Next, NEW r \in Runners, NEW n \in Trials,
         attempts'[n].phase \notin {"NONE", "FINALIZED"},
         sess'[r].pc \in {"launchFailed", "decide", "announce", "monitor",
                          "stopping", "terminal", "finalizer", "finalized"},
         attempts'[n].phase \in PhasesAt(sess[r].pc)'
  PROVE  SessionKnows(r)'
BY OneOpenAfter DEF SessionKnows, At

(* A label that asks for the same phases as the label before it, reached   *)
(* without a commit.                                                       *)
LEMMA SamePhasesKnow ==
  ASSUME IInv, NEW r \in Runners, attempts' = attempts,
         sess'[r].pc \notin {"prepare", "dirMade", "stated", "spawn", "told"},
         PhasesAt(sess[r].pc)' = PhasesAt(sess[r].pc)
  PROVE  SessionKnows(r)'
BY DEF IInv, SessionsKnow, SessionKnows, Current, At

(* After a step of _claim_next the session knows its attempt. *)
LEMMA ClaimingKnows ==
  ASSUME IInv, Next, NEW r \in Runners, Claiming(r)
  PROVE  SessionKnows(r)'
<1> USE DEF IInv
<1>1. CASE Ask(r)
  <2>1. sess'[r].pc = "prepare" /\ attempts' = attempts /\ Current = {}
    BY <1>1, GotoEffect DEF Ask, Labels
  <2>2. asked' \in Trials /\ trials'[asked'] = Pending
    <3>1. CASE TailPending
      BY <1>1, <3>1, BudgetAssumption
      DEF Ask, TailPending, TypeOK, Trials
    <3>2. CASE ~TailPending
      <4>1. asked' = asked + 1 /\ trials' = [trials EXCEPT ![asked + 1] = Pending]
        BY <1>1, <3>2 DEF Ask
      <4>2. asked + 1 \in Trials
        BY <1>1, <3>2, BudgetAssumption DEF Ask, BudgetSpent, TypeOK, Trials
      <4> QED BY <4>1, <4>2 DEF TypeOK
    <3> QED BY <3>1, <3>2
  <2>3. attempts'[asked'].phase = "NONE"
    BY <2>1, <2>2, FilesStep, ResultsDistinct DEF PhaseBoundsFiles, Current
  <2> QED BY <2>1, <2>2, <2>3 DEF SessionKnows, Current, At
<1>2. CASE RejectCandidate(r) \/ RunDirExists(r) \/ CommitPrepared(r)
  BY <1>2, GotoEffect, RestingKnows
  DEF RejectCandidate, RunDirExists, CommitPrepared, Labels
<1>3. CASE MakeRunDir(r)
  BY <1>3, GotoEffect
  DEF MakeRunDir, Labels, SessionsKnow, SessionKnows, Current, At, PhasesAt
<1>4. CASE WriteStarting(r)
  BY <1>4, GotoEffect
  DEF WriteStarting, Labels, SessionsKnow, SessionKnows, Current, At, PhasesAt,
      TypeOK
<1> QED BY <1>1, <1>2, <1>3, <1>4 DEF Claiming

(* After a step of _launch_new the session knows its attempt. *)
LEMMA LaunchingKnows ==
  ASSUME IInv, Next, NEW r \in Runners, Launching(r)
  PROVE  SessionKnows(r)'
<1> USE DEF IInv
<1>0. \A n \in Trials : attempts[n] \in Attempt
  BY DEF TypeOK
<1>1. CASE CancelBeforeLaunch(r) \/ RecordLaunchFailure(r)
  <2>1. PICK n \in Trials, x \in Results : ResultReady(r, n, x, FALSE)
    BY <1>1, ResultsDistinct
    DEF CancelBeforeLaunch, RecordLaunchFailure, Current
  <2>2. sess'[r].pc = "terminal" /\ attempts'[n].phase = "RESULT_READY"
    BY <2>1, ResultReadyEffect
  <2> QED BY <2>2, CommittedKnows DEF PhasesAt
<1>2. CASE RefuseLaunch(r) \/ BlockAtLaunch(r) \/ BlockUnidentified(r)
  BY <1>2, GotoEffect, RestingKnows
  DEF RefuseLaunch, BlockAtLaunch, BlockUnidentified, Block, Labels
<1>3. CASE CommitIntent(r)
  <2>1. PICK n \in Trials : CommitIntent(r)!(n)
    BY <1>3 DEF CommitIntent
  <2>2. /\ sess'[r].pc = "spawn"
        /\ attempts'[n].phase = "LAUNCH_INTENT"
        /\ launches'[n] = 0
    BY <1>0, <2>1, GotoEffect, CommitEffect, AttemptUpdates
    DEF Driving, Labels, Phases, PhaseBoundsProcess
  <2> QED BY <2>2, OneOpenAfter DEF SessionKnows, At, PhasesAt
<1>4. CASE Launch(r)
  <2>1. sess'[r].pc = "adopt" /\ At(r, "spawn") /\ attempts' = attempts
    BY <1>4 DEF Launch, TypeOK
  <2> QED BY <2>1, SamePhasesKnow DEF At, PhasesAt
<1>5. CASE LaunchFails(r)
  <2>1. PICK n \in Current : LaunchFails(r)!(n)
    BY <1>5 DEF LaunchFails
  <2>2. sess'[r].pc = "launchFailed" /\ attempts'[n].phase = "EXITED"
    BY <1>0, <2>1, GotoEffect, CommitEffect, AttemptUpdates DEF Labels, Current
  <2> QED BY <2>2, CommittedKnows DEF PhasesAt, Current
<1>6. CASE CommitRunning(r)
  <2>1. PICK n \in Current : CommitRunning(r)!(n)
    BY <1>6 DEF CommitRunning
  <2>2. sess'[r].pc = "announce" /\ attempts'[n].phase = "RUNNING"
    BY <1>0, <2>1, GotoEffect, CommitEffect, AttemptUpdates DEF Labels, Current
  <2> QED BY <2>2, CommittedKnows DEF PhasesAt, Current
<1>7. CASE CommitShortLived(r)
  <2>1. PICK n \in Current : CommitShortLived(r)!(n)
    BY <1>7 DEF CommitShortLived
  <2>2. sess'[r].pc = "decide" /\ attempts'[n].phase = "EXITED"
    BY <1>0, <2>1, GotoEffect, CommitEffect, AttemptUpdates DEF Labels, Current
  <2> QED BY <2>2, CommittedKnows DEF PhasesAt, Current
<1>8. CASE StopUnidentified(r)
  <2>1. sess'[r].pc = "unidentified" /\ At(r, "adopt") /\ attempts' = attempts
    BY <1>8, GotoEffect DEF StopUnidentified, Labels
  <2> QED BY <2>1, SamePhasesKnow DEF At, PhasesAt
<1>9. CASE WriteRunning(r)
  <2>1. sess'[r].pc = "monitor" /\ At(r, "announce") /\ attempts' = attempts
    BY <1>9, GotoEffect DEF WriteRunning, Labels
  <2> QED BY <2>1, SamePhasesKnow DEF At, PhasesAt
<1> QED BY <1>1, <1>2, <1>3, <1>4, <1>5, <1>6, <1>7, <1>8, <1>9 DEF Launching

(* After a step of _monitor the session knows its attempt. *)
LEMMA MonitoringKnows ==
  ASSUME IInv, Next, NEW r \in Runners, Monitoring(r)
  PROVE  SessionKnows(r)'
<1> USE DEF IInv
<1>0. \A n \in Trials : attempts[n] \in Attempt
  BY DEF TypeOK
<1>1. CASE ObserveExit(r)
  <2>1. PICK n \in Current : ObserveExit(r)!(n)
    BY <1>1 DEF ObserveExit
  <2>2. sess'[r].pc = "decide" /\ attempts'[n].phase = "EXITED"
    BY <1>0, <2>1, GotoEffect, CommitEffect, AttemptUpdates DEF Labels, Current
  <2> QED BY <2>2, CommittedKnows DEF PhasesAt, Current
<1>2. CASE CommitTermination(r)
  <2>1. PICK n \in Current, reason \in {"user_stopped", "timeout"} :
               /\ At(r, "monitor")
               /\ Commit(n, Terminated(attempts[n], reason))
               /\ Goto(r, "stopping")
    BY <1>2 DEF CommitTermination
  <2>2. attempts[n].phase = "RUNNING"
    BY <2>1, OpenPhase DEF PhasesAt
  <2>3. sess'[r].pc = "stopping" /\ attempts'[n].phase = "RUNNING"
    BY <1>0, <2>1, <2>2, GotoEffect, CommitEffect, AttemptUpdates
    DEF Labels, Current
  <2> QED BY <2>3, CommittedKnows DEF PhasesAt, Current
<1>3. CASE WriteStopping(r)
  <2>1. sess'[r].pc = "terminate" /\ At(r, "stopping") /\ attempts' = attempts
    BY <1>3, GotoEffect DEF WriteStopping, Labels
  <2> QED BY <2>1, SamePhasesKnow DEF At, PhasesAt
<1>4. CASE Terminate(r)
  <2>1. sess'[r].pc = "monitor" /\ At(r, "terminate") /\ attempts' = attempts
    BY <1>4, GotoEffect DEF Terminate, Labels
  <2> QED BY <2>1, SamePhasesKnow DEF At, PhasesAt
<1>5. CASE BlockStillActive(r)
  BY <1>5, GotoEffect, RestingKnows DEF BlockStillActive, Block, Labels
<1> QED BY <1>1, <1>2, <1>3, <1>4, <1>5 DEF Monitoring

(* After a recovery decision the session knows its attempt. *)
LEMMA RecoveringKnows ==
  ASSUME IInv, Next, NEW r \in Runners, Recovering(r)
  PROVE  SessionKnows(r)'
<1> USE DEF IInv
<1>1. CASE Decide(r) \/ RecordInterrupted(r)
  <2>1. \A n \in Trials : DecidedResults(attempts[n]) \subseteq Results
    BY ResultsDistinct DEF DecidedResults, Collected
  <2>2. PICK n \in Trials, x \in Results : ResultReady(r, n, x, TRUE)
    BY <1>1, <2>1, ResultsDistinct DEF Decide, RecordInterrupted, Current
  <2>3. sess'[r].pc = "terminal" /\ attempts'[n].phase = "RESULT_READY"
    BY <2>2, ResultReadyEffect
  <2> QED BY <2>3, CommittedKnows DEF PhasesAt
<1>2. CASE BlockUnprovable(r) \/ BlockMatch(r) \/ BlockUnverifiable(r)
  BY <1>2, GotoEffect, RestingKnows
  DEF BlockUnprovable, BlockMatch, BlockUnverifiable, Block, Labels
<1>3. CASE Replay(r)
  <2>1. PICK n \in Trials : /\ n \in Current
                            /\ attempts[n].phase \in {"RESULT_READY", "TOLD"}
    BY <1>3 DEF Replay, Driving
  <2>2. sess'[r].pc = "terminal" /\ attempts' = attempts
    BY <1>3 DEF Replay, TypeOK
  <2> QED BY <2>1, <2>2, CommittedKnows DEF PhasesAt
<1> QED BY <1>1, <1>2, <1>3 DEF Recovering

(* After a step of _commit_result the session knows its attempt. *)
LEMMA CommittingKnows ==
  ASSUME IInv, Next, NEW r \in Runners, Committing(r)
  PROVE  SessionKnows(r)'
<1> USE DEF IInv
<1>0. \A n \in Trials : attempts[n] \in Attempt
  BY DEF TypeOK
<1>1. CASE WriteTerminal(r)
  <2>1. sess'[r].pc = "tell" /\ At(r, "terminal") /\ attempts' = attempts
    BY <1>1, GotoEffect DEF WriteTerminal, Labels
  <2> QED BY <2>1, SamePhasesKnow DEF At, PhasesAt
<1>2. CASE Tell(r)
  <2>1. PICK n \in Current : Tell(r)!(n)
    BY <1>2 DEF Tell
  <2>2. attempts' = attempts /\ attempts[n].phase \in {"RESULT_READY", "TOLD"}
    BY <2>1, OpenPhase DEF PhasesAt
  <2>3. CASE trials[n] \in {Pending, attempts[n].result}
    <3>1. sess'[r].pc = "told"
      BY <2>1, <2>3, GotoEffect DEF Labels
    <3>2. trials'[n] = attempts'[n].result
      BY <2>1, <2>2, <2>3 DEF TypeOK, Current
    <3>3. \A m \in Current' : m = n
      BY <2>2, OneOpenAfter DEF Current
    <3> QED BY <2>2, <3>1, <3>2, <3>3 DEF SessionKnows, At, PhasesAt
  <2>4. CASE trials[n] \notin {Pending, attempts[n].result}
    <3>1. sess'[r].pc = "cleanup"
      BY <2>1, <2>4, GotoEffect DEF Labels
    <3> QED BY <3>1, RestingKnows
  <2> QED BY <2>3, <2>4
<1>3. CASE CommitTold(r)
  <2>1. PICK n \in Current : CommitTold(r)!(n)
    BY <1>3 DEF CommitTold
  <2>2. /\ sess'[r].pc \in {"finalizer", "finalized"}
        /\ attempts'[n].phase = "TOLD"
    BY <1>0, <2>1, GotoEffect, CommitEffect, AttemptUpdates
    DEF Labels, Current, Phases
  <2> QED BY <2>2, CommittedKnows DEF PhasesAt, Current
<1>4. CASE RunFinalizer(r)
  <2>1. sess'[r].pc = "finalized" /\ At(r, "finalizer") /\ attempts' = attempts
    BY <1>4, GotoEffect DEF RunFinalizer, Labels
  <2> QED BY <2>1, SamePhasesKnow DEF At, PhasesAt
<1>5. CASE CommitFinalized(r)
  <2>1. sess'[r].pc \in {"pause", "loop"}
    BY <1>5 DEF CommitFinalized, TypeOK
  <2>2. Current' = {}
    <3>1. AttemptWrite(r)
      BY <1>5 DEF AttemptWrite
    <3>2. PICK n \in Current : /\ At(r, "finalized")
                               /\ attempts'[n].phase = "FINALIZED"
      <4>1. PICK n \in Current :
                   /\ At(r, "finalized")
                   /\ Commit(n, Finalized(attempts[n], sess[r].finalizer))
        BY <1>5 DEF CommitFinalized
      <4>2. sess[r].finalizer \in BOOLEAN /\ attempts[n] \in Attempt
        BY <1>0 DEF TypeOK, Session, Current
      <4>3. Finalized(attempts[n], sess[r].finalizer) \in Attempt
            /\ Finalized(attempts[n], sess[r].finalizer).phase = "FINALIZED"
        BY <4>2, AttemptUpdates, Zenon
      <4> QED BY <4>1, <4>3, CommitEffect DEF Current
    <3>3. n = asked /\ asked' = asked
      BY <3>1, <3>2, AttemptEffect DEF ClaimedInOrder, Current
    <3> QED BY <3>2, <3>3, ClaimStep DEF ClaimedInOrder, Current
  <2> QED BY <2>1, <2>2, RestingKnows DEF SessionKnows, At
<1> QED BY <1>1, <1>2, <1>3, <1>4, <1>5 DEF Committing

(* No step falsifies what a session knows, its own or another's. *)
LEMMA KnowledgeStep ==
  ASSUME IInv, Next
  PROVE  SessionsKnow'
<1> USE DEF IInv
<1>1. ASSUME NEW r \in Runners, Prepare(r) PROVE SessionsKnow'
  BY <1>1 DEF Prepare, SessionsKnow, SessionKnows, Current, At
<1>2. ASSUME NEW r \in Runners, Run(r) \/ Resume(r) PROVE SessionsKnow'
  <2>1. holder = NoRunner /\ sess' = [sess EXCEPT ![r].pc = "open"]
    BY <1>2 DEF Run, Resume, Enter
  <2>2. \A q \in Runners : sess[q].pc = "idle"
    BY <2>1, RunnerAssumption DEF LockHeld, At
  <2>3. \A q \in Runners : sess'[q].pc \in {"open", "idle"}
    BY <2>1, <2>2 DEF TypeOK
  <2> QED BY <2>3, RestingKnows DEF SessionsKnow
<1>3. ASSUME NEW r \in Runners,
             SessionStep(r) \/ StepFails(r) \/ Crash(r) \/ RequestStop(r)
      PROVE  SessionsKnow'
  <2>1. ASSUME NEW q \in Runners \ {r} PROVE SessionKnows(q)'
    <3>1. sess'[q].pc = "idle"
      BY <1>3, SessionMoves, OthersIdle DEF At
    <3> QED BY <3>1, RestingKnows
  <2>2. CASE OpenSession(r) \/ StepFails(r)
    BY <2>1, <2>2, GotoEffect, RestingKnows
    DEF OpenSession, StepFails, Labels, SessionsKnow
  <2>3. CASE Complete(r) \/ Pause(r) \/ Cleanup(r) \/ Crash(r)
    BY <2>1, <2>3, LeaveEffect, RestingKnows
    DEF Complete, Pause, Finish, Cleanup, Crash, SessionsKnow
  <2>4. CASE RequestStop(r)
    <3>1. sess'[r].pc = sess[r].pc
      BY <2>4 DEF RequestStop, TypeOK, Session
    <3>2. SessionKnows(r)'
      BY <2>4, <3>1 DEF RequestStop, SessionsKnow, SessionKnows, Current, At
    <3> QED BY <2>1, <3>2 DEF SessionsKnow
  <2>5. CASE Claiming(r) \/ Launching(r) \/ Monitoring(r) \/ Recovering(r)
             \/ Committing(r)
    BY <2>1, <2>5, ClaimingKnows, LaunchingKnows, MonitoringKnows,
       RecoveringKnows, CommittingKnows DEF SessionsKnow
  <2> QED BY <1>3, <2>2, <2>3, <2>4, <2>5 DEF SessionStep
<1>4. ASSUME NEW n \in Trials, ProcessExits(n) PROVE SessionsKnow'
  BY <1>4 DEF ProcessExits, SessionsKnow, SessionKnows, Current, At
<1> QED BY <1>1, <1>2, <1>3, <1>4 DEF Next

-----------------------------------------------------------------------------
(* The study at rest. *)

Rest == {"ABSENT", "READY", "PAUSED", "COMPLETED"}

(* Only Complete and Pause bring a session's study to rest. *)
LEMMA RestWriters ==
  ASSUME NEW r \in Runners, SessionStep(r)
  PROVE  Complete(r) \/ Pause(r) \/ status' \notin Rest \/ status' = status
<1>1. OpenSession(r) \/ Cleanup(r) => status' = "RUNNING" \/ status' = status
  BY DEF OpenSession, Cleanup
<1>2. Claiming(r) => status' = status
  BY DEF Claiming, Ask, RejectCandidate, MakeRunDir, RunDirExists, WriteStarting,
         CommitPrepared, Commit
<1>3. Launching(r) => status' = "BLOCKED" \/ status' = status
  BY DEF Launching, CancelBeforeLaunch, RefuseLaunch, CommitIntent, Launch,
         BlockAtLaunch, LaunchFails, RecordLaunchFailure, CommitRunning,
         CommitShortLived, StopUnidentified, BlockUnidentified, WriteRunning,
         ResultReady, Block, Commit
<1>4. Monitoring(r) => status' = "BLOCKED" \/ status' = status
  BY DEF Monitoring, ObserveExit, CommitTermination, WriteStopping, Terminate,
         BlockStillActive, Block, Commit
<1>5. Recovering(r) => status' = "BLOCKED" \/ status' = status
  BY DEF Recovering, Decide, BlockUnprovable, BlockMatch, BlockUnverifiable,
         RecordInterrupted, Replay, ResultReady, Block, Commit
<1>6. Committing(r) => status' = status
  BY DEF Committing, WriteTerminal, Tell, CommitTold, RunFinalizer,
         CommitFinalized, Commit
<1> QED BY <1>1, <1>2, <1>3, <1>4, <1>5, <1>6 DEF SessionStep, Rest

(* At rest a session can only begin its work or end. *)
LEMMA RestActions ==
  ASSUME NEW r \in Runners, SessionStep(r),
         sess[r].pc \in {"idle", "open", "cleanup"}
  PROVE  OpenSession(r) \/ Cleanup(r)
<1>1. ~Complete(r) /\ ~Pause(r)
  BY DEF Complete, Pause, At
<1>2. ~Claiming(r)
  BY DEF Claiming, Ask, RejectCandidate, MakeRunDir, RunDirExists, WriteStarting,
         CommitPrepared, At
<1>3. ~Launching(r)
  BY DEF Launching, CancelBeforeLaunch, RefuseLaunch, CommitIntent, Launch,
         BlockAtLaunch, LaunchFails, RecordLaunchFailure, CommitRunning,
         CommitShortLived, StopUnidentified, BlockUnidentified, WriteRunning,
         Driving, At
<1>4. ~Monitoring(r)
  BY DEF Monitoring, ObserveExit, CommitTermination, WriteStopping, Terminate,
         BlockStillActive, At
<1>5. ~Recovering(r)
  BY DEF Recovering, Decide, BlockUnprovable, BlockMatch, BlockUnverifiable,
         RecordInterrupted, Replay, Driving, At
<1>6. ~Committing(r)
  BY DEF Committing, WriteTerminal, Tell, CommitTold, RunFinalizer,
         CommitFinalized, At
<1> QED BY <1>1, <1>2, <1>3, <1>4, <1>5, <1>6 DEF SessionStep

(* Every step keeps a study at rest settled. *)
LEMMA RestStep ==
  ASSUME IInv, Next
  PROVE  RestIsSettled'
<1> USE DEF IInv
<1>1. ASSUME NEW r \in Runners, Prepare(r) PROVE RestIsSettled'
  BY <1>1 DEF Prepare, RestIsSettled, Current, At
<1>2. ASSUME NEW r \in Runners, Run(r) \/ Resume(r) PROVE RestIsSettled'
  <2>1. /\ status' = status /\ status # "COMPLETED" /\ attempts' = attempts
        /\ sess' = [sess EXCEPT ![r].pc = "open"]
    BY <1>2 DEF Run, Resume, Enter
  <2>2. \A q \in Runners : sess'[q].pc \in {"open", sess[q].pc}
    BY <2>1 DEF TypeOK
  <2> QED BY <2>1, <2>2 DEF RestIsSettled, Current
<1>3. ASSUME NEW r \in Runners, Complete(r) \/ Pause(r) PROVE RestIsSettled'
  <2>1. Current' = {}
    <3>1. At(r, "pause") => Current = {}
      BY OpenPhase DEF PhasesAt
    <3> QED BY <1>3, <3>1 DEF Complete, Pause, Finish, Current
  <2>2. \A q \in Runners : sess'[q].pc = "idle"
    BY <1>3, LeaveEffect, OthersIdle DEF Complete, Pause, Finish, At
  <2>3. status' = "COMPLETED" => asked' = Budget /\ trials'[asked'] # Pending
    BY <1>3, BudgetAssumption
    DEF Complete, Pause, Finish, BudgetSpent, TailPending
  <2> QED BY <2>1, <2>2, <2>3 DEF RestIsSettled, At
<1>4. ASSUME NEW r \in Runners, SessionStep(r), ~Complete(r), ~Pause(r)
      PROVE  RestIsSettled'
  <2>1. CASE status' \notin Rest
    BY <2>1 DEF RestIsSettled, Rest
  <2>2. CASE status' = status /\ status \in Rest
    <3>1. /\ ~At(r, "idle") /\ status # "COMPLETED" /\ Current = {}
          /\ \A q \in Runners : sess[q].pc \in {"idle", "open", "cleanup"}
      BY <1>4, <2>2, SessionMoves DEF RestIsSettled, Rest
    <3>2. Cleanup(r)
      BY <1>4, <2>2, <3>1, RestActions DEF OpenSession, Rest
    <3>3. attempts' = attempts /\ sess'[r].pc = "idle"
      BY <3>2, LeaveEffect DEF Cleanup
    <3>4. \A q \in Runners : sess'[q].pc \in {"idle", "open", "cleanup"}
      BY <1>4, <3>1, <3>3, SessionMoves
    <3> QED BY <2>2, <3>1, <3>3, <3>4 DEF RestIsSettled, Current
  <2> QED BY <1>4, <2>1, <2>2, RestWriters
<1>5. ASSUME NEW r \in Runners, StepFails(r) \/ Crash(r) \/ RequestStop(r)
      PROVE  RestIsSettled'
  <2>1. UNCHANGED <<status, attempts>> /\ ~At(r, "idle")
    BY <1>5, SessionMoves DEF StepFails, Crash, RequestStop
  <2>2. sess'[r].pc \in {"idle", "cleanup", sess[r].pc}
    BY <1>5, GotoEffect, LeaveEffect
    DEF StepFails, Crash, RequestStop, Labels, TypeOK, Session
  <2>3. \A q \in Runners \ {r} : sess'[q] = sess[q]
    BY <1>5, SessionMoves
  <2> QED BY <2>1, <2>2, <2>3 DEF RestIsSettled, Current
<1>6. ASSUME NEW n \in Trials, ProcessExits(n) PROVE RestIsSettled'
  BY <1>6 DEF ProcessExits, RestIsSettled, Current, At
<1> QED BY <1>1, <1>2, <1>3, <1>4, <1>5, <1>6 DEF Next

-----------------------------------------------------------------------------
(* The theorems. *)

(* The invariant holds of a study that was just created. *)
LEMMA InitIInv ==
  ASSUME Init
  PROVE  IInv
<1> USE DEF Init
<1>0. /\ NoAttempt \in Attempt /\ NoAttempt.phase = "NONE"
      /\ NoAttempt.result = NoResult
      /\ NoSession \in Session /\ NoSession.pc = "idle"
  BY NoAttemptType DEF NoSession, Session, Labels
<1>1. TypeOK
  BY <1>0, BudgetAssumption
  DEF TypeOK, Trials, Statuses, RunStates, ProcStates
<1>2. LockHeld
  BY <1>0 DEF LockHeld, At
<1>3. ClaimedInOrder
  BY <1>0, BudgetAssumption DEF ClaimedInOrder, Trials
<1>4. PhaseBoundsProcess
  BY <1>0 DEF PhaseBoundsProcess
<1>5. PhaseBoundsFiles
  BY <1>0 DEF PhaseBoundsFiles
<1>6. Current = {}
  BY <1>0 DEF Current
<1>7. SessionsKnow
  BY <1>0, <1>6 DEF SessionsKnow, SessionKnows, At
<1>8. RestIsSettled
  BY <1>0, <1>6 DEF RestIsSettled, At
<1> QED BY <1>1, <1>2, <1>3, <1>4, <1>5, <1>7, <1>8 DEF IInv

(* The invariant is inductive. *)
LEMMA NextIInv ==
  ASSUME IInv, [Next]_vars
  PROVE  IInv'
<1>1. CASE Next
  BY <1>1, TypeStep, LockStep, ClaimStep, ProcessStep, FilesStep, KnowledgeStep,
     RestStep DEF IInv
<1>2. CASE UNCHANGED vars
  BY <1>2 DEF vars, IInv, TypeOK, LockHeld, ClaimedInOrder, PhaseBoundsProcess,
              PhaseBoundsFiles, SessionsKnow, SessionKnows, RestIsSettled,
              Current, At
<1> QED BY <1>1, <1>2

(* The invariant holds in every behaviour of the executor. *)
THEOREM Invariance == Spec => []IInv
<1>1. Init => IInv
  BY InitIInv
<1>2. IInv /\ [Next]_vars => IInv'
  BY NextIInv
<1> QED BY <1>1, <1>2, PTL DEF Spec

(* The files and the sessions of the executor only ever hold what their    *)
(* models declare (execution_models.py, study.json).                       *)
THEOREM TypeCorrect == Spec => []TypeOK
<1>1. IInv => TypeOK
  BY DEF IInv
<1> QED BY <1>1, Invariance, PTL

(* No recovery path of HpoRunner trains a trial twice. *)
THEOREM TrainsAtMostOnce == Spec => []LaunchedAtMostOnce
<1>1. IInv => LaunchedAtMostOnce
  BY DEF IInv, PhaseBoundsProcess, LaunchedAtMostOnce
<1> QED BY <1>1, Invariance, PTL

(* The launch intent is durable before a process exists (_launch_new). *)
THEOREM LaunchesAreAudited == Spec => []LaunchIsAudited
<1>1. IInv => LaunchIsAudited
  BY DEF IInv, PhaseBoundsProcess, LaunchIsAudited, TypeOK
<1> QED BY <1>1, Invariance, PTL

(* Two processes of one study never train at the same time, whatever       *)
(* crashes, blocks and stops lie between them.                             *)
THEOREM TrainsAlone == Spec => []OneTraining
<1>1. IInv => OneTraining
  BY DEF IInv, PhaseBoundsProcess, ClaimedInOrder, OneTraining
<1> QED BY <1>1, Invariance, PTL

(* No file claims an outcome while the process still trains. *)
THEOREM NoEarlyResult == Spec => []NoResultWhileTraining
<1>1. IInv => NoResultWhileTraining
  BY DEF IInv, PhaseBoundsProcess, PhaseBoundsFiles, NoResultWhileTraining
<1> QED BY <1>1, Invariance, PTL

(* _cross_validate never meets a study.json and an execution.json that     *)
(* contradict each other.                                                  *)
THEOREM NeverCorrupt == Spec => []RecordsAgree
<1>1. ASSUME IInv PROVE RecordsAgree
  <2> USE <1>1 DEF IInv
  <2>1. \A n \in Trials : attempts[n].phase # "NONE" => n <= asked
    BY BudgetAssumption DEF ClaimedInOrder, TypeOK, Trials
  <2>2. \A n \in Trials : attempts[n].phase = "FINALIZED" =>
          trials[n] \in Results /\ trials[n] = attempts[n].result
    BY DEF PhaseBoundsFiles
  <2>3. ASSUME status = "COMPLETED", NEW n \in Trials PROVE trials[n] # Pending
    <3>1. asked = Budget /\ trials[asked] # Pending
      BY <2>3 DEF RestIsSettled
    <3>2. n = asked \/ n < asked
      BY <3>1, BudgetAssumption DEF Trials
    <3> QED BY <3>1, <3>2, ResultsDistinct DEF ClaimedInOrder
  <2> QED BY <2>1, <2>2, <2>3 DEF RestIsSettled, RecordsAgree
<1> QED BY <1>1, Invariance, PTL

(* The statuses the training gate passes leave no process and no open      *)
(* attempt behind.                                                         *)
THEOREM FreeAtRest == Spec => []RestIsFree
<1>1. IInv => RestIsFree
  BY DEF IInv, RestIsSettled, PhaseBoundsProcess, RestIsFree, Current
<1> QED BY <1>1, Invariance, PTL

(* What is committed or told is never changed again, by no replay and no   *)
(* second decision.                                                        *)
LEMMA FinalStep ==
  ASSUME IInv, [Next]_vars, NEW n \in Trials
  PROVE  /\ trials[n] \in Results => trials'[n] = trials[n]
         /\ attempts[n].result # NoResult =>
              attempts'[n].result = attempts[n].result
<1> USE DEF IInv
<1>1. CASE UNCHANGED <<trials, attempts>>
  BY <1>1
<1>2. CASE StudyStep /\ UNCHANGED attempts
  <2>1. CASE asked' = asked
    BY <1>2, <2>1, ResultsDistinct DEF StudyStep, TypeOK
  <2>2. CASE asked' # asked
    <3>1. asked + 1 \in Trials /\ trials' = [trials EXCEPT ![asked + 1] = Pending]
      BY <1>2, <2>2 DEF StudyStep
    <3>2. trials[asked + 1] = Unclaimed
      BY <3>1, BudgetAssumption DEF ClaimedInOrder, TypeOK, Trials
    <3> QED BY <1>2, <3>1, <3>2, ResultsDistinct DEF TypeOK
  <2> QED BY <2>1, <2>2
<1>3. ASSUME NEW k \in Trials, PhaseStep(k), UNCHANGED trials,
             \A m \in Trials \ {k} : attempts'[m] = attempts[m]
      PROVE  attempts[n].result # NoResult =>
               attempts'[n].result = attempts[n].result
  BY <1>3 DEF PhaseStep, PhaseBoundsFiles
<1>4. CASE Next
  BY <1>1, <1>2, <1>3, <1>4, Writers, StudyEffect, AttemptEffect,
     RunStateEffect, ProcessEffect DEF Quiet
<1> QED BY <1>1, <1>4 DEF vars

(* A committed or told result never changes again (_replay,
   _same_terminal_result). *)
THEOREM DecidedOnce == Spec => ResultsAreFinal
<1>1. IInv /\ [Next]_vars =>
        [\A n \in Trials :
           /\ trials[n] \in Results => trials'[n] = trials[n]
           /\ attempts[n].result # NoResult =>
                attempts'[n].result = attempts[n].result]_vars
  BY FinalStep
<1> QED BY <1>1, Invariance, PTL DEF Spec, ResultsAreFinal

-----------------------------------------------------------------------------
(* The executor implements the ledger. *)

Started  == {n \in Trials : launches[n] > 0}
Training == {n \in Trials : proc[n] = "alive"}
Outcome  == [n \in Trials |-> IF trials[n] \in Results THEN trials[n] ELSE Pending]

(* A fresh study is a fresh ledger. *)
LEMMA LedgerInit ==
  ASSUME Init
  PROVE  Ledger!Init
BY ResultsDistinct DEF Init, Ledger!Init, Trials

(* Ask claims; RejectCandidate and Tell settle. *)
LEMMA LedgerStudy ==
  ASSUME IInv, StudyStep, UNCHANGED <<execVars, procVars>>
  PROVE  Ledger!Next
<1> USE DEF IInv
<1>0. /\ Budget \in Nat /\ asked \in 0..Budget /\ Trials = 1..Budget
      /\ Started' = Started /\ Training' = Training
  BY BudgetAssumption DEF TypeOK, Trials, Started, Training
<1>1. CASE asked' # asked
  <2>1. /\ \A n \in Trials : n <= asked => trials[n] \in Results
        /\ asked' = asked + 1 /\ asked + 1 \in Trials
        /\ trials' = [trials EXCEPT ![asked + 1] = Pending]
    BY <1>1 DEF StudyStep
  <2>2. trials[asked + 1] = Unclaimed
    BY <1>0, <2>1 DEF ClaimedInOrder
  <2>3. Outcome' = Outcome
    BY <2>1, <2>2, ResultsDistinct DEF Outcome, TypeOK
  <2>4. \A n \in 1..asked : Outcome[n] # Pending
    BY <1>0, <2>1, ResultsDistinct DEF Outcome
  <2>5. Ledger!Claim
    BY <1>0, <2>1, <2>3, <2>4
    DEF Ledger!Claim, Ledger!Unsettled, Started, Training, Outcome
  <2> QED BY <2>5 DEF Ledger!Next
<1>2. CASE asked' = asked
  <2>1. PICK n \in Trials, x \in Results :
               /\ trials[n] = Pending
               /\ trials' = [trials EXCEPT ![n] = x]
               /\ attempts[n].phase \in {"NONE", "RESULT_READY", "TOLD"}
    BY <1>0, <1>2 DEF StudyStep, PhaseBoundsFiles
  <2>2. n \in 1..asked
    BY <1>0, <2>1, ResultsDistinct DEF ClaimedInOrder
  <2>3. Outcome[n] = Pending /\ n \notin Training
    BY <2>1, ResultsDistinct DEF Outcome, Training, PhaseBoundsProcess
  <2>4. Outcome' = [Outcome EXCEPT ![n] = x]
    BY <2>1 DEF Outcome, TypeOK
  <2>5. Ledger!Settle(n)
    BY <1>0, <1>2, <2>2, <2>3, <2>4
    DEF Ledger!Settle, Ledger!Unsettled, Started, Training, Outcome
  <2> QED BY <1>0, <2>2, <2>5 DEF Ledger!Next
<1> QED BY <1>1, <1>2

(* A created process starts the training of its trial, its exit ends it. *)
LEMMA LedgerProcess ==
  ASSUME IInv, NEW n \in Trials, Created(n) \/ Ended(n), UNCHANGED studyVars
  PROVE  Ledger!Next
<1> USE DEF IInv
<1>0. /\ Budget \in Nat /\ asked \in 0..Budget /\ Trials = 1..Budget
      /\ Outcome' = Outcome
  BY BudgetAssumption DEF TypeOK, Trials, Outcome
<1>1. CASE Created(n)
  <2>1. n = asked /\ trials[n] = Pending
    BY <1>1 DEF Created, ClaimedInOrder, PhaseBoundsFiles
  <2>2. n \in 1..asked /\ Outcome[n] = Pending
    BY <1>0, <2>1, ResultsDistinct DEF Outcome
  <2>3. Training = {}
    BY <1>1, <2>1
    DEF Created, Training, PhaseBoundsProcess, ClaimedInOrder
  <2>4. Training' = {n}
    BY <1>1, <2>3 DEF Created, Training, TypeOK
  <2>5. n \notin Started /\ Started' = Started \cup {n}
    BY <1>1 DEF Created, Started, TypeOK
  <2>6. Ledger!Start(n)
    BY <1>0, <2>2, <2>3, <2>4, <2>5
    DEF Ledger!Start, Ledger!Unsettled, Started, Training, Outcome
  <2> QED BY <1>0, <2>6 DEF Ledger!Next
<1>2. CASE Ended(n)
  <2>1. n \in Training /\ Training' = Training \ {n} /\ Started' = Started
    BY <1>2 DEF Ended, Training, Started, TypeOK
  <2>2. Ledger!End(n)
    BY <1>0, <2>1 DEF Ledger!End, Started, Training, Outcome
  <2> QED BY <1>0, <2>2 DEF Ledger!Next
<1> QED BY <1>1, <1>2

(* Every step of the executor is a step of the ledger or none. *)
LEMMA LedgerStep ==
  ASSUME IInv, [Next]_vars
  PROVE  [Ledger!Next]_Ledger!vars
<1>1. CASE UNCHANGED <<studyVars, procVars>>
  BY <1>1 DEF Ledger!vars
<1>2. CASE Next
  BY <1>1, <1>2, Writers, StudyEffect, AttemptEffect, RunStateEffect,
     ProcessEffect, LedgerStudy, LedgerProcess DEF Quiet
<1> QED BY <1>1, <1>2 DEF vars

(* Whatever crashes, a study is a ledger: claimed in order, trained at     *)
(* most once and alone, settled once and at rest.                          *)
THEOREM Refinement == Spec => ImplementsLedger
<1>1. Init => Ledger!Init
  BY LedgerInit
<1>2. IInv /\ [Next]_vars => [Ledger!Next]_Ledger!vars
  BY LedgerStep
<1> QED BY <1>1, <1>2, Invariance, PTL DEF Spec, ImplementsLedger, Ledger!Spec

(* A trial of the study is launched once, on record and alone, whatever    *)
(* crashes and whoever calls (_launch_new, _drive_attempt).                *)
THEOREM LaunchesStaySafe == Spec => []LaunchesAreSafe
BY TrainsAtMostOnce, LaunchesAreAudited, TrainsAlone, PTL
   DEF LaunchesAreSafe

(* Between any two writes the files agree with each other and with the     *)
(* training process (_cross_validate, _commit_result, _finish_session).    *)
THEOREM FilesStayTrue == Spec => []FilesAgree
BY NoEarlyResult, NeverCorrupt, FreeAtRest, PTL DEF FilesAgree
-----------------------------------------------------------------------------
(* A settled trial tells one story.  SettledInv is inductive on top of     *)
(* IInv: first what is on record of a trial, write by write, then what the *)
(* session that commits a result knows.                                    *)

(* Each field group that is committed writes its fields and keeps the rest *)
(* of what recovery reads.                                                 *)
LEMMA PhaseFields ==
  ASSUME NEW a \in Attempt, NEW p \in Phases
  PROVE  /\ InPhase(a, p) \in Attempt
         /\ InPhase(a, p).phase = p
         /\ InPhase(a, p).result = a.result
         /\ InPhase(a, p).identity = a.identity
         /\ InPhase(a, p).returncode = a.returncode
         /\ InPhase(a, p).termination = a.termination
BY DEF Attempt, InPhase

(* Exited writes the return code. *)
LEMMA ExitedFields ==
  ASSUME NEW a \in Attempt, NEW c \in {"zero", "nonzero"}
  PROVE  /\ Exited(a, c) \in Attempt
         /\ Exited(a, c).phase = "EXITED"
         /\ Exited(a, c).result = a.result
         /\ Exited(a, c).returncode = c
BY DEF Attempt, Phases, Exited

(* Running writes the identity. *)
LEMMA RunningFields ==
  ASSUME NEW a \in Attempt
  PROVE  /\ Running(a) \in Attempt
         /\ Running(a).phase = "RUNNING"
         /\ Running(a).result = a.result
         /\ Running(a).identity = TRUE
BY DEF Attempt, Phases, Running

(* Terminated writes the reason and leaves the phase. *)
LEMMA TerminatedFields ==
  ASSUME NEW a \in Attempt, NEW t \in {"user_stopped", "timeout"}
  PROVE  /\ Terminated(a, t) \in Attempt
         /\ Terminated(a, t).phase = a.phase
         /\ Terminated(a, t).result = a.result
         /\ Terminated(a, t).identity = a.identity
BY DEF Attempt, Terminated

(* Resolved writes the result. *)
LEMMA ResolvedFields ==
  ASSUME NEW a \in Attempt, NEW x \in Results
  PROVE  /\ Resolved(a, x) \in Attempt
         /\ Resolved(a, x).identity = a.identity
         /\ Resolved(a, x).returncode = a.returncode
         /\ Resolved(a, x).termination = a.termination
BY DEF Attempt, Phases, Resolved

(* Finalized writes whether the history has the trial. *)
LEMMA FinalizedFields ==
  ASSUME NEW a \in Attempt, NEW u \in BOOLEAN
  PROVE  /\ Finalized(a, u) \in Attempt
         /\ Finalized(a, u).phase = "FINALIZED"
         /\ Finalized(a, u).result = a.result
         /\ Finalized(a, u).termination = a.termination
         /\ Finalized(a, u).upserted = u
BY DEF Attempt, Phases, Finalized

(* A commit of a result keeps what is known of the process. *)
LEMMA ResolvedRecord ==
  ASSUME TypeOK, NEW r \in Runners, NEW n \in Trials, NEW x \in Results,
         NEW f \in BOOLEAN, ResultReady(r, n, x, f)
  PROVE  /\ attempts'[n].identity = attempts[n].identity
         /\ attempts'[n].returncode = attempts[n].returncode
         /\ attempts'[n].termination = attempts[n].termination
         /\ sess'[r].finalizer = f
<1> DEFINE b == Resolved(attempts[n], x)
<1>1. /\ b \in Attempt
      /\ b.identity = attempts[n].identity
      /\ b.returncode = attempts[n].returncode
      /\ b.termination = attempts[n].termination
  <2>1. attempts[n] \in Attempt
    BY DEF TypeOK
  <2> QED BY <2>1, ResolvedFields
<1>2. Commit(n, b)
  BY DEF ResultReady
<1>3. attempts'[n] = b
  <2> HIDE DEF b
  <2> QED BY <1>1, <1>2, CommitEffect
<1>4. sess'[r].finalizer = f
  BY DEF ResultReady, TypeOK, Session
<1> HIDE DEF b
<1> QED BY <1>1, <1>3, <1>4

(* A step that writes on one trial keeps what is on record of the others. *)
LEMMA OneTrialWritten ==
  ASSUME SettledInv, NEW n \in Trials, TrialOnRecord(n)',
         \A m \in Trials \ {n} : /\ attempts'[m] = attempts[m]
                                 /\ trials'[m] = trials[m]
                                 /\ runState'[m] = runState[m]
                                 /\ history'[m] = history[m]
                                 /\ launches'[m] = launches[m]
  PROVE  \A m \in Trials : TrialOnRecord(m)'
BY DEF SettledInv, TrialOnRecord, RunStateFollows, HistoryFollows,
       TrainingOnRecord, TerminationOnRecord

(* study.json: what is told has been written to run_state.json before. *)
LEMMA StudyRecord ==
  ASSUME IInv, SettledInv, NEW r \in Runners, StudyWrite(r)
  PROVE  \A n \in Trials : TrialOnRecord(n)'
<1> USE DEF IInv
<1>0. UNCHANGED <<attempts, runState, history, launches>>
  BY StudyEffect
<1>1. CASE Ask(r)
  <2>1. CASE TailPending
    BY <1>0, <1>1, <2>1
    DEF Ask, SettledInv, TrialOnRecord, RunStateFollows, HistoryFollows,
        TrainingOnRecord, TerminationOnRecord
  <2>2. CASE ~TailPending
    <3>1. \A n \in Trials : attempts[n].phase # "RESULT_READY"
      BY <1>1 DEF Ask, Current
    <3> QED BY <1>0, <3>1
            DEF SettledInv, TrialOnRecord, RunStateFollows, HistoryFollows,
                TrainingOnRecord, TerminationOnRecord
  <2> QED BY <2>1, <2>2
<1>2. CASE RejectCandidate(r)
  <2>1. PICK n \in Trials : /\ attempts[n].phase = "NONE"
                            /\ trials' = [trials EXCEPT ![n] = InvalidParams]
    BY <1>2 DEF RejectCandidate, SessionsKnow, SessionKnows, At
  <2>2. TrialOnRecord(n)'
    <3>1. TrialOnRecord(n)
      BY DEF SettledInv
    <3> QED BY <1>0, <2>1, <3>1
    DEF TrialOnRecord, RunStateFollows, HistoryFollows,
        TrainingOnRecord, TerminationOnRecord
  <2>3. \A m \in Trials \ {n} : trials'[m] = trials[m]
    BY <2>1 DEF TypeOK
  <2> QED BY <1>0, <2>1, <2>2, <2>3, OneTrialWritten
<1>3. CASE Tell(r)
  <2>1. PICK n \in Current : /\ At(r, "tell")
                             /\ \A m \in Trials \ {n} : trials'[m] = trials[m]
    BY <1>3 DEF Tell, TypeOK
  <2>2. n \in Trials /\ runState[n] = RunStatusOf(attempts[n].result)
    BY <2>1 DEF SettledInv, CommitKnows, At, Current
  <2>3. TrialOnRecord(n)'
    BY <1>0, <2>2
    DEF SettledInv, TrialOnRecord, RunStateFollows, HistoryFollows,
        TrainingOnRecord, TerminationOnRecord
  <2> QED BY <1>0, <2>1, <2>2, <2>3, OneTrialWritten
<1> QED BY <1>1, <1>2, <1>3 DEF StudyWrite

(* run_state.json: only the result of an attempt is written once its       *)
(* result is ready.                                                        *)
LEMMA RunStateRecord ==
  ASSUME IInv, SettledInv, NEW r \in Runners, RunStateWrite(r)
  PROVE  \A n \in Trials : TrialOnRecord(n)'
<1> USE DEF IInv
<1>0. UNCHANGED <<attempts, trials, history, launches>>
  BY RunStateEffect
  DEF RunStateWrite, WriteStarting, WriteRunning, WriteStopping, WriteTerminal
<1>1. PICK n \in Trials :
             /\ \A m \in Trials \ {n} : runState'[m] = runState[m]
             /\ \/ attempts[n].phase \in {"NONE", "RUNNING"}
                \/ runState'[n] = RunStatusOf(attempts[n].result)
  <2>1. CASE WriteStarting(r)
    BY <2>1 DEF WriteStarting, SessionsKnow, SessionKnows, At, TypeOK
  <2>2. CASE WriteRunning(r)
    <3>1. PICK n \in Current : WriteRunning(r)!(n)
      BY <2>2 DEF WriteRunning
    <3>2. attempts[n].phase = "RUNNING"
      BY <3>1, OpenPhase DEF PhasesAt
    <3> QED BY <3>1, <3>2 DEF TypeOK, Current
  <2>3. CASE WriteStopping(r)
    <3>1. PICK n \in Current : WriteStopping(r)!(n)
      BY <2>3 DEF WriteStopping
    <3>2. attempts[n].phase = "RUNNING"
      BY <3>1, OpenPhase DEF PhasesAt
    <3> QED BY <3>1, <3>2 DEF TypeOK, Current
  <2>4. CASE WriteTerminal(r)
    BY <2>4 DEF WriteTerminal, TypeOK, Current
  <2> QED BY <2>1, <2>2, <2>3, <2>4 DEF RunStateWrite
<1>2. TrialOnRecord(n)'
  BY <1>0, <1>1
  DEF SettledInv, TrialOnRecord, RunStateFollows, HistoryFollows,
      TrainingOnRecord, TerminationOnRecord
<1> QED BY <1>0, <1>1, <1>2, OneTrialWritten

(* The history: the finalizer upserts the told result. *)
LEMMA HistoryRecord ==
  ASSUME IInv, SettledInv, NEW r \in Runners, RunFinalizer(r)
  PROVE  \A n \in Trials : TrialOnRecord(n)'
<1> USE DEF IInv
<1>0. UNCHANGED <<attempts, trials, runState, launches>>
  BY DEF RunFinalizer
<1>1. PICK n \in Current :
             /\ At(r, "finalizer")
             /\ history' = [history EXCEPT ![n] = RunStatusOf(attempts[n].result)]
  BY DEF RunFinalizer
<1>2. attempts[n].phase = "TOLD" /\ n \in Trials
  BY <1>1, OpenPhase DEF PhasesAt, Current
<1>3. TrialOnRecord(n)'
  BY <1>0, <1>1, <1>2
  DEF SettledInv, TrialOnRecord, RunStateFollows, HistoryFollows,
      TrainingOnRecord, TerminationOnRecord, TypeOK
<1> QED BY <1>0, <1>1, <1>2, <1>3, OneTrialWritten DEF TypeOK

(* The process: one is only created before anything is on record of it. *)
LEMMA ProcessRecord ==
  ASSUME IInv, SettledInv,
         \/ \E r \in Runners : ProcessWrite(r)
         \/ \E n \in Trials : ProcessExits(n)
  PROVE  \A n \in Trials : TrialOnRecord(n)'
<1> USE DEF IInv
<1>0. UNCHANGED <<attempts, trials, runState, history>>
  BY ProcessEffect
<1>1. CASE launches' = launches
  BY <1>0, <1>1
  DEF SettledInv, TrialOnRecord, RunStateFollows, HistoryFollows,
      TrainingOnRecord, TerminationOnRecord
<1>2. ASSUME NEW n \in Trials, Created(n) PROVE \A m \in Trials : TrialOnRecord(m)'
  <2>1. attempts[n].phase = "LAUNCH_INTENT" /\ attempts[n].result = NoResult
    BY <1>2 DEF Created, PhaseBoundsFiles
  <2>2. TrialOnRecord(n)'
    BY <1>0, <2>1, ResultsDistinct
    DEF SettledInv, TrialOnRecord, RunStateFollows, HistoryFollows,
        TrainingOnRecord, TerminationOnRecord
  <2> QED BY <1>0, <1>2, <2>2, OneTrialWritten DEF Created, TypeOK
<1> QED BY <1>1, <1>2, ProcessEffect DEF Ended

(* The commits of _launch_new and _monitor, before there is a result. *)
LEMMA OpenRecord ==
  ASSUME IInv, SettledInv, NEW n \in Trials,
         attempts[n].phase \in {"NONE", "PREPARED", "LAUNCH_INTENT", "RUNNING"},
         UNCHANGED <<trials, runState, history, launches>>,
         \A m \in Trials \ {n} : attempts'[m] = attempts[m],
         attempts'[n].result = NoResult,
         \/ /\ attempts'[n].phase \in {"PREPARED", "LAUNCH_INTENT"}
            /\ attempts'[n].termination = "none"
         \/ attempts'[n].phase = "RUNNING" /\ attempts'[n].identity
         \/ attempts'[n].phase = "EXITED" /\ attempts'[n].returncode # "none"
  PROVE  \A m \in Trials : TrialOnRecord(m)'
<1>1. TrialOnRecord(n)
  BY DEF SettledInv
<1>2. history'[n] = "none"
  BY <1>1 DEF TrialOnRecord, HistoryFollows
<1>3. RunStateFollows(n)' /\ HistoryFollows(n)'
  BY <1>2 DEF RunStateFollows, HistoryFollows
<1>4. TrainingOnRecord(n)'
  BY DEF TrainingOnRecord
<1>5. TerminationOnRecord(n)'
  BY ResultsDistinct DEF TerminationOnRecord
<1>6. TrialOnRecord(n)'
  BY <1>3, <1>4, <1>5 DEF TrialOnRecord
<1> QED BY <1>6, OneTrialWritten

(* A result is committed: it agrees with the termination on record, and    *)
(* what proves the process is kept.                                        *)
LEMMA ResolveRecord ==
  ASSUME IInv, SettledInv, NEW r \in Runners, NEW n \in Trials,
         NEW x \in Results, NEW f \in BOOLEAN, ResultReady(r, n, x, f),
         attempts[n].phase \in {"PREPARED", "RUNNING", "EXITED"},
         attempts[n].termination # "none" => x \in {Cancelled, TimedOut, Interrupted},
         x = Cancelled /\ launches[n] > 0 => attempts[n].termination = "user_stopped"
  PROVE  \A m \in Trials : TrialOnRecord(m)'
<1> USE DEF IInv
<1>0. /\ UNCHANGED <<trials, runState, history, launches>>
      /\ \A m \in Trials \ {n} : attempts'[m] = attempts[m]
      /\ attempts'[n].phase = "RESULT_READY"
      /\ attempts'[n].result = x
      /\ attempts'[n].identity = attempts[n].identity
      /\ attempts'[n].returncode = attempts[n].returncode
      /\ attempts'[n].termination = attempts[n].termination
  BY ResultReadyEffect, ResolvedRecord
<1>1. TrialOnRecord(n)
  BY DEF SettledInv
<1>2. trials[n] = Pending
  BY DEF PhaseBoundsFiles
<1>3. RunStateFollows(n)'
  BY <1>0, <1>2 DEF RunStateFollows
<1>4. HistoryFollows(n)'
  BY <1>0, <1>1 DEF TrialOnRecord, HistoryFollows
<1>5. TrainingOnRecord(n)'
  BY <1>0, <1>1 DEF TrialOnRecord, TrainingOnRecord, PhaseBoundsProcess
<1>6. TerminationOnRecord(n)'
  BY <1>0 DEF TerminationOnRecord
<1>7. TrialOnRecord(n)'
  BY <1>3, <1>4, <1>5, <1>6 DEF TrialOnRecord
<1> QED BY <1>0, <1>7, OneTrialWritten

(* A commit that only moves the phase keeps every other field. *)
LEMMA PhaseCommit ==
  ASSUME TypeOK, NEW n \in Trials, NEW p \in Phases,
         Commit(n, InPhase(attempts[n], p))
  PROVE  /\ attempts'[n].phase = p
         /\ attempts'[n].result = attempts[n].result
         /\ attempts'[n].identity = attempts[n].identity
         /\ attempts'[n].returncode = attempts[n].returncode
         /\ attempts'[n].termination = attempts[n].termination
         /\ \A m \in Trials \ {n} : attempts'[m] = attempts[m]
<1> DEFINE b == InPhase(attempts[n], p)
<1>1. attempts[n] \in Attempt
  BY DEF TypeOK
<1>2. b \in Attempt /\ b.phase = p /\ b.result = attempts[n].result
  BY <1>1, PhaseFields
<1>3. /\ b.identity = attempts[n].identity
      /\ b.returncode = attempts[n].returncode
      /\ b.termination = attempts[n].termination
  BY <1>1, PhaseFields
<1> HIDE DEF b
<1>4. attempts'[n] = b /\ \A m \in Trials \ {n} : attempts'[m] = attempts[m]
  BY <1>2, CommitEffect DEF b
<1> QED BY <1>2, <1>3, <1>4

(* execution.json: no commit takes from the record what a replay needs. *)
LEMMA AttemptRecord ==
  ASSUME IInv, SettledInv, NEW r \in Runners, AttemptWrite(r)
  PROVE  \A n \in Trials : TrialOnRecord(n)'
<1> USE DEF IInv
<1>0. UNCHANGED <<trials, runState, history, launches>>
  BY AttemptEffect
<1>1. \A n \in Trials : attempts[n] \in Attempt
  BY DEF TypeOK
<1>2. CASE CommitPrepared(r)
  <2>1. PICK n \in Trials : /\ attempts[n].phase = "NONE"
                            /\ Commit(n, InPhase(NoAttempt, "PREPARED"))
    BY <1>2 DEF CommitPrepared, SessionsKnow, SessionKnows, At
  <2>2. /\ InPhase(NoAttempt, "PREPARED") \in Attempt
        /\ InPhase(NoAttempt, "PREPARED").phase = "PREPARED"
        /\ InPhase(NoAttempt, "PREPARED").result = NoResult
        /\ InPhase(NoAttempt, "PREPARED").termination = "none"
    BY NoAttemptType, AttemptUpdates DEF Phases, InPhase, NoAttempt
  <2> QED BY <1>0, <2>1, <2>2, CommitEffect, OpenRecord
<1>3. CASE CommitIntent(r)
  <2>1. PICK n \in Trials : /\ attempts[n].phase = "PREPARED"
                            /\ Commit(n, InPhase(attempts[n], "LAUNCH_INTENT"))
    BY <1>3 DEF CommitIntent, Driving
  <2>2. attempts[n].termination = "none" /\ attempts[n].result = NoResult
    BY <2>1 DEF SettledInv, TrialOnRecord, TerminationOnRecord, PhaseBoundsFiles
  <2> QED BY <1>0, <2>1, <2>2, PhaseCommit, OpenRecord DEF Phases
<1>4. CASE LaunchFails(r) \/ CommitShortLived(r) \/ ObserveExit(r)
  <2>1. PICK n \in Current, c \in {"zero", "nonzero"} :
               /\ At(r, "spawn") \/ At(r, "adopt") \/ At(r, "monitor")
               /\ Commit(n, Exited(attempts[n], c))
    BY <1>4 DEF LaunchFails, CommitShortLived, ObserveExit
  <2>2. n \in Trials /\ attempts[n].phase \in {"LAUNCH_INTENT", "RUNNING"}
    BY <2>1, OpenPhase DEF PhasesAt, Current
  <2>3. attempts[n].result = NoResult
    BY <2>2 DEF PhaseBoundsFiles
  <2>4. /\ Exited(attempts[n], c) \in Attempt
        /\ Exited(attempts[n], c).phase = "EXITED"
        /\ Exited(attempts[n], c).result = NoResult
        /\ Exited(attempts[n], c).returncode = c
    BY <1>1, <2>2, <2>3, ExitedFields
  <2> QED BY <1>0, <2>1, <2>2, <2>4, CommitEffect, OpenRecord
<1>5. CASE CommitRunning(r)
  <2>1. PICK n \in Current : /\ At(r, "adopt")
                             /\ Commit(n, Running(attempts[n]))
    BY <1>5 DEF CommitRunning
  <2>2. n \in Trials /\ attempts[n].phase = "LAUNCH_INTENT"
    BY <2>1, OpenPhase DEF PhasesAt, Current
  <2>3. attempts[n].result = NoResult
    BY <2>2 DEF PhaseBoundsFiles
  <2>4. /\ Running(attempts[n]) \in Attempt
        /\ Running(attempts[n]).phase = "RUNNING"
        /\ Running(attempts[n]).result = NoResult
        /\ Running(attempts[n]).identity = TRUE
    BY <1>1, <2>2, <2>3, RunningFields
  <2>5. /\ attempts'[n] = Running(attempts[n])
        /\ \A m \in Trials \ {n} : attempts'[m] = attempts[m]
    BY <2>1, <2>2, <2>4, CommitEffect
  <2> QED BY <1>0, <2>2, <2>4, <2>5, OpenRecord
<1>6. CASE CommitTermination(r)
  <2>1. PICK n \in Current, reason \in {"user_stopped", "timeout"} :
               At(r, "monitor") /\ Commit(n, Terminated(attempts[n], reason))
    BY <1>6 DEF CommitTermination
  <2>2. n \in Trials /\ attempts[n].phase = "RUNNING"
    BY <2>1, OpenPhase DEF PhasesAt, Current
  <2>3. attempts[n].result = NoResult /\ attempts[n].identity
    BY <2>2 DEF PhaseBoundsFiles, SettledInv, TrialOnRecord, TrainingOnRecord
  <2>4. /\ Terminated(attempts[n], reason) \in Attempt
        /\ Terminated(attempts[n], reason).phase = "RUNNING"
        /\ Terminated(attempts[n], reason).result = NoResult
        /\ Terminated(attempts[n], reason).identity = attempts[n].identity
    BY <1>1, <2>2, <2>3, TerminatedFields
  <2>5. /\ attempts'[n] = Terminated(attempts[n], reason)
        /\ \A m \in Trials \ {n} : attempts'[m] = attempts[m]
    BY <2>1, <2>2, <2>4, CommitEffect
  <2> QED BY <1>0, <2>2, <2>3, <2>4, <2>5, OpenRecord
<1>7. CASE CancelBeforeLaunch(r)
  <2>1. PICK n \in Trials : /\ attempts[n].phase = "PREPARED"
                            /\ ResultReady(r, n, Cancelled, FALSE)
    BY <1>7 DEF CancelBeforeLaunch, Driving
  <2>2. attempts[n].termination = "none" /\ ~(launches[n] > 0)
    BY <2>1
    DEF SettledInv, TrialOnRecord, TerminationOnRecord, PhaseBoundsProcess
  <2> QED BY <2>1, <2>2, ResolveRecord, ResultsDistinct
<1>8. CASE RecordLaunchFailure(r)
  <2>1. PICK n \in Current : /\ At(r, "launchFailed")
                             /\ ResultReady(r, n, TrainingFailed, FALSE)
    BY <1>8 DEF RecordLaunchFailure
  <2>2. n \in Trials /\ attempts[n].phase = "EXITED"
    BY <2>1, OpenPhase DEF PhasesAt, Current
  <2>3. attempts[n].termination = "none" /\ ~(launches[n] > 0)
    BY <2>1 DEF SettledInv, CommitKnows
  <2> QED BY <2>1, <2>2, <2>3, ResolveRecord, ResultsDistinct
<1>9. CASE Decide(r)
  <2>0. PICK n \in Current : \E y \in DecidedResults(attempts[n]) :
               /\ At(r, "decide") \/ Driving(r, n, "EXITED")
               /\ ResultReady(r, n, y, TRUE)
    BY <1>9 DEF Decide
  <2>1. PICK x \in DecidedResults(attempts[n]) :
               /\ At(r, "decide") \/ Driving(r, n, "EXITED")
               /\ ResultReady(r, n, x, TRUE)
    BY <2>0
  <2>2. n \in Trials /\ attempts[n].phase = "EXITED"
    BY <2>1, OpenPhase DEF PhasesAt, Driving, Current
  <2>3. /\ x \in Results
        /\ attempts[n].termination # "none" => x \in {Cancelled, TimedOut}
        /\ x = Cancelled => attempts[n].termination = "user_stopped"
    <3>1. attempts[n].termination \in {"none", "user_stopped", "timeout"}
      BY <1>1, <2>2 DEF Attempt
    <3> QED BY <2>1, <3>1
            DEF DecidedResults, Collected, Results, Success, InvalidParams,
                TrainingFailed, TimedOut, Cancelled, Result
  <2> QED BY <2>1, <2>2, <2>3, ResolveRecord
<1>10. CASE RecordInterrupted(r)
  <2>1. PICK n \in Trials : /\ attempts[n].phase = "RUNNING"
                            /\ ResultReady(r, n, Interrupted, TRUE)
    BY <1>10 DEF RecordInterrupted, Driving
  <2>2. Interrupted # Cancelled /\ Interrupted \in Results
    BY DEF Interrupted, Cancelled, Result, Results
  <2> QED BY <2>1, <2>2, ResolveRecord
<1>11. CASE CommitTold(r)
  <2>1. PICK n \in Current : /\ At(r, "told")
                             /\ Commit(n, InPhase(attempts[n], "TOLD"))
    BY <1>11 DEF CommitTold
  <2>2. /\ n \in Trials
        /\ attempts[n].phase \in {"RESULT_READY", "TOLD"}
        /\ runState[n] = RunStatusOf(attempts[n].result)
    BY <2>1, OpenPhase DEF PhasesAt, Current, SettledInv, CommitKnows, At
  <2>3. TrialOnRecord(n)
    BY <2>2 DEF SettledInv
  <2>4. TrialOnRecord(n)'
    <3>1. /\ attempts'[n].phase = "TOLD"
          /\ attempts'[n].result = attempts[n].result
          /\ attempts'[n].identity = attempts[n].identity
          /\ attempts'[n].returncode = attempts[n].returncode
          /\ attempts'[n].termination = attempts[n].termination
      BY <2>1, <2>2, PhaseCommit DEF Phases
    <3>2. RunStateFollows(n)' /\ HistoryFollows(n)'
      BY <1>0, <2>2, <2>3, <3>1 DEF TrialOnRecord, RunStateFollows, HistoryFollows
    <3>3. TrainingOnRecord(n)'
      BY <1>0, <2>2, <2>3, <3>1 DEF TrialOnRecord, TrainingOnRecord
    <3>4. TerminationOnRecord(n)'
      BY <1>0, <2>2, <2>3, <3>1 DEF TrialOnRecord, TerminationOnRecord
    <3> QED BY <3>2, <3>3, <3>4 DEF TrialOnRecord
  <2>5. \A m \in Trials \ {n} : attempts'[m] = attempts[m]
    BY <2>1, <2>2, PhaseCommit DEF Phases
  <2> QED BY <1>0, <2>2, <2>4, <2>5, OneTrialWritten
<1>12. CASE CommitFinalized(r)
  <2>1. PICK n \in Current :
               /\ At(r, "finalized")
               /\ Commit(n, Finalized(attempts[n], sess[r].finalizer))
    BY <1>12 DEF CommitFinalized
  <2> DEFINE f == sess[r].finalizer
             b == Finalized(attempts[n], f)
  <2>2. n \in Trials /\ attempts[n].phase = "TOLD" /\ f \in BOOLEAN
    BY <2>1, OpenPhase DEF PhasesAt, Current, TypeOK, Session
  <2>3. /\ launches[n] > 0 => f
        /\ f => history[n] # "none"
    BY <2>1 DEF SettledInv, CommitKnows, At
  <2>4. TrialOnRecord(n)
    BY <2>2 DEF SettledInv
  <2>5. /\ b \in Attempt /\ b.phase = "FINALIZED"
        /\ b.result = attempts[n].result
        /\ b.upserted = f
        /\ b.termination = attempts[n].termination
    <3> HIDE DEF f
    <3> QED BY <1>1, <2>2, FinalizedFields
  <2>6. attempts'[n] = b /\ \A m \in Trials \ {n} : attempts'[m] = attempts[m]
    <3>1. Commit(n, b)
      BY <2>1
    <3> HIDE DEF b
    <3> QED BY <2>2, <2>5, <3>1, CommitEffect
  <2> HIDE DEF f, b
  <2>7. TrialOnRecord(n)'
    <3>1. RunStateFollows(n)' /\ HistoryFollows(n)'
      BY <1>0, <2>2, <2>4, <2>5, <2>6
      DEF TrialOnRecord, RunStateFollows, HistoryFollows
    <3>2. TrainingOnRecord(n)'
      BY <1>0, <2>3, <2>5, <2>6 DEF TrainingOnRecord
    <3>3. TerminationOnRecord(n)'
      BY <1>0, <2>4, <2>5, <2>6 DEF TrialOnRecord, TerminationOnRecord
    <3> QED BY <3>1, <3>2, <3>3 DEF TrialOnRecord
  <2> QED BY <1>0, <2>2, <2>6, <2>7, OneTrialWritten
<1> QED BY <1>2, <1>3, <1>4, <1>5, <1>6, <1>7, <1>8, <1>9, <1>10, <1>11,
           <1>12 DEF AttemptWrite

(* Only the finalizer writes the history. *)
LEMMA HistoryWriters ==
  ASSUME Next
  PROVE  history' = history \/ \E r \in Runners : RunFinalizer(r)
<1>1. ASSUME NEW r \in Runners
      PROVE  Prepare(r) \/ Run(r) \/ Resume(r) \/ OpenSession(r) \/ Complete(r)
             \/ Pause(r) \/ StepFails(r) \/ Crash(r) \/ RequestStop(r)
             \/ Cleanup(r) => history' = history
  BY DEF Prepare, Run, Resume, Enter, OpenSession, Complete, Pause, Finish,
         StepFails, Crash, RequestStop, Cleanup
<1>2. ASSUME NEW r \in Runners PROVE Claiming(r) => history' = history
  BY DEF Claiming, Ask, RejectCandidate, MakeRunDir, RunDirExists, WriteStarting,
         CommitPrepared
<1>3. ASSUME NEW r \in Runners PROVE Launching(r) => history' = history
  BY DEF Launching, CancelBeforeLaunch, RefuseLaunch, CommitIntent, Launch,
         BlockAtLaunch, LaunchFails, RecordLaunchFailure, CommitRunning,
         CommitShortLived, StopUnidentified, BlockUnidentified, WriteRunning,
         ResultReady, Block
<1>4. ASSUME NEW r \in Runners PROVE Monitoring(r) => history' = history
  BY DEF Monitoring, ObserveExit, CommitTermination, WriteStopping, Terminate,
         BlockStillActive, Block
<1>5. ASSUME NEW r \in Runners PROVE Recovering(r) => history' = history
  BY DEF Recovering, Decide, BlockUnprovable, BlockMatch, BlockUnverifiable,
         RecordInterrupted, Replay, ResultReady, Block
<1>6. ASSUME NEW r \in Runners
      PROVE  Committing(r) => history' = history \/ RunFinalizer(r)
  BY DEF Committing, WriteTerminal, Tell, CommitTold, CommitFinalized
<1>7. ASSUME NEW n \in Trials PROVE ProcessExits(n) => history' = history
  BY DEF ProcessExits
<1> QED BY <1>1, <1>2, <1>3, <1>4, <1>5, <1>6, <1>7 DEF Next, SessionStep

(* Every step keeps what is on record of every trial. *)
LEMMA RecordStep ==
  ASSUME IInv, SettledInv, Next
  PROVE  \A n \in Trials : TrialOnRecord(n)'
<1>1. CASE Quiet /\ history' = history
  BY <1>1
  DEF Quiet, SettledInv, TrialOnRecord, RunStateFollows, HistoryFollows,
      TrainingOnRecord, TerminationOnRecord
<1> QED BY <1>1, Writers, HistoryWriters, HistoryRecord, StudyRecord,
           AttemptRecord, RunStateRecord, ProcessRecord

-----------------------------------------------------------------------------
(* What the session that commits a result knows. *)

KnowingLabels == {"launchFailed", "terminal", "tell", "told", "finalizer",
                  "finalized"}

(* At every other label a session relies on none of it. *)
LEMMA NothingToKnow ==
  ASSUME NEW r \in Runners, sess'[r].pc \notin KnowingLabels
  PROVE  CommitKnows(r)'
BY DEF KnowingLabels, CommitKnows, At

(* With one open attempt, what the session knows is about that attempt. *)
LEMMA KnowsTheOpenOne ==
  ASSUME IInv, Next, NEW r \in Runners, NEW n \in Trials,
         attempts'[n].phase \notin {"NONE", "FINALIZED"},
         /\ At(r, "launchFailed")' => /\ launches'[n] = 0
                                      /\ attempts'[n].termination = "none"
         /\ sess'[r].pc \in {"terminal", "tell", "told", "finalizer", "finalized"} =>
              (launches'[n] > 0 => sess'[r].finalizer)
         /\ sess'[r].pc \in {"tell", "told"} =>
              runState'[n] = RunStatusOf(attempts'[n].result)
         /\ At(r, "finalized")' => (sess'[r].finalizer => history'[n] # "none")
  PROVE  CommitKnows(r)'
<1>1. \A m \in Current' : m = n
  BY OneOpenAfter
<1> QED BY <1>1 DEF CommitKnows

(* A session that only moves on keeps its flags. *)
LEMMA GotoKeeps ==
  ASSUME TypeOK, NEW r \in Runners, NEW label \in Labels, Goto(r, label)
  PROVE  sess'[r].finalizer = sess[r].finalizer
BY DEF TypeOK, Goto, Session

(* After the first write of a result the session knows whether there was a *)
(* process.                                                                *)
LEMMA ResolvingKnows ==
  ASSUME IInv, Next, NEW r \in Runners, NEW n \in Trials, NEW x \in Results,
         NEW f \in BOOLEAN, ResultReady(r, n, x, f), launches[n] > 0 => f
  PROVE  CommitKnows(r)'
<1>1. TypeOK
  BY DEF IInv
<1>2. /\ attempts'[n].phase = "RESULT_READY" /\ sess'[r].pc = "terminal"
      /\ launches' = launches
  BY <1>1, ResultReadyEffect
<1>3. sess'[r].finalizer = f
  BY <1>1, ResolvedRecord
<1> QED BY <1>2, <1>3, KnowsTheOpenOne DEF At

(* The steps of a session that does not commit a result. *)
LEMMA OtherSteps ==
  ASSUME IInv, NEW r \in Runners,
         \/ OpenSession(r) \/ Complete(r) \/ Pause(r) \/ Cleanup(r)
         \/ StepFails(r) \/ Crash(r) \/ Claiming(r) \/ Monitoring(r)
         \/ RefuseLaunch(r) \/ CommitIntent(r) \/ Launch(r) \/ BlockAtLaunch(r)
         \/ CommitRunning(r) \/ CommitShortLived(r) \/ StopUnidentified(r)
         \/ BlockUnidentified(r) \/ WriteRunning(r)
         \/ BlockUnprovable(r) \/ BlockMatch(r) \/ BlockUnverifiable(r)
         \/ CommitFinalized(r)
  PROVE  sess'[r].pc \notin KnowingLabels
<1> USE DEF KnowingLabels
<1>0. TypeOK
  BY DEF IInv
<1>1. CASE OpenSession(r) \/ StepFails(r)
  BY <1>0, <1>1, GotoEffect DEF OpenSession, StepFails, Labels
<1>2. CASE Complete(r) \/ Pause(r) \/ Cleanup(r) \/ Crash(r)
  BY <1>0, <1>2, LeaveEffect DEF Complete, Pause, Finish, Cleanup, Crash
<1>3. CASE Claiming(r)
  BY <1>0, <1>3, GotoEffect
  DEF Claiming, Ask, RejectCandidate, MakeRunDir, RunDirExists, WriteStarting,
      CommitPrepared, Labels
<1>4. CASE Monitoring(r)
  BY <1>0, <1>4, GotoEffect
  DEF Monitoring, ObserveExit, CommitTermination, WriteStopping, Terminate,
      BlockStillActive, Block, Labels
<1>5. CASE RefuseLaunch(r) \/ CommitIntent(r) \/ BlockAtLaunch(r)
           \/ CommitRunning(r) \/ CommitShortLived(r)
  BY <1>0, <1>5, GotoEffect
  DEF RefuseLaunch, CommitIntent, BlockAtLaunch, CommitRunning,
      CommitShortLived, Labels
<1>6. CASE StopUnidentified(r) \/ BlockUnidentified(r) \/ WriteRunning(r)
           \/ BlockUnprovable(r) \/ BlockMatch(r) \/ BlockUnverifiable(r)
  BY <1>0, <1>6, GotoEffect
  DEF StopUnidentified, BlockUnidentified, WriteRunning, BlockUnprovable,
      BlockMatch, BlockUnverifiable, Block, Labels
<1>7. CASE Launch(r)
  BY <1>0, <1>7 DEF Launch, TypeOK, Session
<1>8. CASE CommitFinalized(r)
  BY <1>0, <1>8 DEF CommitFinalized, TypeOK, Session
<1> QED BY <1>1, <1>2, <1>3, <1>4, <1>5, <1>6, <1>7, <1>8

(* A launch that failed and the results of every path. *)
LEMMA DecidingKnows ==
  ASSUME IInv, SettledInv, Next, NEW r \in Runners,
         \/ CancelBeforeLaunch(r) \/ LaunchFails(r) \/ RecordLaunchFailure(r)
         \/ Decide(r) \/ RecordInterrupted(r) \/ Replay(r)
  PROVE  CommitKnows(r)'
<1>0. TypeOK /\ \A n \in Trials : attempts[n] \in Attempt
  BY DEF IInv, TypeOK
<1>1. CASE CancelBeforeLaunch(r)
  <2>1. PICK n \in Trials : /\ attempts[n].phase = "PREPARED"
                            /\ ResultReady(r, n, Cancelled, FALSE)
    BY <1>1 DEF CancelBeforeLaunch, Driving
  <2>2. ~(launches[n] > 0)
    BY <2>1 DEF IInv, PhaseBoundsProcess
  <2> QED BY <2>1, <2>2, ResolvingKnows, ResultsDistinct
<1>2. CASE RecordLaunchFailure(r)
  <2>1. PICK n \in Current : /\ At(r, "launchFailed")
                             /\ ResultReady(r, n, TrainingFailed, FALSE)
    BY <1>2 DEF RecordLaunchFailure
  <2>2. n \in Trials /\ ~(launches[n] > 0)
    BY <2>1 DEF SettledInv, CommitKnows, Current
  <2> QED BY <2>1, <2>2, ResolvingKnows, ResultsDistinct
<1>3. CASE Decide(r)
  <2>1. \A n \in Trials : DecidedResults(attempts[n]) \subseteq Results
    BY ResultsDistinct DEF DecidedResults, Collected
  <2>2. PICK n \in Trials, x \in Results : ResultReady(r, n, x, TRUE)
    BY <1>3, <2>1 DEF Decide, Current
  <2> QED BY <2>2, ResolvingKnows
<1>4. CASE RecordInterrupted(r)
  BY <1>4, ResolvingKnows, ResultsDistinct DEF RecordInterrupted
<1>5. CASE LaunchFails(r)
  <2>1. PICK n \in Current : /\ At(r, "spawn")
                             /\ Commit(n, Exited(attempts[n], "nonzero"))
                             /\ Goto(r, "launchFailed")
                             /\ launches' = launches
    BY <1>5 DEF LaunchFails
  <2>2. /\ n \in Trials
        /\ attempts[n].phase = "LAUNCH_INTENT"
        /\ launches[n] = 0
    BY <2>1, OpenPhase
    DEF IInv, PhasesAt, SessionsKnow, SessionKnows, At, Current
  <2>3. attempts[n].termination = "none"
    BY <2>2 DEF SettledInv, TrialOnRecord, TerminationOnRecord
  <2>4. /\ Exited(attempts[n], "nonzero") \in Attempt
        /\ Exited(attempts[n], "nonzero").phase = "EXITED"
        /\ Exited(attempts[n], "nonzero").termination = attempts[n].termination
    BY <1>0, <2>2, ExitedFields DEF Attempt, Exited
  <2>5. /\ attempts'[n].phase = "EXITED"
        /\ attempts'[n].termination = "none"
    BY <1>0, <2>1, <2>2, <2>3, <2>4, CommitEffect
  <2>6. sess'[r].pc = "launchFailed"
    BY <1>0, <2>1, GotoEffect DEF Labels
  <2> QED BY <2>1, <2>2, <2>5, <2>6, KnowsTheOpenOne DEF At
<1>6. CASE Replay(r)
  <2>1. PICK n \in Current :
               /\ attempts[n].phase \in {"RESULT_READY", "TOLD"}
               /\ sess' = [sess EXCEPT ![r].pc = "terminal", ![r].replay = TRUE,
                             ![r].finalizer = \/ attempts[n].identity
                                              \/ attempts[n].returncode # "none"]
               /\ UNCHANGED <<attempts, launches>>
    BY <1>6 DEF Replay, Driving
  <2>2. n \in Trials
    BY <2>1 DEF Current
  <2>3. launches[n] > 0 => \/ attempts[n].identity
                           \/ attempts[n].returncode # "none"
    BY <2>1, <2>2 DEF SettledInv, TrialOnRecord, TrainingOnRecord
  <2>4. /\ sess'[r].pc = "terminal"
        /\ sess'[r].finalizer = (\/ attempts[n].identity
                                 \/ attempts[n].returncode # "none")
    BY <1>0, <2>1 DEF TypeOK, Session
  <2> QED BY <2>1, <2>2, <2>3, <2>4, KnowsTheOpenOne DEF At
<1> QED BY <1>1, <1>2, <1>3, <1>4, <1>5, <1>6

(* The tail of _commit_result. *)
LEMMA TellingKnows ==
  ASSUME IInv, SettledInv, Next, NEW r \in Runners,
         WriteTerminal(r) \/ Tell(r) \/ CommitTold(r) \/ RunFinalizer(r)
  PROVE  CommitKnows(r)'
<1>0. TypeOK /\ \A n \in Trials : attempts[n] \in Attempt
  BY DEF IInv, TypeOK
<1>1. CASE WriteTerminal(r)
  <2>1. PICK n \in Current :
               /\ At(r, "terminal")
               /\ runState' = [runState EXCEPT
                                 ![n] = RunStatusOf(attempts[n].result)]
               /\ Goto(r, "tell")
               /\ UNCHANGED <<attempts, launches>>
    BY <1>1 DEF WriteTerminal
  <2>2. n \in Trials /\ attempts[n].phase \in {"RESULT_READY", "TOLD"}
    BY <2>1, OpenPhase DEF IInv, PhasesAt, Current
  <2>3. sess'[r].pc = "tell" /\ sess'[r].finalizer = sess[r].finalizer
    BY <1>0, <2>1, GotoEffect, GotoKeeps DEF Labels
  <2>4. launches[n] > 0 => sess[r].finalizer
    BY <2>1 DEF SettledInv, CommitKnows, At
  <2>5. runState'[n] = RunStatusOf(attempts[n].result)
    BY <1>0, <2>1, <2>2 DEF TypeOK
  <2> QED BY <2>1, <2>2, <2>3, <2>4, <2>5, KnowsTheOpenOne DEF At
<1>2. CASE Tell(r)
  <2>1. PICK n \in Current :
               /\ At(r, "tell")
               /\ \/ Goto(r, "told")
                  \/ Goto(r, "cleanup")
               /\ UNCHANGED <<attempts, launches, runState>>
    BY <1>2 DEF Tell
  <2>2. n \in Trials /\ attempts[n].phase \in {"RESULT_READY", "TOLD"}
    BY <2>1, OpenPhase DEF IInv, PhasesAt, Current
  <2>3. /\ sess'[r].pc \in {"told", "cleanup"}
        /\ sess'[r].finalizer = sess[r].finalizer
    BY <1>0, <2>1, GotoEffect, GotoKeeps DEF Labels
  <2>4. /\ launches[n] > 0 => sess[r].finalizer
        /\ runState[n] = RunStatusOf(attempts[n].result)
    BY <2>1 DEF SettledInv, CommitKnows, At
  <2> QED BY <2>1, <2>2, <2>3, <2>4, KnowsTheOpenOne DEF At
<1>3. CASE CommitTold(r)
  <2>1. PICK n \in Current :
               /\ At(r, "told")
               /\ Commit(n, InPhase(attempts[n], "TOLD"))
               /\ Goto(r, IF sess[r].finalizer THEN "finalizer" ELSE "finalized")
               /\ UNCHANGED <<launches, history>>
    BY <1>3 DEF CommitTold
  <2>2. n \in Trials /\ attempts'[n].phase = "TOLD"
    BY <1>0, <2>1, PhaseCommit DEF Phases, Current
  <2>3. CASE sess[r].finalizer
    <3>1. sess'[r].pc = "finalizer" /\ sess'[r].finalizer
      BY <1>0, <2>1, <2>3, GotoEffect, GotoKeeps DEF Labels
    <3> QED BY <2>2, <3>1, KnowsTheOpenOne DEF At
  <2>4. CASE ~sess[r].finalizer
    <3>1. sess'[r].pc = "finalized" /\ ~sess'[r].finalizer
      BY <1>0, <2>1, <2>4, GotoEffect, GotoKeeps DEF Labels
    <3>2. ~(launches[n] > 0)
      BY <2>1, <2>4 DEF SettledInv, CommitKnows, At
    <3> QED BY <2>1, <2>2, <3>1, <3>2, KnowsTheOpenOne DEF At
  <2> QED BY <2>3, <2>4
<1>4. CASE RunFinalizer(r)
  <2>1. PICK n \in Current :
               /\ At(r, "finalizer")
               /\ history' = [history EXCEPT
                                ![n] = RunStatusOf(attempts[n].result)]
               /\ Goto(r, "finalized")
               /\ UNCHANGED <<attempts, launches>>
    BY <1>4 DEF RunFinalizer
  <2>2. n \in Trials /\ attempts[n].phase = "TOLD"
    BY <2>1, OpenPhase DEF IInv, PhasesAt, Current
  <2>3. sess'[r].pc = "finalized" /\ sess'[r].finalizer = sess[r].finalizer
    BY <1>0, <2>1, GotoEffect, GotoKeeps DEF Labels
  <2>4. launches[n] > 0 => sess[r].finalizer
    BY <2>1 DEF SettledInv, CommitKnows, At
  <2>5. history'[n] # "none"
    BY <1>0, <2>1, <2>2, RunStatusType DEF TypeOK, TerminalRunStates
  <2> QED BY <2>1, <2>2, <2>3, <2>4, <2>5, KnowsTheOpenOne DEF At
<1> QED BY <1>1, <1>2, <1>3, <1>4

(* No step falsifies what a committing session knows. *)
LEMMA CommitKnowsStep ==
  ASSUME IInv, SettledInv, Next
  PROVE  \A r \in Runners : CommitKnows(r)'
<1>0. TypeOK /\ LockHeld
  BY DEF IInv
<1>1. ASSUME NEW r \in Runners, Prepare(r)
      PROVE  \A q \in Runners : CommitKnows(q)'
  BY <1>1 DEF Prepare, SettledInv, CommitKnows, Current, At
<1>2. ASSUME NEW r \in Runners, Run(r) \/ Resume(r)
      PROVE  \A q \in Runners : CommitKnows(q)'
  <2>1. holder = NoRunner /\ sess' = [sess EXCEPT ![r].pc = "open"]
    BY <1>2 DEF Run, Resume, Enter
  <2>2. \A q \in Runners : sess[q].pc = "idle"
    BY <1>0, <2>1, RunnerAssumption DEF LockHeld, At
  <2>3. \A q \in Runners : sess'[q].pc \in {"open", "idle"}
    BY <1>0, <2>1, <2>2 DEF TypeOK
  <2> QED BY <2>3, NothingToKnow DEF KnowingLabels
<1>3. ASSUME NEW r \in Runners,
             SessionStep(r) \/ StepFails(r) \/ Crash(r) \/ RequestStop(r)
      PROVE  \A q \in Runners : CommitKnows(q)'
  <2>1. ASSUME NEW q \in Runners \ {r} PROVE CommitKnows(q)'
    <3>1. sess'[q].pc = "idle"
      BY <1>0, <1>3, SessionMoves, OthersIdle DEF At
    <3> QED BY <3>1, NothingToKnow DEF KnowingLabels
  <2>2. CASE RequestStop(r)
    <3>1. sess'[r].pc = sess[r].pc /\ sess'[r].finalizer = sess[r].finalizer
      BY <1>0, <2>2 DEF RequestStop, TypeOK, Session
    <3>2. UNCHANGED <<attempts, launches, runState, history>>
      BY <2>2 DEF RequestStop
    <3>3. CommitKnows(r)
      BY DEF SettledInv
    <3>4. CommitKnows(r)'
      BY <3>1, <3>2, <3>3 DEF CommitKnows, Current, At
    <3> QED BY <2>1, <3>4
  <2>3. CASE ~RequestStop(r)
    <3>1. CommitKnows(r)'
      BY <1>3, <2>3, OtherSteps, NothingToKnow, DecidingKnows, TellingKnows
      DEF SessionStep, Launching, Recovering, Committing
    <3> QED BY <2>1, <3>1
  <2> QED BY <2>2, <2>3
<1>4. ASSUME NEW n \in Trials, ProcessExits(n)
      PROVE  \A q \in Runners : CommitKnows(q)'
  BY <1>4 DEF ProcessExits, SettledInv, CommitKnows, Current, At
<1> QED BY <1>1, <1>2, <1>3, <1>4 DEF Next

-----------------------------------------------------------------------------
(* The theorem. *)

(* A fresh study has nothing on record. *)
LEMMA InitSettled ==
  ASSUME Init
  PROVE  SettledInv
<1>1. \A n \in Trials : /\ attempts[n].phase = "NONE"
                        /\ attempts[n].termination = "none"
                        /\ attempts[n].result = NoResult
                        /\ history[n] = "none"
  BY DEF Init, NoAttempt
<1>2. \A n \in Trials : TrialOnRecord(n)
  BY <1>1, ResultsDistinct
  DEF TrialOnRecord, RunStateFollows, HistoryFollows, TrainingOnRecord,
      TerminationOnRecord
<1>3. Current = {}
  BY <1>1 DEF Current
<1> QED BY <1>2, <1>3 DEF SettledInv, CommitKnows

(* Both invariants together are inductive. *)
LEMMA NextSettled ==
  ASSUME IInv, SettledInv, [Next]_vars
  PROVE  SettledInv'
<1>1. CASE Next
  BY <1>1, RecordStep, CommitKnowsStep DEF SettledInv
<1>2. CASE UNCHANGED vars
  BY <1>2
  DEF vars, SettledInv, TrialOnRecord, RunStateFollows, HistoryFollows,
      TrainingOnRecord, TerminationOnRecord, CommitKnows, Current, At
<1> QED BY <1>1, <1>2

(* The run state and the history follow from the phase of the attempt. *)
LEMMA SettledFollows ==
  ASSUME IInv, SettledInv
  PROVE  SettledIsTrue
<1> USE DEF IInv
<1>1. TerminalFactsAgree
  <2> SUFFICES ASSUME NEW n \in Trials, attempts[n].phase # "NONE",
                      trials[n] \in Results
               PROVE  /\ runState[n] = RunStatusOf(trials[n])
                      /\ history[n] \in {"none", RunStatusOf(trials[n])}
    BY DEF TerminalFactsAgree
  <2>1. attempts[n].phase \in {"RESULT_READY", "TOLD", "FINALIZED"}
    BY ResultsDistinct DEF PhaseBoundsFiles, TypeOK, Attempt, Phases
  <2>2. trials[n] = attempts[n].result /\ trials[n] # Pending
    BY <2>1, ResultsDistinct DEF PhaseBoundsFiles
  <2> QED BY <2>1, <2>2 DEF SettledInv, TrialOnRecord, RunStateFollows,
                            HistoryFollows
<1>2. EveryTrainingIsRecorded
  BY DEF SettledInv, TrialOnRecord, TrainingOnRecord, EveryTrainingIsRecorded
<1>3. TerminationDecides
  BY DEF SettledInv, TrialOnRecord, TerminationOnRecord, TerminationDecides
<1> QED BY <1>1, <1>2, <1>3 DEF SettledIsTrue

(* A trial that is settled has one outcome in study.json, run_state.json   *)
(* and the history, a closed training is in the history, and what a stop   *)
(* or a timeout ended is no success: whichever session, crash or replay    *)
(* wrote the last of them (_commit_result, _replay, _reconcile_running).   *)
THEOREM SettledStaysTrue == Spec => []SettledIsTrue
<1>1. Init => IInv /\ SettledInv
  BY InitIInv, InitSettled
<1>2. (IInv /\ SettledInv) /\ [Next]_vars => (IInv /\ SettledInv)'
  BY NextIInv, NextSettled
<1>3. IInv /\ SettledInv => SettledIsTrue
  BY SettledFollows
<1> QED BY <1>1, <1>2, <1>3, PTL DEF Spec

-----------------------------------------------------------------------------
(* The executor keeps to the course the page is shown.  SessionIsShown is  *)
(* inductive on top of IInv; with it every write of a status is a step of  *)
(* the course, and every write of study.json is one of a running study.    *)

(* The page tells a settled trial from an open one and from none. *)
LEMMA ShownStates ==
  ASSUME NEW x \in Results \cup {Pending, Unclaimed}
  PROVE  /\ ShownState(x) \in Course!Outcomes <=> x \in Results
         /\ ShownState(x) = "PENDING" <=> x = Pending
         /\ ShownState(x) = "UNCLAIMED" <=> x = Unclaimed
BY DEF ShownState, Course!Outcomes, Results, Success, InvalidParams,
       TrainingFailed, TimedOut, Cancelled, Interrupted, Result, Pending,
       Unclaimed

(* What a session that blocks leaves behind. *)
Blocks(r) ==
  /\ status' = "BLOCKED"
  /\ sess'[r].pc = "cleanup"
  /\ UNCHANGED <<studyVars, attempts>>
  /\ \E n \in Trials : trials[n] = Pending

(* The attempt that a launch or a reconciliation drives is one of a        *)
(* pending trial.                                                          *)
LEMMA DrivesThePending ==
  ASSUME IInv, NEW n \in Trials,
         attempts[n].phase \in {"PREPARED", "LAUNCH_INTENT", "RUNNING"}
  PROVE  trials[n] = Pending
BY DEF IInv, PhaseBoundsFiles

(* A session opens, completes, pauses or blocks the record, or leaves its  *)
(* status alone.                                                           *)
LEMMA StatusWriters ==
  ASSUME IInv, SessionIsShown, NEW r \in Runners, SessionStep(r)
  PROVE  \/ OpenSession(r) \/ Complete(r) \/ Pause(r)
         \/ Blocks(r)
         \/ status' = status
<1> USE DEF IInv
<1>1. Claiming(r) => status' = status
  BY DEF Claiming, Ask, RejectCandidate, MakeRunDir, RunDirExists, WriteStarting,
         CommitPrepared, Commit
<1>2. Launching(r) => Blocks(r) \/ status' = status
  <2>1. CancelBeforeLaunch(r) \/ CommitIntent(r) \/ Launch(r) \/ LaunchFails(r)
        \/ RecordLaunchFailure(r) \/ CommitRunning(r) \/ CommitShortLived(r)
        \/ StopUnidentified(r) \/ WriteRunning(r) => status' = status
    BY DEF CancelBeforeLaunch, CommitIntent, Launch, LaunchFails,
           RecordLaunchFailure, CommitRunning, CommitShortLived,
           StopUnidentified, WriteRunning, ResultReady, Commit
  <2>2. RefuseLaunch(r) => Blocks(r)
    BY DrivesThePending, GotoEffect DEF RefuseLaunch, Driving, Blocks, Labels
  <2>3. BlockAtLaunch(r) \/ BlockUnidentified(r) => Blocks(r)
    <3> SUFFICES ASSUME BlockAtLaunch(r) \/ BlockUnidentified(r)
                 PROVE  Blocks(r)
      OBVIOUS
    <3>1. PICK n \in Trials : n \in Current
      BY DEF BlockAtLaunch, BlockUnidentified, SessionIsShown, At, Current
    <3>2. attempts[n].phase = "LAUNCH_INTENT"
      BY <3>1, OpenPhase DEF BlockAtLaunch, BlockUnidentified, PhasesAt
    <3>3. trials[n] = Pending
      BY <3>2, DrivesThePending
    <3> QED BY <3>3, GotoEffect
            DEF BlockAtLaunch, BlockUnidentified, Block, Blocks, Labels
  <2> QED BY <2>1, <2>2, <2>3 DEF Launching
<1>3. Monitoring(r) => Blocks(r) \/ status' = status
  <2>1. ObserveExit(r) \/ CommitTermination(r) \/ WriteStopping(r)
        \/ Terminate(r) => status' = status
    BY DEF ObserveExit, CommitTermination, WriteStopping, Terminate, Commit
  <2>2. ASSUME BlockStillActive(r) PROVE Blocks(r)
    <3>1. PICK n \in Current : At(r, "terminate") /\ Block(r)
      BY <2>2 DEF BlockStillActive
    <3>2. n \in Trials /\ attempts[n].phase = "RUNNING"
      BY <3>1, OpenPhase DEF PhasesAt, Current
    <3>3. trials[n] = Pending
      BY <3>2, DrivesThePending
    <3> QED BY <3>1, <3>2, <3>3, GotoEffect DEF Block, Blocks, Labels
  <2> QED BY <2>1, <2>2 DEF Monitoring
<1>4. Recovering(r) => Blocks(r) \/ status' = status
  <2>1. Decide(r) \/ RecordInterrupted(r) \/ Replay(r) => status' = status
    BY DEF Decide, RecordInterrupted, Replay, ResultReady, Commit
  <2>2. BlockUnprovable(r) \/ BlockMatch(r) \/ BlockUnverifiable(r) => Blocks(r)
    BY DrivesThePending, GotoEffect
    DEF BlockUnprovable, BlockMatch, BlockUnverifiable, Block, Driving, Blocks,
        Labels
  <2> QED BY <2>1, <2>2 DEF Recovering
<1>5. Committing(r) \/ Cleanup(r) => status' = status
  BY DEF Committing, WriteTerminal, Tell, CommitTold, RunFinalizer,
         CommitFinalized, Commit, Cleanup
<1> QED BY <1>1, <1>2, <1>3, <1>4, <1>5 DEF SessionStep

(* Only a committed intent, or the stop of a process without an identity,  *)
(* puts a session where its launch may yet be blocked.                     *)
LEMMA LaunchesAreOpened ==
  ASSUME IInv, NEW r \in Runners, SessionStep(r),
         sess'[r].pc \in {"spawn", "unidentified"}
  PROVE  Current' # {}
<1> USE DEF IInv
<1> DEFINE Elsewhere == sess'[r].pc \notin {"spawn", "unidentified"}
<1>1. OpenSession(r) \/ Complete(r) \/ Pause(r) \/ Cleanup(r) => Elsewhere
  BY GotoEffect, LeaveEffect
  DEF OpenSession, Complete, Pause, Finish, Cleanup, Labels
<1>2. Claiming(r) => Elsewhere
  BY GotoEffect
  DEF Claiming, Ask, RejectCandidate, MakeRunDir, RunDirExists, WriteStarting,
      CommitPrepared, Labels
<1>3. ASSUME CommitIntent(r) PROVE Current' # {}
  <2>1. PICK n \in Trials :
               /\ attempts[n].phase = "PREPARED"
               /\ Commit(n, InPhase(attempts[n], "LAUNCH_INTENT"))
    BY <1>3 DEF CommitIntent, Driving
  <2>2. attempts'[n].phase = "LAUNCH_INTENT"
    BY <2>1 DEF Commit, InPhase, TypeOK, Attempt
  <2> QED BY <2>2 DEF Current
<1>4. StopUnidentified(r) => Current' # {}
  BY DEF StopUnidentified, Current
<1>5. Launching(r) => CommitIntent(r) \/ StopUnidentified(r) \/ Elsewhere
  <2>1. CancelBeforeLaunch(r) \/ RecordLaunchFailure(r) => Elsewhere
    BY DEF CancelBeforeLaunch, RecordLaunchFailure, ResultReady, TypeOK, Session
  <2>2. RefuseLaunch(r) \/ BlockAtLaunch(r) \/ LaunchFails(r)
        \/ CommitRunning(r) \/ CommitShortLived(r) \/ BlockUnidentified(r)
        \/ WriteRunning(r) => Elsewhere
    BY GotoEffect
    DEF RefuseLaunch, BlockAtLaunch, LaunchFails, CommitRunning,
        CommitShortLived, BlockUnidentified, Block, WriteRunning, Labels
  <2>3. Launch(r) => Elsewhere
    BY DEF Launch, TypeOK, Session
  <2> QED BY <2>1, <2>2, <2>3 DEF Launching
<1>6. Monitoring(r) => Elsewhere
  BY GotoEffect
  DEF Monitoring, ObserveExit, CommitTermination, WriteStopping, Terminate,
      BlockStillActive, Block, Labels
<1>7. Recovering(r) => Elsewhere
  <2>1. Decide(r) \/ RecordInterrupted(r) => Elsewhere
    BY DEF Decide, RecordInterrupted, ResultReady, TypeOK, Session
  <2>2. BlockUnprovable(r) \/ BlockMatch(r) \/ BlockUnverifiable(r) => Elsewhere
    BY GotoEffect
    DEF BlockUnprovable, BlockMatch, BlockUnverifiable, Block, Labels
  <2>3. Replay(r) => Elsewhere
    BY DEF Replay, TypeOK, Session
  <2> QED BY <2>1, <2>2, <2>3 DEF Recovering
<1>8. Committing(r) => Elsewhere
  <2>1. WriteTerminal(r) \/ Tell(r) \/ CommitTold(r) \/ RunFinalizer(r)
        => Elsewhere
    BY GotoEffect
    DEF WriteTerminal, Tell, CommitTold, RunFinalizer, Labels
  <2>2. CommitFinalized(r) => Elsewhere
    BY DEF CommitFinalized, TypeOK, Session
  <2> QED BY <2>1, <2>2 DEF Committing
<1> QED BY <1>1, <1>2, <1>3, <1>4, <1>5, <1>6, <1>7, <1>8 DEF SessionStep

(* Every step keeps the session and the status it is shown with together. *)
LEMMA ShownStep ==
  ASSUME IInv, SessionIsShown, [Next]_vars
  PROVE  SessionIsShown'
<1> USE DEF IInv
<1>1. ASSUME NEW r \in Runners, Prepare(r) PROVE SessionIsShown'
  <2>1. \A q \in Runners : sess'[q].pc = "idle"
    BY <1>1, RunnerAssumption DEF Prepare, LockHeld, At
  <2> QED BY <2>1 DEF SessionIsShown, At
<1>2. ASSUME NEW r \in Runners, Run(r) \/ Resume(r) PROVE SessionIsShown'
  <2>1. /\ status' = status /\ status \notin {"ABSENT", "COMPLETED"}
        /\ sess' = [sess EXCEPT ![r].pc = "open"]
        /\ holder = NoRunner
    BY <1>2 DEF Run, Resume, Enter
  <2>2. \A q \in Runners : sess'[q].pc \in {"open", "idle"}
    BY <2>1, RunnerAssumption DEF TypeOK, LockHeld, At
  <2> QED BY <2>1, <2>2 DEF SessionIsShown, At
<1>3. ASSUME NEW r \in Runners, SessionStep(r) PROVE SessionIsShown'
  <2>1. \A q \in Runners \ {r} : sess'[q].pc = "idle"
    BY <1>3, SessionMoves, OthersIdle DEF At
  <2>2. status' = "RUNNING" \/ sess'[r].pc \in {"idle", "cleanup"}
    <3>1. CASE sess[r].pc \in {"idle", "open", "cleanup"}
      BY <1>3, <3>1, RestActions, LeaveEffect DEF OpenSession, Cleanup
    <3>2. CASE sess[r].pc \notin {"idle", "open", "cleanup"}
      <4>1. status = "RUNNING"
        BY <3>2 DEF SessionIsShown
      <4>2. Complete(r) \/ Pause(r) => sess'[r].pc = "idle"
        BY LeaveEffect DEF Complete, Pause, Finish
      <4> QED BY <1>3, <4>1, <4>2, StatusWriters DEF OpenSession, Blocks
    <3> QED BY <3>1, <3>2
  <2>3. sess'[r].pc \in {"spawn", "unidentified"} => Current' # {}
    BY <1>3, LaunchesAreOpened
  <2> QED BY <2>1, <2>2, <2>3 DEF SessionIsShown, At
<1>4. ASSUME NEW r \in Runners, StepFails(r) \/ Crash(r) \/ RequestStop(r)
      PROVE  SessionIsShown'
  <2>1. UNCHANGED <<status, attempts>> /\ Current' = Current
    BY <1>4 DEF StepFails, Crash, RequestStop, Current
  <2>2. sess'[r].pc \in {"idle", "cleanup", sess[r].pc}
    BY <1>4, GotoEffect, LeaveEffect
    DEF StepFails, Crash, RequestStop, Labels, TypeOK, Session
  <2>3. \A q \in Runners \ {r} : sess'[q] = sess[q]
    BY <1>4, SessionMoves
  <2> QED BY <2>1, <2>2, <2>3 DEF SessionIsShown, At
<1>5. ASSUME NEW n \in Trials, ProcessExits(n) PROVE SessionIsShown'
  BY <1>5 DEF ProcessExits, SessionIsShown, Current, At
<1>6. CASE UNCHANGED vars
  BY <1>6 DEF vars, SessionIsShown, Current, At
<1> QED BY <1>1, <1>2, <1>3, <1>4, <1>5, <1>6 DEF Next

(* Ask claims the next trial of a running study; RejectCandidate and Tell  *)
(* settle the open one.                                                    *)
LEMMA CourseStudy ==
  ASSUME IInv, StudyStep, status = "RUNNING", status' = status
  PROVE  Course!Next
<1> USE DEF IInv
<1> DEFINE S == [n \in Trials |-> ShownState(trials[n])]
<1>0. /\ Budget \in Nat /\ asked \in 0..Budget /\ Trials = 1..Budget
      /\ trials \in [Trials -> Results \cup {Unclaimed, Pending}]
  BY BudgetAssumption DEF TypeOK, Trials
<1>1. CASE asked' # asked
  <2>1. /\ \A n \in Trials : n <= asked => trials[n] \in Results
        /\ asked + 1 \in Trials
        /\ trials' = [trials EXCEPT ![asked + 1] = Pending]
    BY <1>1 DEF StudyStep
  <2>2. ASSUME NEW m \in Trials
        PROVE  /\ S[m] # "PENDING"
               /\ S[m] # "UNCLAIMED" <=> m < asked + 1
    <3>1. CASE m <= asked
      BY <1>0, <2>1, <3>1, ShownStates, ResultsDistinct
    <3>2. CASE m > asked
      <4>1. trials[m] = Unclaimed
        BY <3>2 DEF ClaimedInOrder
      <4> QED BY <1>0, <3>2, <4>1, ShownStates, ResultsDistinct
    <3> QED BY <1>0, <3>1, <3>2
  <2>3. S' = [S EXCEPT ![asked + 1] = "PENDING"]
    BY <1>0, <2>1, ShownStates
  <2>4. Course!Claim(asked + 1)
    BY <1>0, <2>1, <2>2, <2>3
    DEF Course!Claim, Course!IsOpen, Course!IsClaimed
  <2> QED BY <1>0, <2>1, <2>4 DEF Course!Next
<1>2. CASE asked' = asked
  <2>1. PICK n \in Trials, x \in Results :
               /\ trials[n] = Pending
               /\ trials' = [trials EXCEPT ![n] = x]
    BY <1>0, <1>2 DEF StudyStep, PhaseBoundsFiles
  <2>2. S[n] = "PENDING" /\ ShownState(x) \in Course!Outcomes
    BY <2>1, ShownStates
  <2>3. S' = [S EXCEPT ![n] = ShownState(x)]
    BY <1>0, <2>1
  <2>4. Course!Settle(n)
    BY <2>2, <2>3 DEF Course!Settle, Course!IsOpen
  <2> QED BY <1>0, <2>4 DEF Course!Next
<1> QED BY <1>1, <1>2

(* What a session writes of the status is a step of the course. *)
LEMMA CourseStatus ==
  ASSUME IInv, SessionIsShown, NEW r \in Runners,
         OpenSession(r) \/ Complete(r) \/ Pause(r)
         \/ (Blocks(r) /\ status = "RUNNING")
  PROVE  Course!Next
<1> USE DEF IInv
<1> DEFINE S == [n \in Trials |-> ShownState(trials[n])]
<1>0. /\ Trials = 1..Budget
      /\ trials \in [Trials -> Results \cup {Unclaimed, Pending}]
  BY DEF TypeOK, Trials
<1>1. CASE OpenSession(r)
  <2>1. status \notin {"ABSENT", "COMPLETED"} /\ S' = S
    BY <1>1 DEF OpenSession, SessionIsShown
  <2>2. Course!Open
    BY <1>1, <2>1 DEF OpenSession, Course!Open
  <2> QED BY <2>2 DEF Course!Next
<1>2. CASE Complete(r)
  <2>1. status = "RUNNING" /\ S' = S
    BY <1>2 DEF Complete, Finish, SessionIsShown, At
  <2>2. ASSUME NEW n \in Trials PROVE trials[n] \in Results
    <3>1. asked = Budget /\ (asked \in Trials => trials[asked] # Pending)
      BY <1>2, BudgetAssumption
      DEF Complete, BudgetSpent, TailPending, Trials
    <3>2. n = asked \/ n < asked
      BY <3>1, BudgetAssumption DEF Trials
    <3> QED BY <1>0, <3>1, <3>2 DEF ClaimedInOrder
  <2>3. \A n \in Trials : S[n] # "PENDING" /\ S[n] # "UNCLAIMED"
    BY <1>0, <2>2, ShownStates, ResultsDistinct
  <2>4. Course!Complete
    BY <1>0, <1>2, <2>1, <2>3
    DEF Complete, Finish, Course!Complete, Course!IsOpen, Course!IsClaimed
  <2> QED BY <2>4 DEF Course!Next
<1>3. CASE Pause(r)
  <2>1. status = "RUNNING" /\ S' = S
    BY <1>3 DEF Pause, Finish, SessionIsShown, At
  <2>2. Course!Pause
    BY <1>3, <2>1 DEF Pause, Finish, Course!Pause
  <2> QED BY <2>2 DEF Course!Next
<1>4. CASE Blocks(r) /\ status = "RUNNING"
  <2>1. S' = S
    BY <1>4 DEF Blocks
  <2>2. \E n \in Trials : S[n] = "PENDING"
    BY <1>4, ShownStates DEF Blocks
  <2>3. Course!Block
    BY <1>0, <1>4, <2>1, <2>2 DEF Blocks, Course!Block, Course!IsOpen
  <2> QED BY <2>3 DEF Course!Next
<1> QED BY <1>1, <1>2, <1>3, <1>4

(* No other action of a session writes study.json. *)
LEMMA StudyKept ==
  ASSUME NEW r \in Runners, SessionStep(r), ~StudyWrite(r)
  PROVE  UNCHANGED trials
<1>1. OpenSession(r) \/ Complete(r) \/ Pause(r) \/ Cleanup(r) => UNCHANGED trials
  BY DEF OpenSession, Complete, Pause, Finish, Cleanup
<1>2. Claiming(r) => UNCHANGED trials
  BY DEF Claiming, MakeRunDir, RunDirExists, WriteStarting, CommitPrepared,
         StudyWrite
<1>3. Launching(r) => UNCHANGED trials
  BY DEF Launching, CancelBeforeLaunch, RefuseLaunch, CommitIntent, Launch,
         BlockAtLaunch, LaunchFails, RecordLaunchFailure, CommitRunning,
         CommitShortLived, StopUnidentified, BlockUnidentified, WriteRunning,
         ResultReady, Block
<1>4. Monitoring(r) => UNCHANGED trials
  BY DEF Monitoring, ObserveExit, CommitTermination, WriteStopping, Terminate,
         BlockStillActive, Block
<1>5. Recovering(r) => UNCHANGED trials
  BY DEF Recovering, Decide, BlockUnprovable, BlockMatch, BlockUnverifiable,
         RecordInterrupted, Replay, ResultReady, Block
<1>6. Committing(r) => UNCHANGED trials
  BY DEF Committing, WriteTerminal, CommitTold, RunFinalizer, CommitFinalized,
         StudyWrite
<1> QED BY <1>1, <1>2, <1>3, <1>4, <1>5, <1>6 DEF SessionStep

(* Every step of the executor is a step of the course or none. *)
LEMMA CourseStep ==
  ASSUME IInv, SessionIsShown, [Next]_vars
  PROVE  [Course!Next]_Course!courseVars
<1> USE DEF IInv
<1>1. CASE UNCHANGED <<status, trials>>
  BY <1>1 DEF Course!courseVars
<1>2. ASSUME NEW r \in Runners, StudyWrite(r)
      PROVE  [Course!Next]_Course!courseVars
  <2>1. status = "RUNNING"
    BY <1>2
    DEF StudyWrite, Ask, RejectCandidate, Tell, SessionIsShown, At
  <2>2. status' = status /\ (StudyStep \/ UNCHANGED studyVars)
    BY <1>2, StudyEffect
  <2> QED BY <1>1, <2>1, <2>2, CourseStudy
<1>3. ASSUME NEW r \in Runners, Prepare(r) PROVE Course!Next
  <2>1. Course!Prepare
    BY <1>3, ShownStates
    DEF Prepare, Course!Prepare, TypeOK, Trials
  <2> QED BY <2>1 DEF Course!Next
<1>4. ASSUME NEW r \in Runners, SessionStep(r), ~StudyWrite(r)
      PROVE  [Course!Next]_Course!courseVars
  <2>1. CASE OpenSession(r) \/ Complete(r) \/ Pause(r)
    BY <2>1, CourseStatus
  <2>2. CASE Blocks(r) /\ ~OpenSession(r)
    <3>1. ~Cleanup(r)
      BY <2>2, LeaveEffect DEF Cleanup, Blocks
    <3>2. sess[r].pc \notin {"idle", "open", "cleanup"}
      BY <1>4, <2>2, <3>1, RestActions
    <3>3. status = "RUNNING"
      BY <3>2 DEF SessionIsShown
    <3> QED BY <2>2, <3>3, CourseStatus
  <2>3. CASE status' = status
    <3>1. UNCHANGED trials
      BY <1>4, StudyKept
    <3> QED BY <1>1, <2>3, <3>1
  <2> QED BY <1>4, <2>1, <2>2, <2>3, StatusWriters
<1>5. ASSUME NEW r \in Runners,
             Run(r) \/ Resume(r) \/ StepFails(r) \/ Crash(r) \/ RequestStop(r)
      PROVE  UNCHANGED <<status, trials>>
  BY <1>5 DEF Run, Resume, Enter, StepFails, Crash, RequestStop
<1>6. ASSUME NEW n \in Trials, ProcessExits(n) PROVE UNCHANGED <<status, trials>>
  BY <1>6 DEF ProcessExits
<1>7. CASE UNCHANGED vars
  BY <1>1, <1>7 DEF vars
<1> QED BY <1>1, <1>2, <1>3, <1>4, <1>5, <1>6, <1>7 DEF Next

(* The statuses and trials that the page reads follow the course of a      *)
(* study, whatever crashes between the writes (_run_session, _blocked).    *)
THEOREM TakesTheCourse == Spec => ImplementsCourse
<1>1. Init => SessionIsShown
  BY DEF Init, SessionIsShown, NoSession, At
<1>2. IInv /\ SessionIsShown /\ [Next]_vars => SessionIsShown'
  BY ShownStep
<1>3. Init => Course!Init
  BY DEF Init, Course!Init, Trials, ShownState, Unclaimed, Result
<1>4. IInv /\ SessionIsShown /\ [Next]_vars => [Course!Next]_Course!courseVars
  BY CourseStep
<1> QED BY <1>1, <1>2, <1>3, <1>4, Invariance, PTL
        DEF Spec, ImplementsCourse, Course!Spec

(* Whatever crashes and whoever calls, a study is a ledger of trials that  *)
(* takes the course of a study (HpoRunner.run, HpoRunner.resume).          *)
THEOREM PromisesAreKept == Spec => KeepsPromises
BY Refinement, TakesTheCourse, PTL DEF KeepsPromises
=============================================================================
