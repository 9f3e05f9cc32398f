--------------------------- MODULE TuningRunProofs ---------------------------
(* First the loop alone: LoopInv is an invariant of TuningLoop, and with it *)
(* the end of a session and what its rounds are judged by; the action      *)
(* property on stops follows from where the stop fell.  Then the session   *)
(* with its record: it is a session of TuningLoop, and every copy of the   *)
(* record, in memory, on disk or in the hands of a thread, is true of it.  *)
(* One lemma per group of actions, one step per action.                    *)
EXTENDS TuningRun, TuningLoopInv, TLAPS

USE RetriesAssumption, ChangesAssumption, ModesAssumption, FaultsAssumption

(* The sets the variables range over and the shorthands of the actions;    *)
(* they are expanded in every step.                                        *)
USE DEF Mode, Rounds, Proposals, TerminalStatuses, ProcStates, Outcomes,
        Labels, InRoundPcs, TrainingPcs, RunningPcs, Trained, Scored,
        Step, Return, Close, Terminate,
        reqVars, roundVars, stopVars, ctlVars, loopVars

(* The parts of the invariant. *)
USE DEF LoopInv, LoopTypeOK, ResultIsLast, RoundsInOrder, AnalysisHasExit,
        TriedIsKnown, ChangesAreNew, LeftAreRetried, SeenIsOnItsWay,
        StopFellHere, TrainingsAreEarned, AnalyzedAfterExit,
        EvaluatedChangeNotRepeated, EndIsEarned, BestIsKept,
        CompletionIsEarned, CancelLeavesOnlyRetried, NoticedStopIsCancelled

-----------------------------------------------------------------------------
(* From the head of a round to the launch: the stop and the budget are looked*)
(* at, a change is chosen or the session returns.                          *)
LEMMA DecidingKeeps == LoopInv /\ Deciding => LoopInv'
<1>1. LoopInv /\ Begin => LoopInv'
  BY SMTT(30) DEF Begin
<1>2. LoopInv /\ CancelAtRound => LoopInv'
  BY SMTT(30) DEF CancelAtRound
<1>3. LoopInv /\ StartRound => LoopInv'
  BY SMTT(30) DEF StartRound
<1>4. LoopInv /\ Exhausted => LoopInv'
  BY SMTT(30) DEF Exhausted
<1>5. LoopInv /\ RoundFails => LoopInv'
  BY SMTT(30) DEF RoundFails
<1>6. LoopInv /\ PlanOnly => LoopInv'
  BY SMTT(30) DEF PlanOnly
<1>7. LoopInv /\ StopBeforeTraining => LoopInv'
  BY SMTT(30) DEF StopBeforeTraining, Pointless
<1>8. LoopInv /\ Decide => LoopInv'
  BY SMTT(30) DEF Decide, Pointless
<1> QED BY <1>1, <1>2, <1>3, <1>4, <1>5, <1>6, <1>7, <1>8 DEF Deciding

(* The launch and what is reported of it before the probe.                 *)
LEMMA LaunchingKeeps == LoopInv /\ Launching => LoopInv'
<1>1. LoopInv /\ Launch => LoopInv'
  BY SMTT(30) DEF Launch
<1>2. LoopInv /\ Identify => LoopInv'
  BY SMTT(30) DEF Identify
<1>3. LoopInv /\ StartForwarder => LoopInv'
  BY SMTT(30) DEF StartForwarder
<1> QED BY <1>1, <1>2, <1>3 DEF Launching

(* The verdicts of the probe close the round, but for the one that goes on.*)
LEMMA ProbingKeeps == LoopInv /\ Probing => LoopInv'
<1>1. LoopInv /\ ProbeCancelled => LoopInv'
  BY SMTT(30) DEF ProbeCancelled, ProbeEnds
<1>2. LoopInv /\ EarlyAbort => LoopInv'
  BY SMTT(30) DEF EarlyAbort, ProbeEnds
<1>3. LoopInv /\ ProbeRetry => LoopInv'
  BY SMTT(30) DEF ProbeRetry, ProbeEnds
<1>4. LoopInv /\ ProbeFailed => LoopInv'
  BY SMTT(30) DEF ProbeFailed, ProbeEnds
<1>5. ASSUME LoopInv, ProbeUnaudited PROVE LoopInv'
  <2>1. CASE result' = "failed" /\ Terminate /\ UNCHANGED seen
    BY <1>5, <2>1, SMTT(30) DEF ProbeUnaudited
  <2>2. CASE result' = "failed" /\ UNCHANGED <<proc, seen>>
    BY <1>5, <2>2, SMTT(30) DEF ProbeUnaudited
  <2>3. CASE cancel /\ result' = "cancelled" /\ Terminate /\ seen' = TRUE
    BY <1>5, <2>3, SMTT(30) DEF ProbeUnaudited
  <2> HIDE DEF LoopInv, Terminate, Return, Close
  <2> QED BY <1>5, <2>1, <2>2, <2>3 DEF ProbeUnaudited, Return
<1>6. LoopInv /\ ProbePassed => LoopInv'
  BY SMTT(30) DEF ProbePassed
<1> QED BY <1>1, <1>2, <1>3, <1>4, <1>5, <1>6 DEF Probing

(* The wait, the analysis and the verdict on a trained round.              *)
LEMMA WaitingKeeps == LoopInv /\ Waiting => LoopInv'
<1>1. LoopInv /\ LeaveInBackground => LoopInv'
  BY SMTT(30) DEF LeaveInBackground
<1>2. LoopInv /\ CancelWait => LoopInv'
  BY SMTT(30) DEF CancelWait
<1>3. LoopInv /\ TrainingFailed => LoopInv'
  BY SMTT(30) DEF TrainingFailed
<1>4. LoopInv /\ TrainingCompleted => LoopInv'
  BY SMTT(30) DEF TrainingCompleted
<1>5. LoopInv /\ Evaluate => LoopInv'
  BY SMTT(30) DEF Evaluate
<1>6. LoopInv /\ AnalyzeOnly => LoopInv'
  BY SMTT(30) DEF AnalyzeOnly
<1> QED BY <1>1, <1>2, <1>3, <1>4, <1>5, <1>6 DEF Waiting

(* Errors that end the session.                                            *)
LEMMA RaisingKeeps == LoopInv /\ Raising => LoopInv'
<1>1. ASSUME LoopInv, RoundRaises PROVE LoopInv'
  <2>1. CASE UNCHANGED <<proc, seen>>
    BY <1>1, <2>1, SMTT(30) DEF RoundRaises
  <2>2. CASE pc = "wait" /\ cancel /\ Terminate /\ seen' = TRUE
    BY <1>1, <2>2, SMTT(30) DEF RoundRaises
  <2> HIDE DEF LoopInv, Terminate, Return, Close
  <2> QED BY <1>1, <2>1, <2>2 DEF RoundRaises
<1>2. LoopInv /\ SessionRaises => LoopInv'
  BY SMTT(30) DEF SessionRaises
<1> QED BY <1>1, <1>2 DEF Raising

(* After the return nothing of the rounds changes any more.                *)
LEMMA ClosingKeeps == LoopInv /\ Closing => LoopInv'
<1>1. LoopInv /\ WriteTerminal => LoopInv'
  BY SMTT(30) DEF WriteTerminal
<1>2. LoopInv /\ PersistTerminal => LoopInv'
  BY SMTT(30) DEF PersistTerminal
<1>3. LoopInv /\ MarkDone => LoopInv'
  BY SMTT(30) DEF MarkDone
<1>4. ASSUME LoopInv, ReleaseSlot PROVE LoopInv'
  <2>7. (slot \in BOOLEAN)'
    BY <1>4, Zenon DEF ReleaseSlot
  <2>1. LoopTypeOK'
    BY <1>4, <2>7, SMTT(30) DEF ReleaseSlot
  <2>2. (ResultIsLast /\ RoundsInOrder /\ AnalysisHasExit)'
    BY <1>4, SMTT(30) DEF ReleaseSlot
  <2>3. (TriedIsKnown /\ ChangesAreNew)'
    BY <1>4, SMTT(30) DEF ReleaseSlot
  <2>4. (LeftAreRetried /\ SeenIsOnItsWay /\ StopFellHere)'
    BY <1>4, SMTT(30) DEF ReleaseSlot
  <2>5. TrainingsAreEarned'
    BY <1>4, SMTT(30) DEF ReleaseSlot
  <2>6. EndIsEarned'
    BY <1>4, SMTT(30) DEF ReleaseSlot
  <2> HIDE DEF LoopTypeOK, ResultIsLast, RoundsInOrder, AnalysisHasExit,
             TriedIsKnown, ChangesAreNew, LeftAreRetried, SeenIsOnItsWay,
             StopFellHere, TrainingsAreEarned, EndIsEarned
  <2> QED BY <2>1, <2>2, <2>3, <2>4, <2>5, <2>6 DEF LoopInv
<1> QED BY <1>1, <1>2, <1>3, <1>4 DEF Closing

(* The stop event, the exits of trainings and the death of the service.    *)
LEMMA OutsideKeeps ==
  LoopInv /\ (StopSignal \/ Crash \/ \E k \in Rounds : ProcessExits(k)) => LoopInv'
<1>1. LoopInv /\ StopSignal => LoopInv'
  BY SMTT(60) DEF StopSignal
<1>2. ASSUME LoopInv, Crash PROVE LoopInv'
  <2>7. (slot \in BOOLEAN)'
    BY <1>2, Zenon DEF Crash
  <2>1. LoopTypeOK'
    BY <1>2, <2>7, SMTT(30) DEF Crash
  <2>2. (ResultIsLast /\ RoundsInOrder /\ AnalysisHasExit)'
    BY <1>2, SMTT(30) DEF Crash
  <2>3. (TriedIsKnown /\ ChangesAreNew)'
    BY <1>2, SMTT(30) DEF Crash
  <2>4. (LeftAreRetried /\ SeenIsOnItsWay /\ StopFellHere)'
    BY <1>2, SMTT(30) DEF Crash
  <2>5. TrainingsAreEarned'
    BY <1>2, SMTT(30) DEF Crash
  <2>6. EndIsEarned'
    BY <1>2, SMTT(30) DEF Crash
  <2> HIDE DEF LoopTypeOK, ResultIsLast, RoundsInOrder, AnalysisHasExit,
             TriedIsKnown, ChangesAreNew, LeftAreRetried, SeenIsOnItsWay,
             StopFellHere, TrainingsAreEarned, EndIsEarned
  <2> QED BY <2>1, <2>2, <2>3, <2>4, <2>5, <2>6 DEF LoopInv
<1>3. ASSUME NEW k \in Rounds PROVE LoopInv /\ ProcessExits(k) => LoopInv'
  BY SMTT(60) DEF ProcessExits
<1> QED BY <1>1, <1>2, <1>3

-----------------------------------------------------------------------------
LEMMA InvInit == LoopInit => LoopInv
<1> SUFFICES ASSUME LoopInit PROVE LoopInv
  OBVIOUS
<1>7. (slot \in BOOLEAN)
  <2>1. mode.execute \in BOOLEAN
    BY SMT DEF LoopInit
  <2>2. slot = mode.execute
    BY Zenon DEF LoopInit
  <2> HIDE DEF Mode
  <2> QED BY <2>1, <2>2, Zenon
<1>8. /\ mode \in Modes /\ budget \in Rounds
      /\ pc = "begin" /\ round = 0 /\ tried = {} /\ result = "none"
      /\ change = [k \in Rounds |-> NoChange]
      /\ outcome = [k \in Rounds |-> "none"]
      /\ proc = [k \in Rounds |-> "none"]
      /\ cancel \in BOOLEAN /\ done \in BOOLEAN /\ seen \in BOOLEAN
      /\ faults = 0 /\ stopRound = 0
  BY Zenon DEF LoopInit
<1>1. LoopTypeOK
  BY <1>7, <1>8, SMTT(30)
<1>2. (ResultIsLast /\ RoundsInOrder /\ AnalysisHasExit)
  BY SMTT(30) DEF LoopInit
<1>3. (TriedIsKnown /\ ChangesAreNew)
  BY SMTT(30) DEF LoopInit
<1>4. (LeftAreRetried /\ SeenIsOnItsWay /\ StopFellHere)
  BY SMTT(30) DEF LoopInit
<1>5. TrainingsAreEarned
  BY SMTT(30) DEF LoopInit
<1>6. EndIsEarned
  BY SMTT(30) DEF LoopInit
<1> HIDE DEF LoopTypeOK, ResultIsLast, RoundsInOrder, AnalysisHasExit,
           TriedIsKnown, ChangesAreNew, LeftAreRetried, SeenIsOnItsWay,
           StopFellHere, TrainingsAreEarned, EndIsEarned
<1> QED BY <1>1, <1>2, <1>3, <1>4, <1>5, <1>6 DEF LoopInv

LEMMA InvStep == LoopInv /\ [LoopNext]_loopVars => LoopInv'
<1>1. LoopInv /\ UNCHANGED loopVars => LoopInv'
  BY SMTT(30)
<1> QED BY <1>1, DecidingKeeps, LaunchingKeeps, ProbingKeeps, WaitingKeeps,
           RaisingKeeps, ClosingKeeps, OutsideKeeps DEF LoopNext, Worker

(* From here on the definitions are expanded where they are cited.         *)
HIDE DEF Mode, Rounds, Proposals, TerminalStatuses, ProcStates, Outcomes,
         Labels, InRoundPcs, TrainingPcs, RunningPcs, Trained, Scored,
         Step, Return, Close, Terminate,
         reqVars, roundVars, stopVars, ctlVars, loopVars,
         LoopInv, LoopTypeOK, ResultIsLast, RoundsInOrder, AnalysisHasExit,
         TriedIsKnown, ChangesAreNew, LeftAreRetried, SeenIsOnItsWay,
         StopFellHere, TrainingsAreEarned, AnalyzedAfterExit,
         EvaluatedChangeNotRepeated, EndIsEarned, BestIsKept,
         CompletionIsEarned, CancelLeavesOnlyRetried, NoticedStopIsCancelled

(* What may happen to the trainings in a step.                             *)
LEMMA ProcSteps ==
  [LoopNext]_loopVars =>
    Launch \/ UNCHANGED proc \/ Terminate \/ \E i \in Rounds : ProcessExits(i)
BY SMTT(30) DEF LoopNext, loopVars, Worker, Deciding, Launching, Probing,
   Waiting, Raising, Closing, Begin, CancelAtRound, StartRound, Exhausted,
   RoundFails, PlanOnly, StopBeforeTraining, Decide, Identify, StartForwarder,
   ProbeEnds, ProbeCancelled, EarlyAbort, ProbeRetry, ProbeFailed,
   ProbeUnaudited, ProbePassed, LeaveInBackground, CancelWait, TrainingFailed,
   TrainingCompleted, Evaluate, AnalyzeOnly, RoundRaises, SessionRaises,
   WriteTerminal, PersistTerminal, MarkDone, ReleaseSlot, StopSignal, Crash

(* Only the launch makes a training alive, and StopFellHere holds there.   *)
LEMMA OnlyLaunchStarts ==
  LoopInv /\ [LoopNext]_loopVars =>
    \A k \in Rounds : cancel /\ proc[k] = "none" /\ proc'[k] = "alive"
      => stopRound = k
<1> SUFFICES ASSUME LoopInv, [LoopNext]_loopVars,
                    NEW k \in Rounds,
                    cancel, proc[k] = "none", proc'[k] = "alive"
             PROVE  stopRound = k
  OBVIOUS
<1> USE DEF LoopInv, LoopTypeOK
<1>1. CASE Launch
  BY <1>1 DEF Launch, Step, StopFellHere
<1>2. CASE UNCHANGED proc
  BY <1>2
<1>3. CASE Terminate
  BY <1>3 DEF Terminate
<1>4. CASE \E i \in Rounds : ProcessExits(i)
  BY <1>4 DEF ProcessExits
<1> QED BY <1>1, <1>2, <1>3, <1>4, ProcSteps

(* The inductive invariant of a tuning session: for every bound on the     *)
(* retries, any changes, any kinds of session and any number of errors.    *)
THEOREM LoopInvariant == LoopSpec => []LoopInv
BY InvInit, InvStep, PTL DEF LoopSpec

(* A round is evaluated on its own finished training and an evaluated      *)
(* change is not trained again.                                            *)
THEOREM RoundsAreEarned == LoopSpec => []TrainingsAreEarned
<1>1. LoopInv => TrainingsAreEarned
  BY DEF LoopInv
<1> QED BY <1>1, LoopInvariant, PTL

(* The recorded end is deserved: a scored round is not lost, a completion  *)
(* has a reason, a cancelled session leaves only retried trainings alive,  *)
(* and a noticed stop is recorded as one.                                  *)
THEOREM EndsAreEarned == LoopSpec => []EndIsEarned
<1>1. LoopInv => EndIsEarned
  BY DEF LoopInv
<1> QED BY <1>1, LoopInvariant, PTL

(* After a stop no later round starts a training.                          *)
THEOREM NothingNewAfterStop == LoopSpec => StopStartsNothingNew
BY OnlyLaunchStarts, LoopInvariant, PTL DEF StopStartsNothingNew, LoopSpec

-----------------------------------------------------------------------------
(* The session with its record. *)

USE LostAssumption

ClosedPcs == {"persist", "mark", "release", "end", "crashed"}
EndPcs == {"mark", "release", "end"}

(* What a copy of the record says is true, whenever it is written.         *)
Honest(rec) ==
  /\ rec.status \in TerminalStatuses => rec.status = result
  /\ rec.pid # 0 => proc[rec.pid] # "none"

CopiesAreHonest ==
  /\ Honest(mem) /\ Honest(file) /\ Honest(stopper.rec)
  /\ \A k \in Rounds : Honest(fwd[k].rec)

ResultIsThere == pc \in {"terminal"} \cup (ClosedPcs \ {"crashed"}) => result # "none"

(* A quiet end: nobody but a stop that comes late holds a copy, and that   *)
(* of the stop was made after the end.                                     *)
QuietIsQuiet ==
  quiet =>
    /\ pc \in ClosedPcs
    /\ mem.status = result
    /\ \A k \in Rounds : fwd[k].at = "off"
    /\ stopper.at = "persist" => stopper.rec.status = result
    /\ pc \in EndPcs /\ lost = 0 => file.status = result

(* The round under way has been launched.                                  *)
LaunchedIsThere ==
  \A k \in Rounds : k = round /\ pc \in TrainingPcs => proc[k] # "none"

RecInv ==
  /\ TypeOK
  /\ CopiesAreHonest
  /\ ResultIsThere
  /\ LaunchedIsThere
  /\ QuietIsQuiet

-----------------------------------------------------------------------------
(* The steps of the session, seen from the record.                         *)

LEMMA LoopStep == [Next]_vars => [LoopNext]_loopVars
<1> SUFFICES ASSUME [Next]_vars PROVE LoopNext \/ UNCHANGED loopVars
  OBVIOUS
<1>1. CASE Report
  BY <1>1 DEF Report, Reporting, Returning, LoopNext, Worker, Deciding, Waiting
<1>2. CASE Advance
  BY <1>2 DEF Advance, Unreported, LoopNext, Worker, Deciding, Launching, Waiting
<1>3. CASE Progress
  BY <1>3 DEF Progress
<1>4. CASE IdentifyTraining
  BY <1>4 DEF IdentifyTraining, LoopNext, Worker, Launching
<1>5. CASE StartForwarding
  BY <1>5 DEF StartForwarding, LoopNext, Worker, Launching
<1>6. CASE TerminalRecord \/ TerminalFile \/ Leave
  BY <1>6 DEF TerminalRecord, TerminalFile, Leave, LoopNext, Worker, Closing
<1>7. CASE RequestStop
  BY <1>7 DEF RequestStop, StopMark, SignalStop, StopRead, StopPersist, LoopNext
<1>8. ASSUME NEW k \in Rounds, Forward(k) PROVE UNCHANGED loopVars
  BY <1>8 DEF Forward, FwdRead, FwdPublish, FwdSkip, FwdReadAgain, FwdPersist,
     FwdExit, FwdStep
<1>9. ASSUME NEW k \in Rounds, TrainingExits(k) PROVE LoopNext
  BY <1>9 DEF TrainingExits, LoopNext
<1>10. CASE ServiceCrash
  BY <1>10 DEF ServiceCrash, LoopNext
<1>11. CASE UNCHANGED vars
  BY <1>11 DEF vars
<1> QED BY <1>1, <1>2, <1>3, <1>4, <1>5, <1>6, <1>7, <1>8, <1>9, <1>10, <1>11
        DEF Next

(* The steps of the worker up to the return of the loop.                   *)
Early == Deciding \/ Launching \/ Probing \/ Waiting \/ Raising

LEMMA EarlySteps ==
  LoopInv /\ Early =>
    /\ pc \in RunningPcs
    /\ pc' \in RunningPcs \/ (pc' = "terminal" /\ result' # "none")
    /\ result = "none"
<1> USE DEF RunningPcs, InRoundPcs, Step, Return, Mode, TerminalStatuses
<1> SUFFICES ASSUME LoopInv, Early
             PROVE  /\ pc \in RunningPcs
                    /\ pc' \in RunningPcs \/ (pc' = "terminal" /\ result' # "none")
  BY DEF LoopInv, ResultIsLast
<1>1. CASE Deciding
  BY <1>1, SMTT(30) DEF Deciding, Begin, CancelAtRound, StartRound, Exhausted,
     RoundFails, PlanOnly, StopBeforeTraining, Decide
<1>2. CASE Launching
  BY <1>2, SMTT(30) DEF Launching, Launch, Identify, StartForwarder
<1>3. CASE Probing
  BY <1>3, SMTT(30) DEF Probing, ProbeEnds, ProbeCancelled, EarlyAbort,
     ProbeRetry, ProbeFailed, ProbeUnaudited, ProbePassed
<1>4. CASE Waiting
  BY <1>4, SMTT(30) DEF Waiting, LeaveInBackground, CancelWait, TrainingFailed,
     TrainingCompleted, Evaluate, AnalyzeOnly
<1>5. CASE Raising
  BY <1>5, SMTT(30) DEF Raising, RoundRaises, SessionRaises
<1> QED BY <1>1, <1>2, <1>3, <1>4, <1>5 DEF Early

(* A result once given stays, and a training once launched was launched.   *)
LEMMA HistoryStays ==
  LoopInv /\ [LoopNext]_loopVars =>
    /\ result # "none" => result' = result
    /\ \A k \in Rounds : proc[k] # "none" => proc'[k] # "none"
<1> SUFFICES ASSUME LoopInv, [LoopNext]_loopVars
             PROVE  /\ result # "none" => result' = result
                    /\ \A k \in Rounds : proc[k] # "none" => proc'[k] # "none"
  OBVIOUS
<1> USE DEF LoopInv, LoopTypeOK
<1>1. result # "none" => result' = result
  <2>1. CASE Early
    BY <2>1, EarlySteps
  <2>2. CASE UNCHANGED result
    BY <2>2
  <2> QED BY <2>1, <2>2 DEF Early, LoopNext, Worker, Closing, WriteTerminal,
             PersistTerminal, MarkDone, ReleaseSlot, StopSignal, ProcessExits,
             Crash, loopVars
<1>2. ASSUME NEW k \in Rounds, proc[k] # "none" PROVE proc'[k] # "none"
  <2>1. CASE Launch
    BY <2>1, <1>2 DEF Launch
  <2>2. CASE UNCHANGED proc
    BY <2>2, <1>2
  <2>3. CASE Terminate
    BY <2>3, <1>2 DEF Terminate
  <2>4. CASE \E i \in Rounds : ProcessExits(i)
    BY <2>4, <1>2 DEF ProcessExits
  <2>5. Launch \/ UNCHANGED proc \/ Terminate \/ \E i \in Rounds : ProcessExits(i)
    BY ProcSteps
  <2> QED BY <2>1, <2>2, <2>3, <2>4, <2>5
<1> QED BY <1>1, <1>2

LEMMA HonestStays ==
  LoopInv /\ [LoopNext]_loopVars =>
    \A rec \in Record : Honest(rec) => Honest(rec)'
<1> SUFFICES ASSUME LoopInv, [LoopNext]_loopVars, NEW rec \in Record, Honest(rec)
             PROVE  Honest(rec)'
  OBVIOUS
<1>1. rec.status \in TerminalStatuses => rec.status = result'
  BY HistoryStays DEF Honest, TerminalStatuses
<1>2. rec.pid # 0 => proc'[rec.pid] # "none"
  <2> rec.pid \in 0..MaxRetries
    BY DEF Record
  <2> QED BY HistoryStays DEF Honest, Rounds
<1> QED BY <1>1, <1>2 DEF Honest

(* After the return only the end of the controller thread is left.         *)
LEMMA LateSteps ==
  LoopInv /\ [LoopNext]_loopVars /\ ~Early =>
    \/ UNCHANGED <<pc, result>>
    \/ pc' = "crashed" /\ UNCHANGED result
    \/ WriteTerminal \/ PersistTerminal
    \/ pc \in {"mark", "release"} /\ pc' \in EndPcs /\ UNCHANGED result
BY SMTT(30) DEF LoopNext, Worker, Early, Closing, MarkDone, ReleaseSlot, Step,
   StopSignal, ProcessExits, Crash, loopVars, EndPcs

LEMMA PersistMeans ==
  ASSUME TypeOK, NEW rec, Persist(rec)
  PROVE  /\ file' = rec \/ file' = file
         /\ lost' \in Nat /\ (lost' = 0 => lost = 0 /\ file' = rec)
BY DEF Persist, Lose, TypeOK

LEMMA TrainingSteps ==
  LoopInv /\ [LoopNext]_loopVars /\ pc' \in TrainingPcs =>
    Launch \/ (pc \in TrainingPcs /\ round' = round)
<1> SUFFICES ASSUME LoopInv, [LoopNext]_loopVars, pc' \in TrainingPcs, ~Launch
             PROVE  pc \in TrainingPcs /\ round' = round
  OBVIOUS
<1> USE DEF TrainingPcs, Step, Return, roundVars, reqVars, stopVars, ctlVars
<1>1. CASE Deciding
  BY <1>1, SMTT(30) DEF Deciding, Begin, CancelAtRound, StartRound, Exhausted,
     RoundFails, PlanOnly, StopBeforeTraining, Decide
<1>2. CASE Launching
  BY <1>2, SMTT(30) DEF Launching, Identify, StartForwarder
<1>3. CASE Probing
  BY <1>3, SMTT(30) DEF Probing, ProbeEnds, ProbeCancelled, EarlyAbort,
     ProbeRetry, ProbeFailed, ProbeUnaudited, ProbePassed
<1>4. CASE Waiting
  BY <1>4, SMTT(30) DEF Waiting, LeaveInBackground, CancelWait, TrainingFailed,
     TrainingCompleted, Evaluate, AnalyzeOnly
<1>5. CASE Raising
  BY <1>5, SMTT(30) DEF Raising, RoundRaises, SessionRaises
<1>6. CASE Closing
  BY <1>6 DEF Closing, WriteTerminal, PersistTerminal, MarkDone, ReleaseSlot
<1>7. CASE StopSignal \/ Crash \/ (\E k \in Rounds : ProcessExits(k)) \/ UNCHANGED loopVars
  BY <1>7 DEF StopSignal, Crash, ProcessExits, loopVars
<1> QED BY <1>1, <1>2, <1>3, <1>4, <1>5, <1>6, <1>7 DEF LoopNext, Worker

(* The parts that the session alone decides.                               *)
LEMMA SessionParts ==
  LoopInv /\ RecInv /\ [LoopNext]_loopVars => ResultIsThere' /\ LaunchedIsThere'
<1> SUFFICES ASSUME LoopInv, RecInv, [LoopNext]_loopVars
             PROVE  ResultIsThere' /\ LaunchedIsThere'
  OBVIOUS
<1>1. ResultIsThere'
  <2>1. CASE Early
    BY <2>1, EarlySteps DEF ResultIsThere, RunningPcs, InRoundPcs, ClosedPcs
  <2>2. CASE ~Early
    BY <2>2, LateSteps DEF RecInv, ResultIsThere, ClosedPcs, EndPcs,
       WriteTerminal, PersistTerminal, Step
  <2> QED BY <2>1, <2>2
<1>2. LaunchedIsThere'
  <2>1. CASE Launch
    BY <2>1 DEF LaunchedIsThere, Launch, LoopInv, LoopTypeOK, roundVars
  <2>2. CASE pc' \in TrainingPcs /\ pc \in TrainingPcs /\ round' = round
    BY <2>2, HistoryStays DEF RecInv, LaunchedIsThere
  <2>3. CASE pc' \notin TrainingPcs
    BY <2>3 DEF LaunchedIsThere
  <2> QED BY <2>1, <2>2, <2>3, TrainingSteps
<1> QED BY <1>1, <1>2

(* Steps before the return: nobody has seen a quiet end.                   *)
LEMMA EarlyKeeps ==
  ASSUME LoopInv, LoopInv', RecInv, [Next]_vars, Early,
         mem' \in Record, Honest(mem)', Persist(mem') \/ UNCHANGED <<file, lost>>
           \/ (file' = mem' /\ lost' \in Nat),
         fwd' = fwd \/ fwd' = [fwd EXCEPT ![round].at = "idle"],
         UNCHANGED <<stopper, quiet>>
  PROVE  RecInv'
<1> USE DEF RecInv
<1>1. \A rec \in Record : Honest(rec) => Honest(rec)'
  BY LoopStep, HonestStays
<1>2. file' \in {file, mem'} /\ lost' \in Nat
  BY PersistMeans DEF TypeOK
<1>3. round \in Rounds => fwd[round] \in [at : FwdLabels, rec : Record]
  BY DEF TypeOK
<1>4. /\ fwd' \in [Rounds -> [at : FwdLabels, rec : Record]]
      /\ \A k \in Rounds : fwd'[k].rec = fwd[k].rec
  BY DEF TypeOK, FwdLabels
<1>5. TypeOK'
  BY <1>2, <1>4 DEF TypeOK, LoopInv
<1>6. CopiesAreHonest'
  <2>1. Honest(file)'
    BY <1>1, <1>2 DEF TypeOK, CopiesAreHonest, Honest
  <2>2. Honest(stopper.rec)'
    BY <1>1 DEF TypeOK, CopiesAreHonest, Honest
  <2>3. ASSUME NEW k \in Rounds PROVE Honest(fwd[k].rec)'
    BY <1>1, <1>4 DEF TypeOK, CopiesAreHonest, Honest
  <2> QED BY <2>1, <2>2, <2>3 DEF CopiesAreHonest
<1>7. ResultIsThere' /\ LaunchedIsThere'
  BY LoopStep, SessionParts
<1>8. ~quiet'
  BY EarlySteps DEF QuietIsQuiet, RunningPcs, InRoundPcs, ClosedPcs
<1> QED BY <1>5, <1>6, <1>7, <1>8 DEF QuietIsQuiet

LEMMA WorkerKeeps ==
  LoopInv /\ LoopInv' /\ RecInv /\ (Report \/ Advance \/ IdentifyTraining \/ StartForwarding)
    => RecInv'
<1> SUFFICES ASSUME LoopInv, LoopInv', RecInv,
                    Report \/ Advance \/ IdentifyTraining \/ StartForwarding
             PROVE  RecInv'
  OBVIOUS
<1>n. [Next]_vars
  BY DEF Next
<1>t. mem \in Record /\ file \in Record /\ lost \in Nat
  BY DEF RecInv, TypeOK
<1>h. \A rec \in Record : Honest(rec) => Honest(rec)'
  BY <1>n, LoopStep, HonestStays
<1>m. [status |-> "running", pid |-> mem.pid] \in Record
      /\ Honest([status |-> "running", pid |-> mem.pid])
  BY <1>t DEF Record, RecInv, CopiesAreHonest, Honest, TerminalStatuses
<1>1. CASE Report
  <2>1. Early /\ UNCHANGED <<fwd, stopper, quiet>>
    BY <1>1 DEF Report, Reporting, Returning, Early, Deciding, Waiting
  <2>2. mem' = [status |-> "running", pid |-> mem.pid] /\ Persist(mem')
    BY <1>1 DEF Report, OnState
  <2>3. Honest(mem)'
    BY <2>2, <1>m, <1>h DEF Honest
  <2> QED BY <1>n, <1>m, <2>1, <2>2, <2>3, EarlyKeeps
<1>2. CASE Advance
  <2>1. Early
    BY <1>2 DEF Advance, Unreported, Early, Deciding, Launching, Waiting
  <2>2. UNCHANGED <<mem, file, lost, fwd, stopper, quiet>>
    BY <1>2 DEF Advance, Silent, recVars
  <2>3. Honest(mem)'
    BY <2>2, <1>t, <1>h DEF Honest, RecInv, CopiesAreHonest
  <2> QED BY <1>n, <1>t, <2>1, <2>2, <2>3, EarlyKeeps
<1>3. CASE IdentifyTraining
  <2>1. Early /\ UNCHANGED <<fwd, stopper, quiet>>
    BY <1>3 DEF IdentifyTraining, Early, Launching
  <2>2. CASE mem' = [status |-> "running", pid |-> mem.pid] /\ file' = mem' /\ lost' \in Nat
    <3>1. Honest(mem)'
      BY <2>2, <1>m, <1>h DEF Honest
    <3> QED BY <1>n, <1>m, <2>1, <2>2, <3>1, EarlyKeeps
  <2>3. CASE OnState(round)
    <3>1. mem' = [status |-> "running", pid |-> round] /\ Persist(mem')
      BY <2>3 DEF OnState
    <3>2. round \in Rounds /\ proc[round] # "none"
      BY <1>3 DEF IdentifyTraining, Identify, Step, LoopInv, LoopTypeOK,
         RoundsInOrder, InRoundPcs, TrainingPcs, RecInv, LaunchedIsThere, Rounds
    <3>3. mem' \in Record
      BY <3>1, <3>2 DEF Record, Rounds
    <3>4. [status |-> "running", pid |-> round] \in Record
          /\ Honest([status |-> "running", pid |-> round])
      BY <3>1, <3>2, <3>3 DEF Honest, TerminalStatuses
    <3>5. Honest(mem)'
      BY <3>1, <3>4, <1>h DEF Honest
    <3> QED BY <1>n, <2>1, <3>1, <3>3, <3>5, EarlyKeeps
  <2> QED BY <1>3, <1>t, <2>2, <2>3 DEF IdentifyTraining, Lose
<1>4. CASE StartForwarding
  <2>1. Early
    BY <1>4 DEF StartForwarding, Early, Launching
  <2>2. UNCHANGED <<mem, file, lost, stopper, quiet>>
        /\ fwd' = [fwd EXCEPT ![round].at = "idle"]
    BY <1>4 DEF StartForwarding, Silent, recVars
  <2>3. Honest(mem)'
    BY <2>2, <1>t, <1>h DEF Honest, RecInv, CopiesAreHonest
  <2> QED BY <1>n, <1>t, <2>1, <2>2, <2>3, EarlyKeeps
<1> QED BY <1>1, <1>2, <1>3, <1>4

(* The end of the controller thread.                                       *)
LEMMA EndKeeps ==
  LoopInv /\ LoopInv' /\ RecInv /\ (TerminalRecord \/ TerminalFile \/ Leave) => RecInv'
<1> SUFFICES ASSUME LoopInv, LoopInv', RecInv, TerminalRecord \/ TerminalFile \/ Leave
             PROVE  RecInv'
  OBVIOUS
<1> USE DEF RecInv
<1>n. [Next]_vars
  BY DEF Next
<1>h. \A rec \in Record : Honest(rec) => Honest(rec)'
  BY <1>n, LoopStep, HonestStays
<1>s. ResultIsThere' /\ LaunchedIsThere' /\ LoopTypeOK'
  BY <1>n, LoopStep, SessionParts DEF LoopInv
<1>1. CASE TerminalRecord
  <2>1. /\ pc = "terminal" /\ pc' = "persist" /\ UNCHANGED result
        /\ mem' = [mem EXCEPT !.status = result]
        /\ UNCHANGED <<file, lost, fwd, stopper>> /\ quiet' \in BOOLEAN
        /\ quiet' => (\A k \in Rounds : fwd[k].at = "off") /\ stopper.at \in {"idle", "end"}
    BY <1>1 DEF TerminalRecord, WriteTerminal, Step
  <2>2. result \in TerminalStatuses
    BY <2>1 DEF ResultIsThere, LoopInv, LoopTypeOK
  <2>3. mem' \in Record /\ mem'.status = result
    BY <2>1, <2>2 DEF TypeOK, Record
  <2>4. TypeOK'
    BY <1>s, <2>1, <2>3 DEF TypeOK
  <2>5. Honest(mem)'
    <3>1. mem'.pid = mem.pid
      BY <2>1 DEF TypeOK, Record
    <3> QED BY <1>h, <2>1, <2>3, <3>1 DEF Honest, CopiesAreHonest, TypeOK
  <2>6. CopiesAreHonest'
    BY <1>h, <2>1, <2>5 DEF CopiesAreHonest, TypeOK, Honest
  <2>7. QuietIsQuiet'
    BY <2>1, <2>3 DEF QuietIsQuiet, ClosedPcs, EndPcs
  <2> QED BY <1>s, <2>4, <2>6, <2>7
<1>2. CASE TerminalFile
  <2>1. /\ pc = "persist" /\ pc' = "mark" /\ UNCHANGED result
        /\ Persist(mem) /\ UNCHANGED <<mem, fwd, stopper, quiet>>
    BY <1>2 DEF TerminalFile, PersistTerminal, Step
  <2>2. file' \in {mem, file} /\ lost' \in Nat /\ (lost' = 0 => file' = mem)
    BY <2>1, PersistMeans
  <2>3. TypeOK'
    BY <1>s, <2>1, <2>2 DEF TypeOK
  <2>4. CopiesAreHonest'
    BY <1>h, <2>1, <2>2 DEF CopiesAreHonest, TypeOK, Honest
  <2>5. QuietIsQuiet'
    BY <2>1, <2>2 DEF QuietIsQuiet, ClosedPcs, EndPcs
  <2> QED BY <1>s, <2>3, <2>4, <2>5
<1>3. CASE Leave
  <2>1. /\ pc \in {"mark", "release"} /\ pc' \in EndPcs /\ UNCHANGED result
        /\ UNCHANGED <<mem, file, lost, fwd, stopper, quiet>>
    BY <1>3 DEF Leave, Silent, recVars, MarkDone, ReleaseSlot, Step, EndPcs
  <2>3. TypeOK'
    BY <1>s, <2>1 DEF TypeOK
  <2>4. CopiesAreHonest'
    BY <1>h, <2>1 DEF CopiesAreHonest, TypeOK, Honest
  <2>5. QuietIsQuiet'
    BY <2>1 DEF QuietIsQuiet, ClosedPcs, EndPcs
  <2> QED BY <1>s, <2>3, <2>4, <2>5
<1> QED BY <1>1, <1>2, <1>3

(* A line of output that the worker saves, and the output forwarders.      *)
LEMMA OutputKeeps ==
  LoopInv /\ LoopInv' /\ RecInv /\ (Progress \/ \E k \in Rounds : Forward(k)) => RecInv'
<1> SUFFICES ASSUME LoopInv, LoopInv', RecInv, Progress \/ \E k \in Rounds : Forward(k)
             PROVE  RecInv'
  OBVIOUS
<1> USE DEF RecInv
<1>n. [Next]_vars
  BY DEF Next
<1>u. UNCHANGED <<pc, result, stopper, quiet>> /\ UNCHANGED loopVars
  BY DEF Progress, Forward, FwdRead, FwdPublish, FwdSkip, FwdReadAgain,
     FwdPersist, FwdExit, FwdStep, loopVars
<1>h. \A rec \in Record : Honest(rec) => Honest(rec)'
  BY <1>n, LoopStep, HonestStays
<1>s. ResultIsThere' /\ LaunchedIsThere' /\ LoopTypeOK'
  BY <1>n, LoopStep, SessionParts DEF LoopInv
<1>1. CASE Progress
  <2>1. Persist(mem) /\ UNCHANGED <<mem, fwd>> /\ ~quiet
    BY <1>1 DEF Progress, QuietIsQuiet, ClosedPcs
  <2>2. file' \in {mem, file} /\ lost' \in Nat
    BY <2>1, PersistMeans
  <2>3. TypeOK'
    BY <1>s, <1>u, <2>1, <2>2 DEF TypeOK
  <2>4. CopiesAreHonest'
    BY <1>h, <1>u, <2>1, <2>2 DEF CopiesAreHonest, TypeOK, Honest
  <2> QED BY <1>s, <1>u, <2>1, <2>3, <2>4 DEF QuietIsQuiet
<1>2. ASSUME NEW k \in Rounds, Forward(k) PROVE RecInv'
  <2>0. fwd[k] \in [at : FwdLabels, rec : Record] /\ Honest(fwd[k].rec)
    BY DEF TypeOK, CopiesAreHonest
  <2>1. PICK to \in FwdLabels :
          fwd' = [fwd EXCEPT ![k].at = to,
                             ![k].rec = IF to \in {"publish", "persist"} THEN mem ELSE Starting]
    BY <1>2 DEF Forward, FwdRead, FwdPublish, FwdSkip, FwdReadAgain, FwdPersist,
       FwdExit, FwdStep, FwdLabels
  <2>2. /\ mem' \in {mem, fwd[k].rec} /\ file' \in {file, fwd[k].rec} /\ lost' \in Nat
        /\ fwd[k].at = "off" => FALSE
    BY <1>2, PersistMeans DEF Forward, FwdRead, FwdPublish, FwdSkip,
       FwdReadAgain, FwdPersist, FwdExit, FwdStep, Silent, recVars, TypeOK
  <2>3. Starting \in Record /\ Honest(Starting)
    BY DEF Starting, Record, Honest, TerminalStatuses
  <2>4. /\ fwd' \in [Rounds -> [at : FwdLabels, rec : Record]]
        /\ \A i \in Rounds : fwd'[i].rec \in {fwd[i].rec, mem, Starting}
    BY <2>1, <2>3 DEF TypeOK
  <2>5. TypeOK'
    BY <1>s, <1>u, <2>0, <2>2, <2>4 DEF TypeOK
  <2>6. CopiesAreHonest'
    <3>1. Honest(mem)' /\ Honest(file)' /\ Honest(stopper.rec)'
      BY <1>h, <1>u, <2>0, <2>2 DEF CopiesAreHonest, TypeOK, Honest
    <3>2. ASSUME NEW i \in Rounds PROVE Honest(fwd[i].rec)'
      BY <1>h, <2>3, <2>4 DEF CopiesAreHonest, TypeOK, Honest
    <3> QED BY <3>1, <3>2 DEF CopiesAreHonest
  <2>7. ~quiet
    BY <2>2 DEF QuietIsQuiet
  <2> QED BY <1>s, <1>u, <2>5, <2>6, <2>7 DEF QuietIsQuiet
<1> QED BY <1>1, <1>2

(* The stop request, the exits, the crash, and steps of nobody.            *)
LEMMA OthersKeep ==
  LoopInv /\ LoopInv' /\ RecInv
    /\ (RequestStop \/ (\E k \in Rounds : TrainingExits(k)) \/ ServiceCrash \/ UNCHANGED vars)
    => RecInv'
<1> SUFFICES ASSUME LoopInv, LoopInv', RecInv,
                    RequestStop \/ (\E k \in Rounds : TrainingExits(k))
                      \/ ServiceCrash \/ UNCHANGED vars
             PROVE  RecInv'
  OBVIOUS
<1> USE DEF RecInv
<1>n. [Next]_vars
  BY DEF Next
<1>h. \A rec \in Record : Honest(rec) => Honest(rec)'
  BY <1>n, LoopStep, HonestStays
<1>s. ResultIsThere' /\ LaunchedIsThere' /\ LoopTypeOK'
  BY <1>n, LoopStep, SessionParts DEF LoopInv
<1>0. Starting \in Record /\ Honest(Starting)
  BY DEF Starting, Record, Honest, TerminalStatuses
<1>1. CASE RequestStop
  <2>1. /\ UNCHANGED <<pc, result, mem, fwd, quiet>>
        /\ stopper' \in [at : StopLabels, rec : {Starting, mem}]
        /\ stopper'.at = "persist" => stopper'.rec = mem
        /\ \/ UNCHANGED <<file, lost>>
           \/ Persist(stopper.rec) /\ stopper.at = "persist"
    BY <1>1 DEF RequestStop, StopMark, SignalStop, StopSignal, StopRead,
       StopPersist, StopStep, Silent, recVars, loopVars, StopLabels
  <2>2. file' \in {file, stopper.rec} /\ lost' \in Nat
        /\ (lost' = 0 => lost = 0 /\ file' \in {file, stopper.rec})
    BY <2>1, PersistMeans DEF TypeOK
  <2>3. stopper' \in [at : StopLabels, rec : Record] /\ stopper'.rec \in {Starting, mem}
    BY <1>0, <2>1 DEF TypeOK
  <2>4. TypeOK'
    BY <1>s, <2>1, <2>2, <2>3 DEF TypeOK
  <2>5. CopiesAreHonest'
    BY <1>h, <1>0, <2>1, <2>2, <2>3 DEF CopiesAreHonest, TypeOK, Honest
  <2>6. QuietIsQuiet'
    BY <2>1, <2>2 DEF QuietIsQuiet
  <2> QED BY <1>s, <2>4, <2>5, <2>6
<1>2. CASE \E k \in Rounds : TrainingExits(k)
  <2>1. UNCHANGED <<pc, result, mem, file, lost, fwd, stopper, quiet>>
    BY <1>2 DEF TrainingExits, ProcessExits, Silent, recVars
  <2>2. TypeOK' /\ CopiesAreHonest'
    BY <1>h, <1>s, <2>1 DEF TypeOK, CopiesAreHonest, Honest
  <2>3. QuietIsQuiet'
    BY <2>1 DEF QuietIsQuiet
  <2> QED BY <1>s, <2>2, <2>3
<1>3. CASE ServiceCrash
  <2>1. /\ pc' = "crashed" /\ UNCHANGED <<result, mem, file, lost, quiet>>
        /\ fwd' = [k \in Rounds |-> [at |-> "off", rec |-> Starting]]
        /\ stopper' = [at |-> "end", rec |-> Starting]
    BY <1>3 DEF ServiceCrash, Crash, Silent, recVars
  <2>2. TypeOK'
    BY <1>0, <1>s, <2>1 DEF TypeOK, FwdLabels, StopLabels
  <2>3. CopiesAreHonest'
    BY <1>0, <1>h, <2>1 DEF TypeOK, CopiesAreHonest, Honest
  <2>4. QuietIsQuiet'
    BY <2>1 DEF QuietIsQuiet, ClosedPcs, EndPcs
  <2> QED BY <1>s, <2>2, <2>3, <2>4
<1>4. CASE UNCHANGED vars
  <2>1. UNCHANGED <<pc, result, mem, file, lost, fwd, stopper, quiet>>
    BY <1>4 DEF vars, loopVars, recVars
  <2>2. TypeOK' /\ CopiesAreHonest'
    BY <1>h, <1>s, <2>1 DEF TypeOK, CopiesAreHonest, Honest
  <2>3. QuietIsQuiet'
    BY <2>1 DEF QuietIsQuiet
  <2> QED BY <1>s, <2>2, <2>3
<1> QED BY <1>1, <1>2, <1>3, <1>4

-----------------------------------------------------------------------------
LEMMA RecInit == Init => LoopInit /\ RecInv
<1> SUFFICES ASSUME Init PROVE RecInv
  BY DEF Init
<1>1. Starting \in Record /\ Honest(Starting)
  BY DEF Starting, Record, Honest, TerminalStatuses
<1>2. LoopTypeOK
  BY InvInit DEF Init, LoopInv
<1>3. TypeOK
  BY <1>1, <1>2 DEF Init, TypeOK, FwdLabels, StopLabels
<1>4. CopiesAreHonest
  BY <1>1 DEF Init, CopiesAreHonest
<1>5. ResultIsThere /\ LaunchedIsThere /\ QuietIsQuiet
  BY DEF Init, LoopInit, ResultIsThere, LaunchedIsThere, QuietIsQuiet,
     ClosedPcs, TrainingPcs
<1> QED BY <1>3, <1>4, <1>5 DEF RecInv

LEMMA RecStep == LoopInv /\ LoopInv' /\ RecInv /\ [Next]_vars => RecInv'
BY WorkerKeeps, EndKeeps, OutputKeeps, OthersKeep DEF Next

(* A session with its record, its forwarders and its stop request is a     *)
(* session of TuningLoop: what holds of those holds of these.              *)
THEOREM RunIsALoop == Spec => LoopSpec
BY RecInit, LoopStep, PTL DEF Spec, LoopSpec

(* Whatever is written late or lost: a terminal record is the result of    *)
(* the loop, a named training was launched, and a quiet end is on disk.    *)
THEOREM RecordStaysHonest == Spec => []RecordIsHonest
<1>1. RecInv => RecordIsHonest
  <2> SUFFICES ASSUME RecInv PROVE RecordIsHonest
    OBVIOUS
  <2>1. RecordIsTrue
    BY DEF RecInv, CopiesAreHonest, Honest, RecordIsTrue
  <2>2. QuietEndIsTerminal
    BY DEF RecInv, QuietIsQuiet, QuietEndIsTerminal, EndPcs
  <2> QED BY <2>1, <2>2 DEF RecordIsHonest
<1>2. Spec => []LoopInv
  BY RunIsALoop, LoopInvariant, PTL
<1>3. Spec => []RecInv
  BY RecInit, RecStep, <1>2, PTL DEF Spec
<1> QED BY <1>1, <1>3, PTL
=============================================================================
