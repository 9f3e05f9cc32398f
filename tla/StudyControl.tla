---------------------------- MODULE StudyControl ----------------------------
(***************************************************************************)
(* One HPO study as the page controls it: the event loop that creates,     *)
(* starts, resumes and stops it and starts trainings from its winner       *)
(* (ui/hpo_api.py, ui/hpo_reuse.py, ui/hpo_training.py), the controller    *)
(* threads that run it (ui/hpo_controller.py), the registry that keeps     *)
(* them (run_state/manager.py) and a reader in the thread pool.  The       *)
(* executor is HpoExecution; here a session only claims and settles        *)
(* trials and moves the status.                                            *)
(*                                                                         *)
(* The handlers that change something are coroutines without an await      *)
(* after their body is read, so the event loop is at one of them at a      *)
(* time; the controller threads and the reader run between their steps.    *)
(* study.json and execution.json are read in transactions of their own.    *)
(***************************************************************************)
EXTENDS Naturals

CONSTANTS
  Budget,       \* study.config.budget
  Scores,       \* the values a successful trial can have
  MaxWorkers,   \* bound: controllers created, numbered in their order
  MaxRestarts,  \* bound: restarts of the service
  MaxDrifts     \* bound: changes of the bound snapshot or model file

Trials == 1..Budget
Workers == 1..MaxWorkers
Nobody == 0

ASSUME BudgetAssumption == Budget \in Nat \ {0}
ASSUME ScoreAssumption == Scores # {} /\ Scores \subseteq Nat \ {0}
ASSUME BoundsAssumption ==
  MaxWorkers \in Nat /\ MaxRestarts \in Nat /\ MaxDrifts \in Nat

(* A trial of study.json; the value is 0 unless it succeeded.  "FAILED"    *)
(* stands for "INTERRUPTED" too: a result without a value.                 *)
Trial(state, value) == [state |-> state, value |-> value]
Unclaimed == Trial("UNCLAIMED", 0)
Pending   == Trial("PENDING", 0)
Outcomes  == {Trial("SUCCESS", v) : v \in Scores} \cup {Trial("FAILED", 0)}
Cancelled == Trial("CANCELLED", 0)

-----------------------------------------------------------------------------
VARIABLES
  study,       \* study.json: its trials
  status,      \* execution.json: its status; "NONE" without a study and
               \* "ABSENT" without the file
  drifted,     \* the bound files are not what the study froze
  worker,      \* the controllers and their threads
  registered,  \* manager._controllers[study_id]
  retained,    \* manager._retained[study_id]
  slot,        \* the reservation: a controller, another training or nobody
  loop,        \* the request the event loop is at
  poll,        \* a reader of the thread pool: its request, its last answer
  reused,      \* the training that runs from a trial of the study
  restarts, drifts

files == <<study, status, drifted>>
registry == <<registered, retained>>
clock == <<restarts, drifts>>
studyVars == <<files, worker, registry, slot, loop, poll, reused, clock>>

(* run: attempt 0 of a start;  late: the thread's retry window has closed; *)
(* stop: the stop event.  None of the three is read after the thread ended.*)
Unborn == [pc |-> "unborn", run |-> FALSE, late |-> FALSE, stop |-> FALSE,
           error |-> "none"]
Forgotten == [Unborn EXCEPT !.pc = "forgotten"]

SessionPcs == {"attempt", "session", "closing", "pausing"}
ActivePcs == SessionPcs \cup {"backoff", "ended"}

OtherTraining == MaxWorkers + 1
NoRequest == [op |-> "idle", pc |-> "idle", trial |-> 0, quiet |-> FALSE]

(* best: the first of the ranking in the study that was read.              *)
NoRead == [op |-> "idle", pc |-> "idle", status |-> "NONE", best |-> 0,
           approved |-> FALSE, canStop |-> FALSE, error |-> "none"]
NoReuse == [kind |-> "none", trial |-> 0, quiet |-> FALSE]

StudyInit ==
  /\ study = [n \in Trials |-> Unclaimed]
  /\ status = "NONE" /\ drifted = FALSE
  /\ worker = [w \in Workers |-> Unborn]
  /\ registered = Nobody /\ retained = Nobody /\ slot = Nobody
  /\ loop = NoRequest /\ poll = NoRead
  /\ reused = NoReuse
  /\ restarts = 0 /\ drifts = 0

-----------------------------------------------------------------------------
(* The registry and the rules the projections share. *)

IsActive(w) == worker[w].pc \in ActivePcs

(* manager.get: the registered controller, else the retained one.          *)
Get == IF registered # Nobody THEN registered ELSE retained

ControllerFor == IF Get # Nobody /\ IsActive(Get) THEN Get ELSE Nobody

TerminalError ==
  IF Get # Nobody /\ ~IsActive(Get) THEN worker[Get].error ELSE "none"

ControllerError ==
  IF ControllerFor # Nobody THEN worker[ControllerFor].error
                            ELSE TerminalError

Claimed(s) == {n \in Trials : s[n].state # "UNCLAIMED"}
Succeeded(s) == {n \in Trials : s[n].state = "SUCCESS"}

PrecedesLater(s, m, n) ==
  s[m].value > s[n].value \/ (s[m].value = s[n].value /\ m > n)

Precedes(s, m, n) ==
  s[m].value > s[n].value \/ (s[m].value = s[n].value /\ m < n)

(* rank_trials(study)[0], 0 when the ranking is empty.                     *)
Top(s) ==
  IF Succeeded(s) = {} THEN 0
  ELSE CHOOSE n \in Succeeded(s) :
         \A m \in Succeeded(s) \ {n} : Precedes(s, n, m)

ApprovedWhileActive(execution, hasSuccess) ==
  execution = "COMPLETED" /\ hasSuccess

Approved(execution, hasSuccess) ==
  execution = "COMPLETED" /\ hasSuccess /\ ControllerFor = Nobody

-----------------------------------------------------------------------------
(* The event loop: create, start, resume, stop. *)

(* create_study writes study.json; the execution is bound afterwards.      *)
Create ==
  /\ loop = NoRequest
  /\ status = "NONE"
  /\ status' = "ABSENT"
  /\ loop' = [NoRequest EXCEPT !.op = "create", !.pc = "prepare"]
  /\ UNCHANGED <<study, drifted, worker, registry, slot, poll, reused,
                 clock>>

(* runner.prepare needs the runner lock of all studies and can fail.       *)
Prepare ==
  /\ loop.pc = "prepare"
  /\ status' \in {"READY", "ABSENT"}
  /\ loop' = NoRequest
  /\ UNCHANGED <<study, drifted, worker, registry, slot, poll, reused,
                 clock>>

(* _start, _resume: with an active controller they only answer its status. *)
Ask(op) ==
  /\ loop = NoRequest
  /\ status # "NONE"
  /\ ControllerFor = Nobody
  /\ loop' = [NoRequest EXCEPT !.op = op, !.pc = "read"]
  /\ UNCHANGED <<files, worker, registry, slot, poll, reused, clock>>

(* A transient conflict outlives the bounded retries, or the status is     *)
(* one the route refuses, or it goes on.                                   *)
Admitted(op) ==
  IF op = "start" THEN {"READY"} ELSE {"READY", "PAUSED", "RUNNING"}

ReadExecution ==
  /\ loop.pc = "read"
  /\ loop' = IF status \in Admitted(loop.op)
             THEN [loop EXCEPT !.pc = "launch"]
             ELSE NoRequest
  /\ UNCHANGED <<files, worker, registry, slot, poll, reused, clock>>

(* The gate, the reservation, register() and start().                      *)
Launch(w) ==
  /\ loop.pc = "launch"
  /\ worker[w] = Unborn
  /\ \A v \in Workers : v < w => worker[v] # Unborn
  /\ slot = Nobody
  /\ registered # Nobody => ~IsActive(registered)
  /\ slot' = w
  /\ registered' = w
  /\ worker' = [worker EXCEPT ![w].pc = "attempt",
                              ![w].run = (loop.op = "start")]
  /\ loop' = NoRequest
  /\ UNCHANGED <<files, retained, poll, reused, clock>>

(* Device gate, slot gate, a busy slot, or a read that stays busy.         *)
Refuse ==
  /\ loop.pc \in {"read", "launch", "binding", "status", "slot"}
  /\ loop' = NoRequest
  /\ UNCHANGED <<files, worker, registry, slot, poll, reused, clock>>

Stop ==
  /\ loop = NoRequest
  /\ ControllerFor # Nobody
  /\ worker' = [worker EXCEPT ![ControllerFor].stop = TRUE]
  /\ UNCHANGED <<files, registry, slot, loop, poll, reused, clock>>

-----------------------------------------------------------------------------
(* A training from the winner: resolve_hpo_formal_training ("formal") and  *)
(* resolve_hpo_verification ("verify"), then the start route.              *)

(* The client names a trial; only the first of the ranking passes.         *)
ReadWinner(kind) ==
  /\ loop = NoRequest
  /\ Top(study) # 0
  /\ loop' = [NoRequest EXCEPT !.op = kind, !.pc = "binding",
                               !.trial = Top(study),
                               !.quiet = (ControllerFor = Nobody)]
  /\ UNCHANGED <<files, worker, registry, slot, poll, reused, clock>>

CheckBinding ==
  /\ loop.pc = "binding"
  /\ ~drifted
  /\ loop' = [loop EXCEPT !.pc = "status"]
  /\ UNCHANGED <<files, worker, registry, slot, poll, reused, clock>>

CheckStatus ==
  /\ loop.pc = "status"
  /\ status # "ABSENT"
  /\ loop.op = "formal" => status = "COMPLETED"
  /\ loop' = [loop EXCEPT !.pc = "slot"]
  /\ UNCHANGED <<files, worker, registry, slot, poll, reused, clock>>

StartFromWinner ==
  /\ loop.pc = "slot"
  /\ loop.op = "formal" => ControllerFor = Nobody
  /\ slot = Nobody
  /\ slot' = OtherTraining
  /\ reused' = [kind |-> loop.op, trial |-> loop.trial, quiet |-> loop.quiet]
  /\ loop' = NoRequest
  /\ UNCHANGED <<files, worker, registry, poll, clock>>

(* Any other training of the service takes and frees the same slot.        *)
OtherTakesSlot ==
  /\ loop = NoRequest
  /\ slot = Nobody
  /\ slot' = OtherTraining
  /\ UNCHANGED <<files, worker, registry, loop, poll, reused, clock>>

OtherFreesSlot ==
  /\ slot = OtherTraining
  /\ slot' = Nobody
  /\ reused' = NoReuse
  /\ UNCHANGED <<files, worker, registry, loop, poll, clock>>

-----------------------------------------------------------------------------
(* A reader: the status of the study, its best configuration, its row.     *)

Reading == poll.pc \in {"execution", "answer"}

ReadStudy(op) ==
  /\ ~Reading
  /\ status # "NONE"
  /\ op = "best" => Top(study) # 0
  /\ poll' = [NoRead EXCEPT !.op = op, !.pc = "execution",
                            !.best = Top(study)]
  /\ UNCHANGED <<files, worker, registry, slot, loop, reused, clock>>

ReadStatus ==
  /\ poll.pc = "execution"
  /\ ~(poll.op = "best" /\ status = "ABSENT")
  /\ poll' = [poll EXCEPT !.pc = "answer", !.status = status]
  /\ UNCHANGED <<files, worker, registry, slot, loop, reused, clock>>

(* An unprepared study reads READY, except in the list.                    *)
StatusPayload ==
  LET execution == IF poll.status = "ABSENT" THEN "READY" ELSE poll.status
  IN [poll EXCEPT
        !.status = execution,
        !.approved = Approved(execution, poll.best # 0),
        !.canStop = ControllerFor # Nobody
                      /\ execution \in {"READY", "RUNNING"},
        !.error = IF ControllerError # "none" THEN ControllerError
                  ELSE IF execution = "BLOCKED" THEN "RECOVERY" ELSE "none"]

BestPayload == [poll EXCEPT !.approved = Approved(poll.status, TRUE)]

Row == [poll EXCEPT !.best = 0]

Answer ==
  /\ poll.pc = "answer"
  /\ \/ poll.op = "status" /\ poll' = [StatusPayload EXCEPT !.pc = "idle"]
     \/ poll.op = "best" /\ poll' = [BestPayload EXCEPT !.pc = "idle"]
     \/ poll.op = "list" /\ poll' = [Row EXCEPT !.pc = "idle"]
  /\ UNCHANGED <<files, worker, registry, slot, loop, reused, clock>>

(* Busy: read again or answered so (in the list, a "transient" row); or    *)
(* the study has no execution to give the conditions of.                   *)
ReadFails ==
  /\ poll.pc = "execution"
  /\ \/ poll.op = "best" /\ status = "ABSENT"
     \/ \E w \in Workers : IsActive(w)
     \/ loop # NoRequest
  /\ poll' = [NoRead EXCEPT !.error = IF poll.op = "list" THEN "BUSY"
                                                         ELSE "none"]
  /\ UNCHANGED <<files, worker, registry, slot, loop, reused, clock>>

-----------------------------------------------------------------------------
(* The thread of controller w: HpoController._run around a session.        *)

At(w, pc) == worker[w].pc = pc
Becomes(w, pc) == worker' = [worker EXCEPT ![w].pc = pc]
Fails(w, error) ==
  worker' = [worker EXCEPT ![w].pc = "ended", ![w].error = error]

OutsideWorker == <<registry, slot, loop, poll, reused, clock>>

(* Attempt 0 of a start calls run(), every other one resume().             *)
Attempt(w) ==
  /\ At(w, "attempt")
  /\ \/ /\ status = "COMPLETED"
        /\ Becomes(w, "ended")
        /\ UNCHANGED status
     \/ /\ status # "COMPLETED"
        /\ worker[w].run => status = "READY"
        /\ status' = "RUNNING"
        /\ Becomes(w, "session")
     \/ /\ worker[w].run /\ status \notin {"READY", "COMPLETED"}
        /\ Fails(w, IF status = "PAUSED" THEN "CONFLICT" ELSE "RECOVERY")
        /\ UNCHANGED status
  /\ UNCHANGED <<study, drifted, OutsideWorker>>

PendingTrials == {n \in Trials : study[n].state = "PENDING"}

Claim(w) ==
  /\ At(w, "session")
  /\ PendingTrials = {}
  /\ ~worker[w].stop
  /\ ~drifted
  /\ \E n \in Trials :
       /\ Claimed(study) = 1..(n - 1)
       /\ study' = [study EXCEPT ![n] = Pending]
  /\ UNCHANGED <<status, drifted, worker, OutsideWorker>>

(* An error that is not tried again ends the controller: the binding or    *)
(* the environment moved before a new or a prepared candidate, a write     *)
(* failed, files disagree, a lock is still busy after the last retry.      *)
SessionFails(w) ==
  /\ worker[w].pc \in SessionPcs
  /\ Fails(w, "ERROR")
  /\ UNCHANGED <<files, OutsideWorker>>

(* The trial trains and is told.  A stop cancels it unless the training    *)
(* was faster; so does the stop an earlier controller left on record.      *)
Settle(w) ==
  /\ At(w, "session")
  /\ \E n \in PendingTrials, o \in Outcomes \cup {Cancelled} :
       /\ o = Cancelled => worker[w].stop \/ w > 1
       /\ study' = [study EXCEPT ![n] = o]
  /\ Becomes(w, "closing")
  /\ UNCHANGED <<status, drifted, OutsideWorker>>

(* The attempt is finalized: a stop ends the session then, unless it comes *)
(* later, the result was an earlier session's or a rejected candidate's.   *)
Close(w) ==
  /\ At(w, "closing")
  /\ \/ Becomes(w, "session")
     \/ worker[w].stop /\ Becomes(w, "pausing")
  /\ UNCHANGED <<files, OutsideWorker>>

(* An earlier launch that cannot be proved, or damaged audit facts.        *)
Block(w) ==
  /\ At(w, "session")
  /\ PendingTrials # {}
  /\ status' = "BLOCKED"
  /\ Fails(w, "RECOVERY")
  /\ UNCHANGED <<study, drifted, OutsideWorker>>

AllSettled == PendingTrials = {} /\ Claimed(study) = Trials

(* Mutant of FinishSession: the last trial need not be settled. *)
FinishEarly(w) ==
  /\ At(w, "session")
  /\ Claimed(study) = Trials
  /\ status' = "COMPLETED"
  /\ Becomes(w, "ended")
  /\ UNCHANGED <<study, drifted, OutsideWorker>>

(* Between two trials a stop pauses what is not complete, a claimed trial  *)
(* without an attempt included; after a trial it pauses whatever is left.  *)
FinishSession(w) ==
  /\ \/ At(w, "session") /\ AllSettled /\ status' = "COMPLETED"
     \/ /\ \/ At(w, "pausing")
           \/ At(w, "session") /\ worker[w].stop /\ ~AllSettled
        /\ status' = "PAUSED"
  /\ Becomes(w, "ended")
  /\ UNCHANGED <<study, drifted, OutsideWorker>>

(* Mutant of Busy: a second run() instead of resume(). *)
BusyReplays(w) ==
  /\ worker[w].pc \in SessionPcs
  /\ Reading \/ loop # NoRequest
  /\ ~worker[w].stop /\ ~worker[w].late
  /\ Becomes(w, "backoff")
  /\ UNCHANGED <<files, OutsideWorker>>

(* A reader held the lock for longer than the session waits: once more,    *)
(* through resume(), unless the window has closed or the user stopped.     *)
Busy(w) ==
  /\ worker[w].pc \in SessionPcs
  /\ Reading \/ loop # NoRequest
  /\ ~worker[w].stop /\ ~worker[w].late
  /\ worker' = [worker EXCEPT ![w].pc = "backoff", ![w].run = FALSE]
  /\ UNCHANGED <<files, OutsideWorker>>

Retry(w) ==
  /\ At(w, "backoff")
  /\ Becomes(w, IF worker[w].stop THEN "ended" ELSE "attempt")
  /\ UNCHANGED <<files, OutsideWorker>>

(* The ten seconds count from the start of the thread.                     *)
WindowCloses(w) ==
  /\ IsActive(w)
  /\ ~worker[w].late
  /\ worker' = [worker EXCEPT ![w].late = TRUE]
  /\ UNCHANGED <<files, OutsideWorker>>

(* Mutant of MarkDone: the slot is freed before the registry knows. *)
MarkDoneFrees(w) ==
  /\ At(w, "ended")
  /\ worker' = [worker EXCEPT ![w] = [Unborn EXCEPT !.pc = "publish",
                                                   !.error = worker[w].error]]
  /\ slot' = IF slot = w THEN Nobody ELSE slot
  /\ UNCHANGED <<files, registry, loop, poll, reused, clock>>

MarkDone(w) ==
  /\ At(w, "ended")
  /\ worker' = [worker EXCEPT ![w] = [Unborn EXCEPT !.pc = "publish",
                                                   !.error = worker[w].error]]
  /\ UNCHANGED <<files, OutsideWorker>>

(* unregister() and retain() go by the study's id, not by the controller.  *)
Publish(w) ==
  /\ At(w, "publish")
  /\ registered' = Nobody
  /\ retained' = IF worker[w].error = "none" THEN Nobody ELSE w
  /\ Becomes(w, "release")
  /\ UNCHANGED <<files, slot, loop, poll, reused, clock>>

(* A token that is not the reservation's own is refused.                   *)
Release(w) ==
  /\ At(w, "release")
  /\ slot' = IF slot = w THEN Nobody ELSE slot
  /\ Becomes(w, "gone")
  /\ UNCHANGED <<files, registry, loop, poll, reused, clock>>

-----------------------------------------------------------------------------
(* What happens around them. *)

(* Thirty minutes, or twenty newer failures.                               *)
RetentionEnds ==
  /\ retained # Nobody
  /\ At(retained, "gone")
  /\ worker' = [worker EXCEPT ![retained] = Forgotten]
  /\ retained' = Nobody
  /\ UNCHANGED <<files, registered, slot, loop, poll, reused, clock>>

Drift ==
  /\ drifts < MaxDrifts
  /\ status # "NONE"
  /\ drifted' = ~drifted
  /\ drifts' = drifts + 1
  /\ UNCHANGED <<study, status, worker, registry, slot, loop, poll, reused,
                 restarts>>

Restart ==
  /\ restarts < MaxRestarts
  /\ restarts' = restarts + 1
  /\ worker' = [w \in Workers |-> IF worker[w] = Unborn THEN Unborn
                                                        ELSE Forgotten]
  /\ registered' = Nobody /\ retained' = Nobody /\ slot' = Nobody
  /\ loop' = NoRequest /\ poll' = NoRead /\ reused' = NoReuse
  /\ UNCHANGED <<files, drifts>>

Work(w) ==
  \/ Attempt(w) \/ Claim(w) \/ SessionFails(w) \/ Settle(w) \/ Close(w)
  \/ Block(w) \/ FinishSession(w) \/ Retry(w)
  \/ MarkDone(w) \/ Publish(w) \/ Release(w)

Request ==
  \/ Create \/ Prepare \/ ReadExecution \/ Refuse \/ Stop
  \/ CheckBinding \/ CheckStatus \/ StartFromWinner
  \/ \E op \in {"start", "resume"} : Ask(op)
  \/ \E kind \in {"formal", "verify"} : ReadWinner(kind)
  \/ \E w \in Workers : Launch(w)

Read ==
  \/ \E op \in {"status", "best", "list"} : ReadStudy(op)
  \/ ReadStatus \/ Answer \/ ReadFails

StudyNext ==
  \/ Request
  \/ Read
  \/ \E w \in Workers : Work(w) \/ Busy(w) \/ WindowCloses(w)
  \/ OtherTakesSlot \/ OtherFreesSlot
  \/ RetentionEnds \/ Drift \/ Restart

StudySpec == StudyInit /\ [][StudyNext]_studyVars

-----------------------------------------------------------------------------
(* A controller that still runs is the one the registry finds and the one  *)
(* the slot is reserved for, so a stop reaches it and no second training   *)
(* is admitted beside it (_finish, _start, _resume and the registry by     *)
(* study id, hpo_controller.py and manager.py).                            *)
WorkerIsKnown ==
  \A w \in Workers : IsActive(w) => registered = w /\ slot = w

(* The failure of the last attempt is what a status read reports from the  *)
(* moment it is recorded until a newer attempt, the end of its retention   *)
(* or a restart: never a fall back to "READY with no error"                *)
(* (HpoController._finish, _terminal_controller_for).                      *)
FailureStaysReadable ==
  \A w \in Workers :
    /\ worker[w].error # "none" /\ ~At(w, "forgotten")
    /\ \A v \in Workers : v > w => worker[v] = Unborn
    => ControllerError = worker[w].error

(* An answer that approves the study for a formal training is true when it *)
(* is given and stays true: the search is over, has a successful trial and *)
(* no controller works on it (_approved_for_formal over reads of           *)
(* different moments).                                                     *)
ApprovedIsFinal ==
  poll.approved =>
    /\ status = "COMPLETED" /\ Succeeded(study) # {}
    /\ \A w \in Workers : ~IsActive(w)

(* A training started from the study trains a trial that succeeded, a      *)
(* formal one only from a completed study, and the trial nobody beats when *)
(* no controller was active as the request came in (the resolve functions  *)
(* read the ranking, the binding, the status and the slot one after the    *)
(* other).                                                                 *)
ReuseIsEarned ==
  [][reused' \notin {reused, NoReuse} =>
       LET r == reused'
       IN /\ study[r.trial].state = "SUCCESS"
          /\ r.kind = "formal" => status = "COMPLETED"
          /\ r.quiet =>
               \A m \in Succeeded(study) :
                 /\ study[m].value <= study[r.trial].value
                 /\ m < r.trial => study[m].value < study[r.trial].value]_studyVars

(* A controller reports that a study needs a recovery only when it blocked *)
(* the study itself, and never that a resume was needed: a transient       *)
(* conflict is retried through resume() and not through a second run()     *)
(* (HpoController._run).                                                   *)
RetriesRecover ==
  [][\A w \in Workers :
       worker'[w].error # worker[w].error =>
         /\ worker'[w].error # "CONFLICT"
         /\ worker'[w].error = "RECOVERY" => status' = "BLOCKED"]_studyVars

(* Seen from the page a study takes the course the executor takes it       *)
(* through: what is claimed and settled, and when it is blocked, paused    *)
(* and complete (HpoRunner._run_session, _finish_session, _blocked).       *)
Course == INSTANCE StudyCourse WITH
  status <- IF status = "NONE" THEN "ABSENT" ELSE status,
  states <- [n \in Trials |-> study[n].state]

ImplementsCourse == Course!Spec

(* A controller is known while it runs and its failure once it ended       *)
(* (HpoController.start, _finish and the registry).                        *)
ControllerIsKnown == WorkerIsKnown /\ FailureStaysReadable
=============================================================================
