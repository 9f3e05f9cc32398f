---------------------------- MODULE TrainingSlot ----------------------------
(***************************************************************************)
(* The one slot for real trainings: the reservation and the registry of    *)
(* run_state/manager.py, the gate over the persisted records (app.py,      *)
(* gate.py), the start routes, what the three kinds of worker do to the    *)
(* slot and to their records, and the routes that reconcile a record.      *)
(*                                                                         *)
(* A request is one call of a start route and, once admitted, the run it   *)
(* starts, with at most one training (TuningLoop has the trainings of one  *)
(* session, HpoExecution those of one study).  The routes run on the event *)
(* loop and never wait between the gate and the start of the worker, so    *)
(* loop is held for that long; worker threads go on meanwhile.  Of a       *)
(* record only its run, whether it is open, and whether it has an identity *)
(* are kept; there is one study.                                           *)
(***************************************************************************)
EXTENDS Naturals, FiniteSets

CONSTANTS Requests,
          NoRun,
          MaxFaults,   \* bound: failed writes, unknown identities, errors
          MaxCrashes   \* bound: restarts of the service

ASSUME SlotAssumption == /\ NoRun \notin Requests
                         /\ MaxFaults \in Nat
                         /\ MaxCrashes \in Nat

Kinds == {"manual", "tuning", "dry", "hpo"}
Files == {"manual", "tuning"}

(* Where a request is.  zombie: registered, but its thread never started;  *)
(* raised: its route was left by an error that nothing handles.            *)
Labels ==
  {"new", "gated", "reserved", "recorded", "starting", "open", "intent",
   "launched", "training", "ended", "written", "done", "gone", "refused",
   "lost", "zombie", "raised"}

(* pid: the record has pid and create token of the training of its run. *)
RunRecord ==
  [run : Requests \cup {NoRun},
   status : {"none", "starting", "running", "terminal"}, pid : BOOLEAN]

ExecRecord ==
  [status : {"READY", "RUNNING", "PAUSED", "COMPLETED", "BLOCKED"},
   phase : {"none", "intent", "running", "decided"},
   run : Requests \cup {NoRun}]

VARIABLES
  kind,         \* what each request asks for
  pc,
  loop,         \* the start route that occupies the event loop
  reservation,  \* RunManager._reservation
  file,         \* training_running.json and tuning_running.json
  exec,         \* execution.json of the study
  proc,         \* the training of each run
  forgotten,    \* history: left by its session, or reconciled while alive
  faults, crashes

slotVars == <<loop, reservation>>
diskVars == <<file, exec>>
envVars  == <<faults, crashes>>
vars == <<kind, pc, slotVars, diskVars, proc, forgotten, envVars>>

SlotTypeOK ==
  /\ kind \in [Requests -> Kinds]
  /\ pc \in [Requests -> Labels]
  /\ loop \in Requests \cup {NoRun}
  /\ reservation \in Requests \cup {NoRun}
  /\ file \in [Files -> RunRecord]
  /\ exec \in ExecRecord
  /\ proc \in [Requests -> {"none", "alive", "exited"}]
  /\ forgotten \subseteq Requests
  /\ faults \in 0..MaxFaults
  /\ crashes \in 0..MaxCrashes

Init ==
  /\ kind \in [Requests -> Kinds]
  /\ pc = [r \in Requests |-> "new"]
  /\ loop = NoRun
  /\ reservation = NoRun
  /\ file = [f \in Files |-> [run |-> NoRun, status |-> "none", pid |-> FALSE]]
  /\ exec = [status |-> "READY", phase |-> "none", run |-> NoRun]
  /\ proc = [r \in Requests |-> "none"]
  /\ forgotten = {}
  /\ faults = 0
  /\ crashes = 0

-----------------------------------------------------------------------------
(* Helpers. *)

Fault == faults < MaxFaults /\ faults' = faults + 1 /\ UNCHANGED crashes

Is(r, kinds) == kind[r] \in kinds
At(r, labels) == pc[r] \in labels
Goto(r, label) == pc' = [pc EXCEPT ![r] = label]

FileOf(r) == IF Is(r, {"manual"}) THEN "manual" ELSE "tuning"

(* A manual run is a task of the event loop, the others have threads. *)
MayStep(r) == Is(r, {"manual"}) => loop = NoRun

(* Registered and not marked done. *)
Active ==
  {r \in Requests : At(r, {"starting", "open", "intent", "launched",
                           "training", "ended", "written", "zombie"})}

(* What reserve() and the in-memory half of the gate look at, and its      *)
(* mutant: only the controllers.                                           *)
SlotTakenByController == Active # {}
SlotTaken == reservation # NoRun \/ Active # {}

Open(rec) == rec.status \in {"starting", "running"}

Gone(t) == t # NoRun /\ proc[t] # "alive"

(* Mutant of RecordBlocks: without an identity there is nothing to check.  *)
RecordBlocksIdentified(rec) == Open(rec) /\ rec.pid /\ ~Gone(rec.run)

(* evaluate_persisted_run_state: an unverifiable identity is as good as a  *)
(* live one; a refusal for it is a request that is repeated.               *)
RecordBlocks(rec) == Open(rec) /\ (rec.pid => ~Gone(rec.run))

(* _blocking_attempt. *)
StudyBlocks ==
  /\ exec.status = "RUNNING"
  /\ \/ exec.phase = "intent"
     \/ exec.phase = "running" /\ ~Gone(exec.run)

(* The terminal record of a worker or of reconcile_persisted_state. *)
Closed(rec) == [rec EXCEPT !.status = "terminal"]

(* reconcile_persisted_state leaves "starting" alone. *)
Reconciled(rec) == IF rec.status = "running" THEN Closed(rec) ELSE rec

(* write_run_state by a controller: its failure is swallowed. *)
Save(f, rec) ==
  \/ file' = [file EXCEPT ![f] = rec] /\ UNCHANGED envVars
  \/ Fault /\ UNCHANGED file

Freed(r) == IF reservation = r THEN NoRun ELSE reservation

-----------------------------------------------------------------------------
(* The start routes. *)

(* What each route checks of its own before the gate. *)
Requestable(r) ==
  /\ At(r, {"new"})
  /\ loop = NoRun
  /\ Is(r, {"tuning", "dry"}) => \A a \in Active : Is(a, {"manual", "hpo"})
  /\ Is(r, {"hpo"}) => exec.status \in {"READY", "RUNNING", "PAUSED"}

(* _assert_training_slot_free: the manual record first.  An open record of *)
(* a training that is gone is written back; a write that fails, or the     *)
(* tuning record or the study, refuses the request after all.              *)
Gate(r) == \E saved \in SUBSET Files :
  /\ Requestable(r)
  /\ ~Is(r, {"dry"})
  /\ ~SlotTaken
  /\ \A f \in saved : ~RecordBlocks(file[f])
  /\ "tuning" \in saved => "manual" \in saved
  /\ file' = [f \in Files |-> IF f \in saved THEN Reconciled(file[f])
                                              ELSE file[f]]
  /\ \/ saved = Files /\ ~StudyBlocks /\ Goto(r, "gated") /\ loop' = r
     \/ UNCHANGED <<pc, loop>>
  /\ UNCHANGED <<kind, reservation, exec, proc, forgotten, envVars>>

(* A dry run takes neither gate nor reservation. *)
DryRun(r) ==
  /\ Requestable(r)
  /\ Is(r, {"dry"})
  /\ Goto(r, "reserved")
  /\ loop' = r
  /\ UNCHANGED <<kind, reservation, diskVars, proc, forgotten, envVars>>

Reserve(r) ==
  /\ At(r, {"gated"})
  /\ ~SlotTaken
  /\ reservation' = r
  /\ Goto(r, "reserved")
  /\ UNCHANGED <<kind, loop, diskVars, proc, forgotten, envVars>>

Refuse(r, label) ==
  /\ Goto(r, label)
  /\ loop' = NoRun
  /\ reservation' = Freed(r)
  /\ UNCHANGED <<kind, diskVars, proc, forgotten>>

StartingRecord(r) == [run |-> r, status |-> "starting", pid |-> FALSE]

(* The run directory, its files and the first record: a failure that is    *)
(* handled refuses (RouteRaises has the others).                           *)
FirstRecord(r) ==
  /\ At(r, {"reserved"})
  /\ ~Is(r, {"hpo"})
  /\ \/ /\ file' = [file EXCEPT ![FileOf(r)] = StartingRecord(r)]
        /\ Goto(r, "recorded")
        /\ UNCHANGED <<kind, slotVars, exec, proc, forgotten, envVars>>
     \/ Fault /\ Refuse(r, "refused")

(* register() and start().  A thread that cannot be started gives the slot *)
(* back; a study is unregistered as well, a tuning run is not.             *)
StartWorker(r) ==
  /\ At(r, {"recorded"}) \/ (At(r, {"reserved"}) /\ Is(r, {"hpo"}))
  /\ \/ /\ Goto(r, "starting")
        /\ loop' = NoRun
        /\ UNCHANGED <<kind, reservation, diskVars, proc, forgotten, envVars>>
     \/ /\ ~Is(r, {"manual"})
        /\ Fault
        /\ Refuse(r, IF Is(r, {"hpo"}) THEN "refused" ELSE "zombie")

(* What a route does under its reservation and outside every handler: the  *)
(* name of the run is chosen again, the directory of the record is made,   *)
(* and a manual route looks for the yolo executable after its record.  An  *)
(* error there leaves the reservation and the record as they are.          *)
RouteRaises(r) ==
  /\ \/ At(r, {"reserved"}) /\ ~Is(r, {"hpo"})
     \/ At(r, {"recorded"}) /\ Is(r, {"manual"})
  /\ Fault
  /\ Goto(r, "raised")
  /\ loop' = NoRun
  /\ UNCHANGED <<kind, reservation, diskVars, proc, forgotten>>

-----------------------------------------------------------------------------
(* The workers of manual and tuning runs. *)

RunningRecord(r, pid) == [run |-> r, status |-> "running", pid |-> pid]

(* on_state before a training: running, without an identity. *)
ReportPhase(r) ==
  /\ At(r, {"starting"})
  /\ Is(r, {"tuning", "dry"})
  /\ Save("tuning", RunningRecord(r, FALSE))
  /\ UNCHANGED <<kind, pc, slotVars, exec, proc, forgotten>>

Launch(r) ==
  /\ \/ At(r, {"starting"}) /\ Is(r, {"manual", "tuning"})
     \/ At(r, {"intent"})
  /\ proc' = [proc EXCEPT ![r] = "alive"]
  /\ Goto(r, "launched")
  /\ UNCHANGED <<kind, slotVars, diskVars, forgotten, envVars>>

(* The identity of the training, if it can be read, goes to the record. *)
Identify(r) ==
  /\ At(r, {"launched"})
  /\ Is(r, {"manual", "tuning"})
  /\ MayStep(r)
  /\ Goto(r, "training")
  /\ \/ Save(FileOf(r), RunningRecord(r, TRUE))
     \/ /\ Fault
        /\ file' = [file EXCEPT ![FileOf(r)] = RunningRecord(r, FALSE)]
  /\ UNCHANGED <<kind, slotVars, exec, proc, forgotten>>

(* A stop or an error before the launch; a dry run launches nothing. *)
EndUnlaunched(r) ==
  /\ At(r, {"starting"})
  /\ ~Is(r, {"hpo"})
  /\ MayStep(r)
  /\ Goto(r, "ended")
  /\ UNCHANGED <<kind, slotVars, diskVars, proc, forgotten, envVars>>

(* The exit is awaited, or brought about by a stop or after an error. *)
EndTraining(r) ==
  /\ \/ At(r, {"training"}) /\ Is(r, {"manual", "tuning"})
     \/ At(r, {"launched"}) /\ Is(r, {"manual"})
  /\ MayStep(r)
  /\ proc' = [proc EXCEPT ![r] = "exited"]
  /\ Goto(r, "ended")
  /\ UNCHANGED <<kind, slotVars, diskVars, forgotten, envVars>>

(* A tuning session ends and its training does not: left in the background *)
(* (no auto_analyze), by a retry, or by an error (TuningLoop).             *)
LeaveTraining(r) ==
  /\ At(r, {"training"})
  /\ Is(r, {"tuning"})
  /\ proc[r] = "alive"
  /\ Goto(r, "ended")
  /\ forgotten' = forgotten \cup {r}
  /\ UNCHANGED <<kind, slotVars, diskVars, proc, envVars>>

(* The end of ManualRunController._run: no wait from record to release. *)
EndManual(r) ==
  /\ At(r, {"ended"})
  /\ Is(r, {"manual"})
  /\ MayStep(r)
  /\ Save("manual", Closed(file["manual"]))
  /\ Goto(r, "gone")
  /\ reservation' = Freed(r)
  /\ UNCHANGED <<kind, loop, exec, proc, forgotten>>

(* The end of a worker thread: record, done, retained, released. *)
WriteTerminal(r) ==
  /\ At(r, {"ended"})
  /\ Is(r, {"tuning", "dry"})
  /\ Save("tuning", [run |-> r, status |-> "terminal",
                     pid |-> proc[r] # "none"])
  /\ Goto(r, "written")
  /\ UNCHANGED <<kind, slotVars, exec, proc, forgotten>>

MarkDone(r) ==
  /\ At(r, {"written"}) \/ (At(r, {"ended"}) /\ Is(r, {"hpo"}))
  /\ Goto(r, "done")
  /\ UNCHANGED <<kind, slotVars, diskVars, proc, forgotten, envVars>>

Release(r) ==
  /\ At(r, {"done"})
  /\ Goto(r, "gone")
  /\ reservation' = Freed(r)
  /\ UNCHANGED <<kind, loop, diskVars, proc, forgotten, envVars>>

(* The forwarder of a training that was left still reads its output, and   *)
(* saves the record of its own session over whatever is there.             *)
LateWrite(r) ==
  /\ At(r, {"done", "gone"})
  /\ r \in forgotten
  /\ Is(r, {"tuning"})
  /\ file' = [file EXCEPT !["tuning"] = [run |-> r, status |-> "terminal",
                                         pid |-> TRUE]]
  /\ UNCHANGED <<kind, pc, slotVars, exec, proc, forgotten, envVars>>

-----------------------------------------------------------------------------
(* The worker of a study (HpoExecution, of which only the facts the gate   *)
(* reads are kept).                                                        *)

HpoStep(r, from, to, rec) ==
  /\ At(r, {from})
  /\ Is(r, {"hpo"})
  /\ exec' = rec
  /\ Goto(r, to)
  /\ UNCHANGED <<kind, slotVars, file, forgotten>>

OpenSession(r) ==
  /\ HpoStep(r, "starting", "open", [exec EXCEPT !.status = "RUNNING"])
  /\ UNCHANGED <<proc, envVars>>

ClaimTrial(r) ==
  /\ exec.phase \in {"none", "decided"}
  /\ proc[r] = "none"
  /\ HpoStep(r, "open", "intent",
             [exec EXCEPT !.phase = "intent", !.run = r])
  /\ UNCHANGED <<proc, envVars>>

(* The process cannot be created, or was gone before it was identified. *)
LaunchFails(r) ==
  /\ proc[r] # "alive"
  /\ \E from \in {"intent", "launched"} :
       HpoStep(r, from, "open", [exec EXCEPT !.phase = "decided"])
  /\ UNCHANGED <<proc, envVars>>

CommitIdentity(r) ==
  /\ HpoStep(r, "launched", "training", [exec EXCEPT !.phase = "running"])
  /\ UNCHANGED <<proc, envVars>>

(* The training ends, or is stopped: its result is decided. *)
ObserveExit(r) ==
  /\ proc' = [proc EXCEPT ![r] = "exited"]
  /\ HpoStep(r, "training", "open", [exec EXCEPT !.phase = "decided"])
  /\ UNCHANGED envVars

(* A lost session's attempt: decided if its training is provably gone,     *)
(* otherwise the study is blocked.                                         *)
RecoverGone(r) ==
  /\ exec.phase = "running"
  /\ Gone(exec.run)
  /\ HpoStep(r, "open", "open", [exec EXCEPT !.phase = "decided"])
  /\ UNCHANGED <<proc, envVars>>

RecoverBlocked(r) ==
  /\ exec.phase \in {"intent", "running"}
  /\ HpoStep(r, "open", "ended", [exec EXCEPT !.status = "BLOCKED"])
  /\ UNCHANGED <<proc, envVars>>

(* The budget is spent, or a stop was seen. *)
Settle(r) ==
  /\ exec.phase \in {"none", "decided"}
  /\ \E status \in {"PAUSED", "COMPLETED"} :
       HpoStep(r, "open", "ended", [exec EXCEPT !.status = status])
  /\ UNCHANGED <<proc, envVars>>

(* An error in a session: the owned training is stopped, which may not be  *)
(* confirmed.  The error may have been audited (BLOCKED); a busy lock      *)
(* makes the controller resume the study in the same worker.               *)
SessionFails(r) ==
  /\ Fault
  /\ proc' \in {proc, [proc EXCEPT ![r] = IF @ = "alive" THEN "exited" ELSE @]}
  /\ \E from \in {"open", "intent", "launched", "training"} :
       \/ \E to \in {"ended", "starting"} : HpoStep(r, from, to, exec)
       \/ HpoStep(r, from, "ended", [exec EXCEPT !.status = "BLOCKED"])

-----------------------------------------------------------------------------
(* A training ends by itself. *)
TrainingExits(t) ==
  /\ proc[t] = "alive"
  /\ proc' = [proc EXCEPT ![t] = "exited"]
  /\ UNCHANGED <<kind, pc, slotVars, diskVars, forgotten, envVars>>

(* The routes that show or stop a run: without an active controller of     *)
(* that kind they reconcile its record, whether its training lives or not. *)
ReconcileRoute(f) ==
  /\ loop = NoRun
  /\ file[f].status = "running"
  /\ \A a \in Active : Is(a, {"hpo"}) \/ FileOf(a) # f
  /\ file' = [file EXCEPT ![f] = Closed(@)]
  /\ forgotten' = IF proc[file[f].run] = "alive"
                  THEN forgotten \cup {file[f].run} ELSE forgotten
  /\ UNCHANGED <<kind, pc, slotVars, exec, proc, envVars>>

(* The service dies and starts again: the registry is empty, the files and *)
(* the trainings are what they were.                                       *)
Restart ==
  /\ crashes < MaxCrashes
  /\ crashes' = crashes + 1
  /\ pc' = [r \in Requests |-> IF At(r, {"new"}) THEN "new" ELSE "lost"]
  /\ loop' = NoRun
  /\ reservation' = NoRun
  /\ UNCHANGED <<kind, diskVars, proc, forgotten, faults>>

-----------------------------------------------------------------------------
Starting(r) ==
  \/ Gate(r) \/ DryRun(r) \/ Reserve(r) \/ FirstRecord(r) \/ StartWorker(r)
  \/ RouteRaises(r)

Working(r) ==
  \/ ReportPhase(r) \/ Launch(r) \/ Identify(r) \/ EndUnlaunched(r)
  \/ EndTraining(r) \/ LeaveTraining(r) \/ EndManual(r) \/ WriteTerminal(r)
  \/ MarkDone(r) \/ Release(r) \/ LateWrite(r)

Studying(r) ==
  \/ OpenSession(r) \/ ClaimTrial(r) \/ LaunchFails(r) \/ CommitIdentity(r)
  \/ ObserveExit(r) \/ RecoverGone(r) \/ RecoverBlocked(r) \/ Settle(r)
  \/ SessionFails(r)

Next ==
  \/ \E r \in Requests :
       Starting(r) \/ Working(r) \/ Studying(r) \/ TrainingExits(r)
  \/ \E f \in Files : ReconcileRoute(f)
  \/ Restart

Spec == Init /\ [][Next]_vars

-----------------------------------------------------------------------------
(* Properties. *)

(* From its reservation until it is done a real run holds the reservation  *)
(* itself, so no other request gets one, whatever worker ends meanwhile    *)
(* (manager.py: the owner releases it only after it truly finishes).       *)
SlotHeld == \A r \in Requests :
  /\ ~Is(r, {"dry"})
  /\ At(r, {"reserved", "recorded", "starting", "open", "intent", "launched",
            "training", "ended", "written", "done"})
  => reservation = r

(* The ways the service has of forgetting a live training: its session     *)
(* left it, a status route reconciled its record, the record of a tuning   *)
(* run was replaced by another session's, or its study was blocked.        *)
Forgotten(t) ==
  \/ t \in forgotten
  \/ Is(t, {"tuning"}) /\ file["tuning"].run # t
  \/ Is(t, {"hpo"}) /\ exec.status = "BLOCKED" /\ exec.run = t

(* A request is admitted only when every other training is over or has     *)
(* been forgotten in one of these ways, over every restart, lost write and *)
(* unknown identity (_assert_training_slot_free).                          *)
AdmittedOnlyIfForgotten == \A r, t \in Requests :
  At(r, {"gated", "reserved"}) /\ ~Is(r, {"dry"}) /\ proc[t] = "alive"
  => Forgotten(t)

(* No request is in its route or at work, and no training is alive. *)
AtRest ==
  /\ \A r \in Requests :
       At(r, {"new", "gone", "refused", "lost", "raised", "zombie"})
  /\ \A r \in Requests : proc[r] # "alive"

(* The two ways of keeping the slot with nothing to run: a route that was  *)
(* left by an unhandled error, a controller whose thread never started.    *)
(* Only a restart ends them.                                               *)
Abandoned ==
  {r \in Requests :
     (At(r, {"raised"}) /\ reservation = r) \/ At(r, {"zombie"})}

(* A record that cannot be proven gone. *)
Unidentified ==
  \/ \E f \in Files : Open(file[f]) /\ ~file[f].pid
  \/ exec.phase = "intent"

(* When nothing runs any more a request is refused only for an abandoned   *)
(* slot or for a record without an identity (gate.py), never for a         *)
(* reservation or a controller that a run which ended has left behind.     *)
RestFreesTheSlot == AtRest =>
  /\ SlotTaken => Abandoned # {}
  /\ ~Unidentified =>
       /\ \A f \in Files : ~RecordBlocks(file[f])
       /\ ~StudyBlocks

(* The slot follows the runs: held by whoever is on its way or training,   *)
(* and free when nothing runs unless a start was abandoned under it        *)
(* (manager.reserve and release, the workers' _finish, the gate).          *)
SlotFollowsRuns == SlotHeld /\ RestFreesTheSlot
=============================================================================
