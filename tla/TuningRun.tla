----------------------------- MODULE TuningRun ------------------------------
(***************************************************************************)
(* The run record of an auto-tuning session (tuning_controller.py): the    *)
(* copy in memory, tuning_running.json, and the threads that write both:   *)
(* the worker (TuningLoop, which this module extends), the thread that     *)
(* forwards the output of each training, and the thread of a stop request. *)
(*                                                                         *)
(* An assignment self.run_state = f(self.run_state) outside the lock is a  *)
(* read and a later write, and so is _persist.  Both are two steps for the *)
(* forwarders and the stop request.  Those of the worker are one step:     *)
(* what another thread writes in between is a stale copy that could as     *)
(* well have been written just before.  Of a record only the status and    *)
(* the training it names are kept; its events and its phase are not.       *)
(***************************************************************************)
EXTENDS TuningLoop

CONSTANT MaxLost  \* bound: lost record writes and unknown identities

ASSUME LostAssumption == MaxLost \in Nat

(* pid = k: pid and create token of the training of round k; 0: none. *)
Record == [status : {"starting", "running"} \cup TerminalStatuses,
           pid : 0..MaxRetries]

FwdLabels  == {"off", "idle", "publish", "published", "persist"}
StopLabels == {"idle", "marked", "signalled", "persist", "end"}

VARIABLES
  mem, file,  \* the record: controller._run_state, tuning_running.json
  fwd,        \* the output forwarders
  stopper,    \* the thread of a stop request
  lost,
  quiet       \* history: no other writer was at work when the loop returned

recVars == <<mem, file, lost>>
vars == <<loopVars, recVars, fwd, stopper, quiet>>

TypeOK ==
  /\ LoopTypeOK
  /\ mem \in Record
  /\ file \in Record
  /\ fwd \in [Rounds -> [at : FwdLabels, rec : Record]]
  /\ stopper \in [at : StopLabels, rec : Record]
  /\ lost \in Nat
  /\ quiet \in BOOLEAN

Starting == [status |-> "starting", pid |-> 0]

(* start_tuning writes the first record before the thread starts. *)
Init ==
  /\ LoopInit
  /\ mem = Starting
  /\ file = Starting
  /\ fwd = [k \in Rounds |-> [at |-> "off", rec |-> Starting]]
  /\ stopper = [at |-> "idle", rec |-> Starting]
  /\ lost = 0
  /\ quiet = FALSE

-----------------------------------------------------------------------------
Lose == lost < MaxLost /\ lost' = lost + 1

(* write_run_state, its failure swallowed by _persist. *)
Persist(rec) == \/ file' = rec /\ UNCHANGED lost
                \/ Lose /\ UNCHANGED file

(* on_state: the status is running again, the identity only when given. *)
OnState(pid) ==
  LET rec == [status |-> "running", pid |-> pid]
  IN  mem' = rec /\ Persist(rec)

Silent == UNCHANGED recVars

(* The steps of the loop that report a state, and those that do not. *)
Reporting ==
  \/ Begin \/ StartRound \/ PlanOnly \/ StopBeforeTraining \/ Decide
  \/ LeaveInBackground \/ TrainingCompleted \/ AnalyzeOnly

Returning == Evaluate /\ pc' = "terminal"

Unreported ==
  \/ CancelAtRound \/ Exhausted \/ RoundFails \/ Launch \/ Probing
  \/ CancelWait \/ TrainingFailed \/ Raising
  \/ Evaluate /\ pc' # "terminal"

Report ==
  /\ Reporting \/ Returning
  /\ OnState(mem.pid)
  /\ UNCHANGED <<fwd, stopper, quiet>>

Advance == Unreported /\ Silent /\ UNCHANGED <<fwd, stopper, quiet>>

(* on_progress of the worker: a lifecycle line, or every tenth, is saved. *)
Progress ==
  /\ pc \in {"round", "decide", "launch", "probe", "wait", "analyze"}
  /\ Persist(mem)
  /\ UNCHANGED <<loopVars, mem, fwd, stopper, quiet>>

(* The identity may not be readable: the record keeps the one it has. *)
IdentifyTraining ==
  /\ Identify
  /\ \/ OnState(round)
     \/ /\ Lose
        /\ mem' = [status |-> "running", pid |-> mem.pid]
        /\ file' = mem'
  /\ UNCHANGED <<fwd, stopper, quiet>>

StartForwarding ==
  /\ StartForwarder
  /\ fwd' = [fwd EXCEPT ![round].at = "idle"]
  /\ Silent
  /\ UNCHANGED <<stopper, quiet>>

TerminalRecord ==
  /\ WriteTerminal
  /\ mem' = [mem EXCEPT !.status = result]
  /\ quiet' = (/\ \A k \in Rounds : fwd[k].at = "off"
               /\ stopper.at \in {"idle", "end"})
  /\ UNCHANGED <<file, lost, fwd, stopper>>

TerminalFile ==
  /\ PersistTerminal
  /\ Persist(mem)
  /\ UNCHANGED <<mem, fwd, stopper, quiet>>

Leave ==
  /\ MarkDone \/ ReleaseSlot
  /\ Silent
  /\ UNCHANGED <<fwd, stopper, quiet>>

-----------------------------------------------------------------------------
(* The forwarder of round k: on_progress for every line of the output.     *)

FwdStep(k, from, to) ==
  /\ fwd[k].at = from
  /\ fwd' = [fwd EXCEPT ![k].at = to,
                        ![k].rec = IF to \in {"publish", "persist"}
                                   THEN mem ELSE Starting]
  /\ UNCHANGED <<loopVars, stopper, quiet>>

FwdRead(k) == FwdStep(k, "idle", "publish") /\ Silent

FwdPublish(k) ==
  /\ FwdStep(k, "publish", "published")
  /\ mem' = fwd[k].rec
  /\ UNCHANGED <<file, lost>>

(* Not every line is persisted. *)
FwdSkip(k) == FwdStep(k, "published", "idle") /\ Silent

FwdReadAgain(k) == FwdStep(k, "published", "persist") /\ Silent

FwdPersist(k) ==
  /\ FwdStep(k, "persist", "idle")
  /\ Persist(fwd[k].rec)
  /\ UNCHANGED mem

FwdExit(k) ==
  /\ proc[k] \in {"zero", "nonzero"}
  /\ FwdStep(k, "idle", "off")
  /\ Silent

Forward(k) ==
  \/ FwdRead(k) \/ FwdPublish(k) \/ FwdSkip(k) \/ FwdReadAgain(k)
  \/ FwdPersist(k) \/ FwdExit(k)

-----------------------------------------------------------------------------
(* request_stop, in the thread of the stop route; once per session.        *)

StopStep(from, to, rec) ==
  /\ stopper.at = from
  /\ pc # "crashed"
  /\ stopper' = [at |-> to, rec |-> rec]
  /\ UNCHANGED <<fwd, quiet>>

(* Under the lock: refused when the controller is done. *)
StopMark ==
  /\ ~done
  /\ StopStep("idle", "marked", Starting)
  /\ UNCHANGED <<loopVars, recVars>>

SignalStop ==
  /\ StopStep("marked", "signalled", Starting)
  /\ StopSignal
  /\ Silent

(* Mutant of StopRead: the stop writes the status itself. *)
StopReadCancelled ==
  /\ StopStep("signalled", "persist", [mem EXCEPT !.status = "cancelled"])
  /\ UNCHANGED <<loopVars, recVars>>

StopRead ==
  /\ StopStep("signalled", "persist", mem)
  /\ UNCHANGED <<loopVars, recVars>>

StopPersist ==
  /\ StopStep("persist", "end", Starting)
  /\ Persist(stopper.rec)
  /\ UNCHANGED <<loopVars, mem>>

RequestStop == StopMark \/ SignalStop \/ StopRead \/ StopPersist

-----------------------------------------------------------------------------
TrainingExits(k) ==
  /\ ProcessExits(k)
  /\ Silent
  /\ UNCHANGED <<fwd, stopper, quiet>>

ServiceCrash ==
  /\ Crash
  /\ fwd' = [k \in Rounds |-> [at |-> "off", rec |-> Starting]]
  /\ stopper' = [at |-> "end", rec |-> Starting]
  /\ Silent
  /\ UNCHANGED quiet

Next ==
  \/ Report \/ Advance \/ Progress \/ IdentifyTraining \/ StartForwarding
  \/ TerminalRecord \/ TerminalFile \/ Leave
  \/ RequestStop
  \/ \E k \in Rounds : Forward(k) \/ TrainingExits(k)
  \/ ServiceCrash

Spec == Init /\ [][Next]_vars

-----------------------------------------------------------------------------
(* Properties. *)

(* Whatever the forwarders and the stop write late, and wherever writes    *)
(* are lost, a terminal record is the result of the loop, and the training *)
(* the record names was launched: a restart finds no identity or one of    *)
(* this session (not always that of the training that runs).               *)
RecordIsTrue ==
  \A rec \in {mem, file} :
    /\ rec.status \in TerminalStatuses => rec.status = result
    /\ rec.pid # 0 => proc[rec.pid] # "none"

(* When the forwarders and the stop request are through before the loop    *)
(* returns, its terminal state is on disk when the slot is released, and   *)
(* a stop that comes too late does not take it away.                       *)
QuietEndIsTerminal ==
  quiet /\ lost = 0 /\ pc \in {"release", "end"} => file.status = result

(* Both, for every interleaving of the writers of the record and the file. *)
RecordIsHonest == RecordIsTrue /\ QuietEndIsTerminal
=============================================================================
