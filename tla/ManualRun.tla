----------------------------- MODULE ManualRun ------------------------------
(***************************************************************************)
(* One manual training: the task of ManualRunController on the event loop, *)
(* the thread that creates its child, the child with its output pipe, stop *)
(* requests, and cancellations of the task.                                *)
(*                                                                         *)
(* The task gives way only where it awaits, so a step here is what it does *)
(* from one await to the next, and request_stop, which awaits nothing, is  *)
(* one step.  The child exits whenever it likes.  Of the record the status,*)
(* the phase and whether it names the child are kept; the events are those *)
(* of EventStream, the slot is that of TrainingSlot.                       *)
(***************************************************************************)
EXTENDS Naturals

CONSTANTS MaxStops,      \* bound: stop requests
          MaxCancels,    \* bound: cancellations of the task
          MaxFaults      \* bound: lost writes, refused signals, no child

ASSUME ManualAssumption == {MaxStops, MaxCancels, MaxFaults} \subseteq Nat

VARIABLES
  pc,            \* where the task waits
  cause,         \* what made it give up its child
  interrupted,   \* a cancellation kept until the child is there
  reader,        \* a thread that a cancellation left in readline()
  child, rc, pipe,
  signalled, killed,             \* terminate() and kill() reached the child
  obeys,         \* whether this child dies of a terminate()
  stopRequested, stopApplied,
  refused,       \* neither terminate() nor kill() could be sent for a stop
  mem, file,     \* controller.run_state and training_running.json
  stops, cancels, faults

childVars == <<child, rc, pipe, signalled, killed, obeys>>
stopVars == <<stopRequested, stopApplied, refused>>
recordVars == <<mem, file>>
bounds == <<stops, cancels, faults>>
vars == <<pc, cause, interrupted, reader, childVars, stopVars, recordVars,
          bounds>>

TerminalStatuses == {"completed", "failed", "cancelled"}
Record == [status : {"starting", "running"} \cup TerminalStatuses,
           phase : {"preparing", "training", "stopping", "terminal"},
           pid : BOOLEAN]

Awaits == {"created", "spawning", "reading", "waiting", "reaping", "killing"}

ManualTypeOK ==
  /\ pc \in Awaits \cup {"closing", "done", "dropped"}
  /\ cause \in {"none", "cancel", "error"}
  /\ {interrupted, reader} \subseteq BOOLEAN
  /\ child \in {"none", "coming", "failed", "alive", "exited"}
  /\ rc \in {"none", "zero", "nonzero", "signal"}
  /\ pipe \in {"open", "eof"}
  /\ {signalled, killed, obeys, stopRequested, stopApplied, refused}
       \subseteq BOOLEAN
  /\ {mem, file} \subseteq Record
  /\ stops \in 0..MaxStops /\ cancels \in 0..MaxCancels
  /\ faults \in 0..MaxFaults

Init ==
  /\ pc = "created"
  /\ cause = "none"
  /\ interrupted = FALSE
  /\ reader = FALSE
  /\ child = "none" /\ rc = "none" /\ pipe = "open"
  /\ signalled = FALSE /\ killed = FALSE /\ obeys \in BOOLEAN
  /\ stopRequested = FALSE /\ stopApplied = FALSE /\ refused = FALSE
  /\ mem = [status |-> "starting", phase |-> "preparing", pid |-> FALSE]
  /\ file = mem
  /\ stops = 0 /\ cancels = 0 /\ faults = 0

-----------------------------------------------------------------------------
(* _persist: the record is replaced, or the write fails and nobody hears.  *)
Save(rec) ==
  \/ file' = rec /\ UNCHANGED faults
  \/ /\ faults < MaxFaults
     /\ faults' = faults + 1
     /\ UNCHANGED file

End(status) ==
  /\ pc' = "done"
  /\ mem' = [mem EXCEPT !.status = status, !.phase = "terminal"]
  /\ Save(mem')

(* self._proc is set. *)
Owned == child \in {"alive", "exited"} /\ pc # "spawning"

-----------------------------------------------------------------------------
(* The task. *)

(* A stop that came first: no child, no finalizer. *)
CancelledBeforeStart ==
  /\ pc = "created"
  /\ stopRequested
  /\ stopApplied' = TRUE
  /\ End("cancelled")
  /\ UNCHANGED <<cause, interrupted, reader, childVars, stopRequested, refused,
                 stops, cancels>>

Spawn ==
  /\ pc = "created"
  /\ ~stopRequested
  /\ pc' = "spawning"
  /\ child' = "coming"
  /\ UNCHANGED <<cause, interrupted, reader, rc, pipe, signalled, killed,
                 obeys, stopVars, recordVars, bounds>>

(* The thread in Popen. *)
Born ==
  /\ child = "coming"
  /\ \/ child' = "alive" /\ UNCHANGED faults
     \/ /\ child' = "failed"
        /\ faults < MaxFaults
        /\ faults' = faults + 1
  /\ UNCHANGED <<pc, cause, interrupted, reader, rc, pipe, signalled, killed,
                 obeys, stopVars, recordVars, stops, cancels>>

(* The child could not be created: nothing to reap, the run has failed.    *)
SpawnFails ==
  /\ pc = "spawning"
  /\ child = "failed"
  /\ cause' = "error"
  /\ End("failed")
  /\ UNCHANGED <<interrupted, reader, childVars, stopVars, stops, cancels>>

(* Mutant of Adopt: the stop is not looked at again. *)
AdoptUnchecked ==
  /\ pc = "spawning"
  /\ child \in {"alive", "exited"}
  /\ ~interrupted
  /\ pc' = "reading"
  /\ mem' = [status |-> "running", phase |-> "training", pid |-> TRUE]
  /\ Save(mem')
  /\ UNCHANGED <<cause, interrupted, reader, childVars, stopVars, stops,
                 cancels>>

(* How a stop is put into effect: terminate(), which a child that has just *)
(* exited does not notice, kill() if that raises, or nothing if both do.   *)
ApplyStop ==
  \/ /\ stopApplied' = TRUE
     /\ \/ signalled' = TRUE /\ UNCHANGED killed
        \/ killed' = TRUE /\ UNCHANGED signalled
     /\ UNCHANGED refused
  \/ /\ refused' = TRUE
     /\ UNCHANGED <<stopApplied, signalled, killed>>

(* The child is there: a stop that came while it was created is applied to *)
(* it, whether it still lives or not, then it is reported.                 *)
Adopt ==
  /\ pc = "spawning"
  /\ child \in {"alive", "exited"}
  /\ ~interrupted
  /\ pc' = "reading"
  /\ IF stopRequested THEN ApplyStop
     ELSE UNCHANGED <<stopApplied, signalled, killed, refused>>
  /\ mem' = [status |-> "running", phase |-> "training", pid |-> TRUE]
  /\ Save(mem')
  /\ UNCHANGED <<cause, interrupted, reader, child, rc, pipe, obeys,
                 stopRequested, stops, cancels>>

(* A line of output, persisted at once or every tenth time. *)
Read ==
  /\ pc = "reading"
  /\ pipe = "open"
  /\ child \in {"alive", "exited"}
  /\ Save(mem)
  /\ UNCHANGED <<pc, cause, interrupted, reader, childVars, stopVars, mem,
                 stops, cancels>>

Eof ==
  /\ pc = "reading"
  /\ pipe = "eof"
  /\ pc' = "waiting"
  /\ UNCHANGED <<cause, interrupted, reader, childVars, stopVars, recordVars,
                 bounds>>

(* The exit, the terminal record, the finalizer and the release of the     *)
(* slot, without an await between them.                                    *)
Ended ==
  /\ pc = "waiting"
  /\ child = "exited"
  /\ End(IF stopApplied THEN "cancelled"
         ELSE IF rc = "zero" THEN "completed" ELSE "failed")
  /\ UNCHANGED <<cause, interrupted, reader, childVars, stopVars, stops,
                 cancels>>

-----------------------------------------------------------------------------
(* Cancellation and errors: _stop_child, _reap_child. *)

(* What the handlers do once the child is gone: a cancelled task leaves    *)
(* its record as it is, an error makes it failed.  Then the pipe is closed,*)
(* on the event loop, and the close waits for a thread in readline().      *)
Finish(why) ==
  \/ /\ why = "cancel"
     /\ pc' = IF reader' THEN "closing" ELSE "done"
     /\ UNCHANGED <<recordVars, faults>>
  \/ why = "error" /\ End("failed")

(* terminate(), which may be refused; nothing to do for an exited child.   *)
GiveUp(why) ==
  /\ cause' = why
  /\ \/ /\ child = "exited"
        /\ Finish(why)
        /\ UNCHANGED signalled
     \/ /\ child = "alive"
        /\ pc' = "reaping"
        /\ \/ signalled' = TRUE /\ UNCHANGED faults
           \/ /\ faults < MaxFaults
              /\ faults' = faults + 1
              /\ UNCHANGED signalled
        /\ UNCHANGED recordVars

(* The child a cancellation has waited for. *)
AdoptInterrupted ==
  /\ pc = "spawning"
  /\ interrupted
  /\ child \in {"alive", "exited"}
  /\ UNCHANGED reader
  /\ GiveUp("cancel")
  /\ UNCHANGED <<interrupted, child, rc, pipe, killed, obeys, stopVars, stops,
                 cancels>>

Cancelled ==
  /\ cancels < MaxCancels
  /\ cancels' = cancels + 1

(* A task that never ran is dropped, its slot and record with it. *)
CancelCreated ==
  /\ pc = "created"
  /\ Cancelled
  /\ pc' = "dropped"
  /\ UNCHANGED <<cause, interrupted, reader, childVars, stopVars, recordVars,
                 stops, faults>>

(* Mutant of CancelSpawn: the creation is not waited for. *)
CancelSpawnNow ==
  /\ pc = "spawning"
  /\ Cancelled
  /\ pc' = "done"
  /\ cause' = "cancel"
  /\ UNCHANGED <<interrupted, reader, childVars, stopVars, recordVars, stops,
                 faults>>

(* The creation cannot be interrupted: the cancellation is kept. *)
CancelSpawn ==
  /\ pc = "spawning"
  /\ Cancelled
  /\ interrupted' = TRUE
  /\ UNCHANGED <<pc, cause, reader, childVars, stopVars, recordVars, stops,
                 faults>>

(* The thread the task awaits is not cancelled with it.  It may have its   *)
(* line already; if not, it stays in readline() until there is one, or     *)
(* until everyone has closed the pipe.                                     *)
CancelRun ==
  /\ pc \in {"reading", "waiting"}
  /\ Cancelled
  /\ IF pc = "reading" THEN reader' \in BOOLEAN ELSE UNCHANGED reader
  /\ GiveUp("cancel")
  /\ UNCHANGED <<interrupted, child, rc, pipe, killed, obeys, stopVars, stops>>

(* A cancellation of the cleanup only delays the task. *)
CancelReap ==
  /\ pc \in {"reaping", "killing"}
  /\ Cancelled
  /\ UNCHANGED <<pc, cause, interrupted, reader, childVars, stopVars,
                 recordVars, stops, faults>>

Cancel == CancelCreated \/ CancelSpawn \/ CancelRun \/ CancelReap

(* Any other error of the read loop. *)
RunRaises ==
  /\ pc = "reading"
  /\ GiveUp("error")
  /\ UNCHANGED <<interrupted, reader, child, rc, pipe, killed, obeys, stopVars,
                 stops, cancels>>

(* The grace period is over: kill(), which may be refused once. *)
GraceOver ==
  /\ pc = "reaping"
  /\ child = "alive"
  /\ pc' = "killing"
  /\ \/ killed' = TRUE /\ UNCHANGED faults
     \/ /\ faults < MaxFaults
        /\ faults' = faults + 1
        /\ UNCHANGED killed
  /\ UNCHANGED <<cause, interrupted, reader, child, rc, pipe, signalled, obeys,
                 stopVars, recordVars, stops, cancels>>

KillAgain ==
  /\ pc = "killing"
  /\ child = "alive"
  /\ ~killed
  /\ killed' = TRUE
  /\ UNCHANGED <<pc, cause, interrupted, reader, child, rc, pipe, signalled,
                 obeys, stopVars, recordVars, bounds>>

Reaped ==
  /\ pc \in {"reaping", "killing"}
  /\ child = "exited"
  /\ UNCHANGED reader
  /\ Finish(cause)
  /\ UNCHANGED <<cause, interrupted, childVars, stopVars, stops, cancels>>

(* Until close() returns nothing else runs on the event loop. *)
PipeClosed ==
  /\ pc = "closing"
  /\ ~reader
  /\ pc' = "done"
  /\ UNCHANGED <<cause, interrupted, reader, childVars, stopVars, recordVars,
                 bounds>>

-----------------------------------------------------------------------------
(* The stop route. *)

(* Without a child the request is left to the task; an exited child is     *)
(* left alone, unless it exits just when terminate() is called.            *)
RequestStop ==
  /\ pc \in Awaits
  /\ stops < MaxStops
  /\ stops' = stops + 1
  /\ stopRequested' = TRUE
  /\ mem' = [mem EXCEPT !.phase = "stopping"]
  /\ Save(mem')
  /\ IF Owned /\ child = "alive"
     THEN /\ ApplyStop
          /\ \/ UNCHANGED <<child, rc>>
             \/ child' = "exited" /\ rc' \in {"zero", "nonzero"}
     ELSE UNCHANGED <<stopApplied, refused, child, rc, signalled, killed>>
  /\ UNCHANGED <<pc, cause, interrupted, reader, pipe, obeys, cancels>>

-----------------------------------------------------------------------------
(* The child. *)

Exit ==
  /\ child = "alive"
  /\ child' = "exited"
  /\ rc' \in {"zero", "nonzero"}
  /\ UNCHANGED <<pc, cause, interrupted, reader, pipe, signalled, killed,
                 obeys, stopVars, recordVars, bounds>>

Die ==
  /\ child = "alive"
  /\ killed \/ (signalled /\ obeys)
  /\ child' = "exited"
  /\ rc' = "signal"
  /\ UNCHANGED <<pc, cause, interrupted, reader, pipe, signalled, killed,
                 obeys, stopVars, recordVars, bounds>>

(* Everyone who holds the pipe has closed it: the child may do so before   *)
(* it exits, its own children may keep it open after.                      *)
PipeCloses ==
  /\ child \in {"alive", "exited"}
  /\ pipe = "open"
  /\ pipe' = "eof"
  /\ UNCHANGED <<pc, cause, interrupted, reader, child, rc, signalled, killed,
                 obeys, stopVars, recordVars, bounds>>

(* The thread that was left gets a line, or the end of the output. *)
ReaderReturns ==
  /\ reader
  /\ reader' = FALSE
  /\ UNCHANGED <<pc, cause, interrupted, childVars, stopVars, recordVars,
                 bounds>>

-----------------------------------------------------------------------------
Task == CancelledBeforeStart \/ Spawn \/ SpawnFails \/ Adopt
        \/ AdoptInterrupted \/ Eof \/ Ended \/ GraceOver \/ KillAgain \/ Reaped
        \/ PipeClosed

Next == Task \/ Born \/ Read \/ RunRaises \/ Cancel \/ RequestStop
        \/ Exit \/ Die \/ PipeCloses \/ ReaderReturns

Spec == Init /\ [][Next]_vars

(* The event loop runs the task when what it awaits is there, Popen        *)
(* returns, a child dies of a signal it does not ignore, and readline()    *)
(* returns at the end of the output; no line ever has to come.             *)
FairSpec == /\ Spec
            /\ WF_vars(Task) /\ WF_vars(Born) /\ WF_vars(Die)
            /\ WF_vars(pipe = "eof" /\ ReaderReturns)

-----------------------------------------------------------------------------
(* Properties. *)

(* When the slot is given back no child of the run is alive, nor is one    *)
(* being created behind it, whatever was cancelled when and whichever      *)
(* signal was ignored (_stop_child: "Leave no live child behind").         *)
NoChildLeft == pc = "done" => child \notin {"coming", "alive"}

(* The recorded outcome is what happened: completed is an exit with zero   *)
(* that nothing gave up on, cancelled a stop that reached the child or     *)
(* came before there was one, failed an error or another exit; and a child *)
(* that a stop has brought down is never a failure.                        *)
OutcomeIsTrue ==
  /\ mem.status = "completed" => rc = "zero" /\ cause = "none"
  /\ mem.status = "cancelled" =>
       /\ stopRequested
       /\ child = "none" \/ (child = "exited" /\ (signalled \/ killed))
  /\ mem.status = "failed" => cause = "error" \/ rc \in {"nonzero", "signal"}
  /\ mem.status \in TerminalStatuses /\ rc = "signal" /\ stopApplied =>
       mem.status = "cancelled" \/ cause = "error"

(* Without faults the file says what became of a run that gave its slot    *)
(* back; only a cancelled task leaves it open, and then it names the child *)
(* (which is gone, so that the gate can close it) unless the child was     *)
(* still being created: such a record blocks the gate (gate.py:59).        *)
EndIsRecorded ==
  pc = "done" /\ faults = 0 =>
    /\ file = mem
    /\ mem.status \in TerminalStatuses \/ cause = "cancel"
    /\ mem.status = "running" => mem.pid

(* A stop ends the run, wherever it fell, when its signal can be sent and  *)
(* the child obeys it and takes those who hold its pipe with it.           *)
StopEndsRun ==
  (child = "exited" ~> pipe = "eof") =>
    (stopRequested /\ obeys ~> pc \in {"done", "dropped"} \/ refused)

(* A run that gave up its child sees it die, even if the child ignores     *)
(* terminate() and the first kill() fails.  After an error the run then    *)
(* ends; after a cancellation it ends when those who hold the pipe let go  *)
(* of it, because its close waits for the reader that was left behind.     *)
GivenUpRunEnds ==
  /\ cause # "none" ~> child \notin {"coming", "alive"}
  /\ cause = "error" ~> pc = "done"
  /\ (child = "exited" ~> pipe = "eof") => (cause = "cancel" ~> pc = "done")

(* How a run leaves its child, its record in memory and its file, whatever *)
(* was stopped, cancelled or failed at which await.                        *)
EndIsClean == NoChildLeft /\ OutcomeIsTrue /\ EndIsRecorded

(* A run that is stopped or gives up its child comes to an end: its child  *)
(* in any case, the run itself unless others keep the output open.         *)
RunComesToAnEnd == StopEndsRun /\ GivenUpRunEnds
=============================================================================
