-------------------------- MODULE RunAndStreamProofs -------------------------
(***************************************************************************)
(* What a manual run leaves behind, and what a reader of a run's events    *)
(* may not miss.  The two components only share the event loop: the first  *)
(* half is about ManualRun, the second about EventStream.                  *)
(***************************************************************************)
EXTENDS ManualRun, EventStream, TLAPS

-----------------------------------------------------------------------------
(* How a manual run leaves its child, its record and its file: the         *)
(* inductive invariant says what is known at every await.                  *)
USE ManualAssumption

(* The domains the argument needs.                                         *)
RunTyped ==
  /\ pc \in Awaits \cup {"closing", "done", "dropped"}
  /\ cause \in {"none", "cancel", "error"}
  /\ child \in {"none", "coming", "failed", "alive", "exited"}
  /\ rc \in {"none", "zero", "nonzero", "signal"}
  /\ mem \in Record /\ file \in Record
  /\ faults \in Nat

(* The child and its exit code; a signal is only ever sent by this run.    *)
ChildIsKnown ==
  /\ child = "exited" <=> rc # "none"
  /\ rc = "signal" => signalled \/ killed
  /\ stopApplied => stopRequested /\ (child = "none" \/ signalled \/ killed)

(* Where the task waits says what there is of the child.                   *)
AwaitFitsChild ==
  /\ pc \in {"created", "dropped"} => child = "none"
  /\ pc = "spawning" => child \in {"coming", "failed", "alive", "exited"}
  /\ pc \in {"reading", "waiting", "reaping", "killing"} => child \in {"alive", "exited"}
  /\ pc = "closing" => child = "exited"
  /\ pc = "done" => child \in {"none", "failed", "exited"}
  /\ pc \in {"created", "spawning"} => ~signalled /\ ~killed /\ ~stopApplied

(* ... and of the record.                                                  *)
AwaitFitsRecord ==
  /\ pc \in {"reading", "waiting"} => mem.status = "running"
  /\ pc \in {"created", "spawning", "reading", "waiting", "dropped"} => cause = "none"
  /\ pc \in {"reaping", "killing"} => cause # "none"
  /\ pc = "closing" => cause = "cancel"
  /\ pc # "done" => mem.status \in {"starting", "running"}
  /\ mem.status = "running" => mem.pid

(* Without a lost write the file is the record.                            *)
FileFollows == faults = 0 => file = mem

RunInv ==
  /\ RunTyped
  /\ ChildIsKnown
  /\ AwaitFitsChild
  /\ AwaitFitsRecord
  /\ FileFollows
  /\ OutcomeIsTrue
  /\ (pc = "done" => mem.status \in TerminalStatuses \/ cause = "cancel")

-----------------------------------------------------------------------------
USE DEF RunTyped, Record, Awaits, TerminalStatuses,
        childVars, stopVars, recordVars, bounds

LEMMA SaveMeans ==
  ASSUME RunTyped, NEW rec \in Record, Save(rec)
  PROVE  /\ file' \in Record /\ faults' \in Nat
         /\ faults' = 0 => file' = rec
BY DEF Save

LEMMA EndMeans ==
  ASSUME RunTyped, NEW status \in TerminalStatuses, End(status)
  PROVE  /\ pc' = "done" /\ mem' \in Record /\ mem'.status = status
         /\ file' \in Record /\ faults' \in Nat
         /\ faults' = 0 => file' = mem'
<1>1. pc' = "done" /\ mem' \in Record /\ mem'.status = status /\ Save(mem')
  BY DEF End
<1> QED BY <1>1, SaveMeans

(* The task.                                                               *)
LEMMA TaskKeeps == RunInv /\ Task => RunInv'
<1> USE DEF RunInv, ChildIsKnown, AwaitFitsChild, AwaitFitsRecord, FileFollows,
            OutcomeIsTrue
<1>1. ASSUME RunInv, CancelledBeforeStart PROVE RunInv'
  <2>1. End("cancelled")
    BY <1>1 DEF CancelledBeforeStart
  <2> QED BY <1>1, <2>1, EndMeans, SMTT(30) DEF CancelledBeforeStart
<1>2. RunInv /\ Spawn => RunInv'
  BY SMTT(30) DEF Spawn
<1>3. ASSUME RunInv, SpawnFails PROVE RunInv'
  <2>1. End("failed")
    BY <1>3 DEF SpawnFails
  <2> QED BY <1>3, <2>1, EndMeans, SMTT(30) DEF SpawnFails
<1>4. ASSUME RunInv, Adopt PROVE RunInv'
  <2>1. /\ mem' \in Record /\ mem'.status = "running" /\ mem'.pid /\ Save(mem')
    BY <1>4 DEF Adopt
  <2>2. file' \in Record /\ faults' \in Nat /\ (faults' = 0 => file' = mem')
    BY <1>4, <2>1, SaveMeans
  <2>3. /\ pc = "spawning" /\ pc' = "reading" /\ UNCHANGED <<cause, child, rc, stopRequested>>
        /\ child \in {"alive", "exited"}
        /\ (signalled' /\ stopRequested /\ stopApplied') \/ (killed' /\ stopRequested /\ stopApplied')
             \/ UNCHANGED <<signalled, killed, stopApplied>>
    BY <1>4 DEF Adopt, ApplyStop
  <2> QED BY <1>4, <2>1, <2>2, <2>3, SMTT(30)
<1>5. RunInv /\ AdoptInterrupted => RunInv'
  BY SMTT(30) DEF AdoptInterrupted, GiveUp, Finish, End, Save
<1>6. RunInv /\ Eof => RunInv'
  BY SMTT(30) DEF Eof
<1>7. ASSUME RunInv, Ended PROVE RunInv'
  <2> DEFINE s == IF stopApplied THEN "cancelled"
                  ELSE IF rc = "zero" THEN "completed" ELSE "failed"
  <2>1. End(s) /\ s \in TerminalStatuses
    BY <1>7 DEF Ended
  <2>2. /\ pc' = "done" /\ mem' \in Record /\ mem'.status = s
        /\ file' \in Record /\ faults' \in Nat
        /\ faults' = 0 => file' = mem'
    <3> HIDE DEF s
    <3> QED BY <1>7, <2>1, EndMeans
  <2> QED BY <1>7, <2>2, SMTT(30) DEF Ended
<1>8. RunInv /\ GraceOver => RunInv'
  BY SMTT(30) DEF GraceOver
<1>9. RunInv /\ KillAgain => RunInv'
  BY SMTT(30) DEF KillAgain
<1>10. ASSUME RunInv, Reaped PROVE RunInv'
  <2>1. CASE /\ cause = "cancel" /\ pc' \in {"closing", "done"}
             /\ UNCHANGED <<recordVars, faults>>
    BY <1>10, <2>1, SMTT(30) DEF Reaped
  <2>2. CASE cause = "error" /\ End("failed")
    BY <1>10, <2>2, EndMeans, SMTT(30) DEF Reaped
  <2> QED BY <1>10, <2>1, <2>2 DEF Reaped, Finish
<1>11. RunInv /\ PipeClosed => RunInv'
  BY SMTT(30) DEF PipeClosed
<1> QED BY <1>1, <1>2, <1>3, <1>4, <1>5, <1>6, <1>7, <1>8, <1>9, <1>10, <1>11
        DEF Task

(* Cancellations of the task and errors of its loop.                       *)
LEMMA GivingKeeps == RunInv /\ (CancelCreated \/ CancelSpawn \/ CancelRun \/ CancelReap \/ RunRaises) => RunInv'
<1> USE DEF RunInv, ChildIsKnown, AwaitFitsChild, AwaitFitsRecord, FileFollows,
            OutcomeIsTrue
<1>1. RunInv /\ CancelCreated => RunInv'
  BY SMTT(30) DEF CancelCreated, Cancelled
<1>2. RunInv /\ CancelSpawn => RunInv'
  BY SMTT(30) DEF CancelSpawn, Cancelled
<1>3. RunInv /\ CancelRun => RunInv'
  BY SMTT(30) DEF CancelRun, Cancelled, GiveUp, Finish, End, Save
<1>4. RunInv /\ CancelReap => RunInv'
  BY SMTT(30) DEF CancelReap, Cancelled
<1>5. ASSUME RunInv, RunRaises PROVE RunInv'
  <2>1. CASE child = "exited" /\ End("failed") /\ UNCHANGED signalled
    BY <1>5, <2>1, EndMeans, SMTT(30) DEF RunRaises, GiveUp
  <2>2. CASE child = "alive"
    BY <1>5, <2>2, SMTT(30) DEF RunRaises, GiveUp
  <2> QED BY <1>5, <2>1, <2>2 DEF RunRaises, GiveUp, Finish
<1> QED BY <1>1, <1>2, <1>3, <1>4, <1>5

(* The child, its reader and the stop route.                               *)
LEMMA ChildKeeps ==
  RunInv /\ (Born \/ Read \/ RequestStop \/ Exit \/ Die \/ PipeCloses \/ ReaderReturns)
    => RunInv'
<1> USE DEF RunInv, ChildIsKnown, AwaitFitsChild, AwaitFitsRecord, FileFollows,
            OutcomeIsTrue
<1>1. RunInv /\ Born => RunInv'
  BY SMTT(30) DEF Born
<1>2. RunInv /\ Read => RunInv'
  BY SMTT(30) DEF Read, Save
<1>3. RunInv /\ RequestStop => RunInv'
  BY SMTT(30) DEF RequestStop, ApplyStop, Save, Owned
<1>4. RunInv /\ Exit => RunInv'
  BY SMTT(30) DEF Exit
<1>5. RunInv /\ Die => RunInv'
  BY SMTT(30) DEF Die
<1>6. RunInv /\ PipeCloses => RunInv'
  BY SMTT(30) DEF PipeCloses
<1>7. RunInv /\ ReaderReturns => RunInv'
  BY SMTT(30) DEF ReaderReturns
<1> QED BY <1>1, <1>2, <1>3, <1>4, <1>5, <1>6, <1>7

-----------------------------------------------------------------------------
LEMMA RunInit == Init => RunInv
BY DEF Init, RunInv, ChildIsKnown, AwaitFitsChild, AwaitFitsRecord, FileFollows,
   OutcomeIsTrue

LEMMA RunStep == RunInv /\ [Next]_vars => RunInv'
<1>1. RunInv /\ UNCHANGED vars => RunInv'
  BY DEF vars, RunInv, ChildIsKnown, AwaitFitsChild, AwaitFitsRecord,
     FileFollows, OutcomeIsTrue
<1> QED BY <1>1, TaskKeeps, GivingKeeps, ChildKeeps DEF Next, Cancel

(* The inductive invariant of a manual run, for any number of stops,       *)
(* cancellations and faults.                                               *)
THEOREM RunInvariant == Spec => []RunInv
BY RunInit, RunStep, PTL DEF Spec

(* No child is left, the outcome is what happened, and it is on disk.      *)
THEOREM TheEndIsClean == Spec => []EndIsClean
<1>1. RunInv => EndIsClean
  BY DEF RunInv, AwaitFitsChild, AwaitFitsRecord, FileFollows, EndIsClean,
     NoChildLeft, EndIsRecorded
<1> QED BY <1>1, RunInvariant, PTL

-----------------------------------------------------------------------------
(* A reader of a run's events, for a buffer, a queue and a run of any      *)
(* length: the inductive invariant says what is on its way to the reader   *)
(* and what he has been told, at every point of the generator.             *)
USE StreamAssumption
HIDE ManualAssumption

-----------------------------------------------------------------------------
(* Everything this connection delivered, will deliver or has dropped.      *)
Offered == seen \cup todo \cup queue \cup missed

StreamTyped ==
  /\ seq \in Nat /\ end \in 0..seq /\ after \in 0..seq
  /\ run \in {"active", "ended", "recorded", "done"} \cup Gone
  /\ at \in Connected \cup {"out", "closed"}

(* A run that is no longer active has an end, unless the service died.     *)
EndIsThere == run \in {"ended", "recorded", "done", "forgotten"} => end # 0

(* Nothing is offered that was not asked for, and replayed events are older *)
(* than live ones, delivered ones older than both.                         *)
OfferIsInOrder ==
  at \in Connected =>
    /\ Offered \subseteq (after + 1)..seq
    /\ \A s \in seen : \A t \in todo \cup queue : s < t
    /\ \A s \in todo : \A t \in queue : s < t

(* What the buffer lost before the subscription is lost for the warning    *)
(* that is still to come.                                                  *)
LostIsOld ==
  at = "subscribed" => \A s \in (after + 1)..seq : s < Oldest \/ s \in Offered

(* Replayed before drained, and drained for the last time after the end.   *)
DrainIsLate ==
  /\ at \in {"draining", "looking", "last"} => todo = {}
  /\ at = "last" => run \in {"done", "forgotten"}
  /\ at = "closed" => told \/ run # "active"

(* The end, if it is to come, comes after what the reader has asked for.   *)
EndIsAhead ==
  at \in Connected /\ end # 0 => after < end /\ (end \in seen => knows)

StreamInv ==
  /\ StreamTyped
  /\ EndIsThere
  /\ OfferIsInOrder
  /\ LostIsOld
  /\ DrainIsLate
  /\ EndIsAhead
  /\ NothingMissedUnawares

-----------------------------------------------------------------------------
USE DEF StreamTyped, Connected, Gone, Offered

LEMMA StreamStarts == StreamInit => StreamInv
BY DEF StreamInit, StreamInv, EndIsThere, OfferIsInOrder, LostIsOld, DrainIsLate, EndIsAhead,
   NothingMissedUnawares, GapsAreKnown, ClosedStreamHasEnd

(* Publishing adds the newest event to what the reader is offered.         *)
LEMMA PublishMeans ==
  ASSUME StreamTyped, Publish
  PROVE  /\ seq' = seq + 1 /\ after' = after /\ at' = at /\ told' = told
         /\ knows' = knows /\ seen' = seen /\ todo' = todo
         /\ queue' \in {queue, queue \cup {seq'}}
         /\ at \in Connected => (queue' \cup missed') = (queue \cup missed \cup {seq'})
         /\ missed \subseteq missed' /\ missed' \subseteq missed \cup {seq'}
BY DEF Publish

LEMMA PublishKeeps ==
  ASSUME StreamInv, Publish, end' = end \/ (end' = seq' /\ run = "active"),
         run' = run \/ (run = "active" /\ run' = "ended" /\ end' = seq')
  PROVE  StreamInv'
<1> USE DEF StreamInv
<1>1. StreamTyped' /\ EndIsThere'
  BY PublishMeans DEF EndIsThere
<1>2. OfferIsInOrder'
  BY PublishMeans DEF OfferIsInOrder
<1>3. LostIsOld'
  BY PublishMeans DEF LostIsOld, Oldest
<1>4. DrainIsLate'
  BY PublishMeans DEF DrainIsLate
<1>5. EndIsAhead'
  BY PublishMeans DEF EndIsAhead, OfferIsInOrder
<1>6. NothingMissedUnawares'
  BY PublishMeans DEF NothingMissedUnawares, GapsAreKnown, ClosedStreamHasEnd, OfferIsInOrder, DrainIsLate
<1> QED BY <1>1, <1>2, <1>3, <1>4, <1>5, <1>6

(* The controller.                                                         *)
LEMMA RunKeeps == StreamInv /\ Run => StreamInv'
<1> SUFFICES ASSUME StreamInv, Run PROVE StreamInv'
  OBVIOUS
<1>1. CASE Report
  <2>1. Publish /\ end' = end /\ run' = run
    BY <1>1 DEF Report, controller
  <2> QED BY <2>1, PublishKeeps
<1>2. CASE PublishEnd
  <2>1. Publish /\ end' = seq' /\ run = "active" /\ run' = "ended"
    BY <1>2 DEF PublishEnd
  <2> QED BY <2>1, PublishKeeps
<1>3. CASE PublishLate
  <2>1. Publish /\ end' = end /\ run' = run
    BY <1>3 DEF PublishLate, controller
  <2> QED BY <2>1, PublishKeeps
<1>4. CASE RecordRunning \/ RecordEnd \/ MarkDone \/ Forget
  BY <1>4 DEF RecordRunning, RecordEnd, MarkDone, Forget, broker, connection,
     StreamInv, EndIsThere, OfferIsInOrder, LostIsOld, Oldest, DrainIsLate, EndIsAhead,
     NothingMissedUnawares, GapsAreKnown, ClosedStreamHasEnd
<1> QED BY <1>1, <1>2, <1>3, <1>4 DEF Run

(* The reader comes and goes.                                              *)
LEMMA ConnectionKeeps == StreamInv /\ (Subscribe \/ AskRecord \/ Disconnect \/ Restart) => StreamInv'
<1> USE DEF StreamInv, EndIsThere, OfferIsInOrder, LostIsOld, DrainIsLate, EndIsAhead,
            NothingMissedUnawares, GapsAreKnown, ClosedStreamHasEnd
<1>1. ASSUME StreamInv, Subscribe PROVE StreamInv'
  BY <1>1, SMTT(30) DEF Subscribe, Connect, Replayable, Buffered, Oldest, broker, controller
<1>2. StreamInv /\ AskRecord => StreamInv'
  BY SMTT(30) DEF AskRecord, Connect, broker
<1>3. StreamInv /\ Disconnect => StreamInv'
  BY SMTT(30) DEF Disconnect, Drop, broker, controller
<1>4. StreamInv /\ Restart => StreamInv'
  BY SMTT(30) DEF Restart, Drop, broker
<1> QED BY <1>1, <1>2, <1>3, <1>4

(* A delivery moves the earliest of the events still to come.              *)
LEMMA DeliveryKeeps ==
  ASSUME StreamInv, at \in {"replaying", "draining", "last"}, at' = at,
         NEW s, NEW events, Deliver(s, events),
         \/ s \in todo /\ events = todo /\ todo' = todo \ {s} /\ queue' = queue
         \/ at # "replaying" /\ s \in queue /\ events = queue /\ queue' = queue \ {s} /\ todo' = todo
  PROVE  StreamInv'
<1> USE DEF StreamInv
<1>0. UNCHANGED <<seq, end, run, after, missed, told>> /\ seen' = seen \cup {s} /\ knows' = (knows \/ s = end)
  BY DEF Deliver, broker, controller
<1>1. StreamTyped' /\ EndIsThere'
  BY <1>0 DEF EndIsThere
<1>2. Offered' = Offered /\ s \in Offered
  BY <1>0
<1>3. todo \cup queue \subseteq Nat
  BY DEF OfferIsInOrder
<1>4. \A t \in (todo \cup queue) \ {s} : s < t
  BY <1>3 DEF Deliver, DrainIsLate, OfferIsInOrder
<1>5. OfferIsInOrder'
  BY <1>0, <1>2, <1>4 DEF OfferIsInOrder
<1>6. LostIsOld' /\ DrainIsLate'
  BY <1>0 DEF LostIsOld, DrainIsLate
<1>7. EndIsAhead'
  BY <1>0 DEF EndIsAhead
<1>8. NothingMissedUnawares'
  <2>1. GapsAreKnown'
    BY <1>0, <1>2 DEF NothingMissedUnawares, GapsAreKnown
  <2>2. ClosedStreamHasEnd'
    BY DEF ClosedStreamHasEnd
  <2> QED BY <2>1, <2>2 DEF NothingMissedUnawares
<1> QED BY <1>1, <1>5, <1>6, <1>7, <1>8

(* The warning is given if an event was lost before the subscription.      *)
LEMMA WarnKeeps == StreamInv /\ Warn => StreamInv'
<1> SUFFICES ASSUME StreamInv, Warn PROVE StreamInv'
  OBVIOUS
<1> USE DEF StreamInv
<1>0. /\ UNCHANGED <<seq, end, run, after, todo, queue, missed, seen, knows>>
      /\ at = "subscribed" /\ at' = "replaying" /\ told' = Truncated(after)
  BY DEF Warn, broker, controller
<1>1. StreamTyped' /\ EndIsThere' /\ OfferIsInOrder' /\ LostIsOld' /\ DrainIsLate' /\ EndIsAhead'
  BY <1>0 DEF EndIsThere, OfferIsInOrder, LostIsOld, DrainIsLate, EndIsAhead
<1>2. ASSUME NEW s \in (after + 1)..seq, s \notin Offered PROVE Truncated(after)
  <2>1. s < Oldest
    BY <1>0, <1>2 DEF LostIsOld
  <2> QED BY <2>1 DEF Truncated, Oldest
<1>3. GapsAreKnown'
  BY <1>0, <1>2 DEF GapsAreKnown, NothingMissedUnawares
<1>4. ClosedStreamHasEnd'
  BY <1>0 DEF ClosedStreamHasEnd
<1> QED BY <1>1, <1>3, <1>4 DEF NothingMissedUnawares

(* The generator.                                                          *)
LEMMA StreamKeeps == StreamInv /\ Stream => StreamInv'
<1> SUFFICES ASSUME StreamInv, Stream PROVE StreamInv'
  OBVIOUS
<1> USE DEF StreamInv, EndIsThere, OfferIsInOrder, LostIsOld, DrainIsLate, EndIsAhead,
            NothingMissedUnawares, GapsAreKnown, ClosedStreamHasEnd
<1>1. CASE Warn
  BY <1>1, WarnKeeps
<1>2. CASE Replay
  <2>1. CASE todo = {}
    BY <1>2, <2>1, SMTT(30) DEF Replay, broker, controller
  <2>2. CASE todo # {}
    BY <1>2, <2>2, DeliveryKeeps DEF Replay
  <2> QED BY <2>1, <2>2
<1>3. CASE Drain
  BY <1>3, DeliveryKeeps DEF Drain
<1>4. CASE FindEmpty \/ LookAtRun
  BY <1>4, SMTT(30) DEF FindEmpty, LookAtRun, broker, controller
<1>5. CASE Close
  BY <1>5, SMTT(30) DEF Close, broker, controller
<1> QED BY <1>1, <1>2, <1>3, <1>4, <1>5 DEF Stream

-----------------------------------------------------------------------------
(* The inductive invariant of a run and its reader.                        *)
THEOREM StreamInvariant == StreamSpec => []StreamInv
<1>1. StreamInv /\ UNCHANGED streamVars => StreamInv'
  BY DEF streamVars, broker, controller, connection, StreamInv, EndIsThere, OfferIsInOrder, LostIsOld,
     Oldest, DrainIsLate, EndIsAhead, NothingMissedUnawares, GapsAreKnown, ClosedStreamHasEnd
<1>2. StreamInv /\ [StreamNext]_streamVars => StreamInv'
  BY <1>1, RunKeeps, ConnectionKeeps, StreamKeeps DEF StreamNext
<1> QED BY StreamStarts, <1>2, PTL DEF StreamSpec

(* Every gap in what a reader of _run_sse gets is one it is told of or was *)
(* too slow for, and a stream the server closes has delivered the end.     *)
THEOREM NothingIsMissedUnawares == StreamSpec => []NothingMissedUnawares
<1>1. StreamInv => NothingMissedUnawares
  BY DEF StreamInv
<1> QED BY <1>1, StreamInvariant, PTL

(* No event is delivered twice on a connection, nor out of order.          *)
THEOREM EventsComeInOrder == StreamSpec => DeliveredInOrder
<1> DEFINE InOrder == \A s \in seen' \ seen : s > after /\ \A t \in seen : t < s
<1>1. StreamInv /\ [StreamNext]_streamVars => [InOrder]_streamVars
  <2> SUFFICES ASSUME StreamInv, StreamNext PROVE InOrder
    OBVIOUS
  <2>1. CASE seen' \subseteq seen
    BY <2>1
  <2>2. CASE Replay /\ todo # {}
    BY <2>2, SMTT(30) DEF Replay, Deliver, StreamInv, OfferIsInOrder
  <2>3. CASE Drain
    BY <2>3, SMTT(30) DEF Drain, Deliver, StreamInv, OfferIsInOrder
  <2> QED BY <2>1, <2>2, <2>3 DEF StreamNext, Run, Stream, Report, RecordRunning, PublishEnd, RecordEnd,
       PublishLate, MarkDone, Forget, Publish, Subscribe, AskRecord, Warn, Replay, FindEmpty, LookAtRun,
       Close, Disconnect, Restart, Drop, connection
<1> QED BY <1>1, StreamInvariant, PTL DEF StreamSpec, DeliveredInOrder
=============================================================================
