------------------------- MODULE TrainingSlotProofs -------------------------
(***************************************************************************)
(* The proofs about TrainingSlot: SlotInv is inductive, and the properties *)
(* of the slot follow from it.  Each action has one lemma; the conjuncts   *)
(* of SlotInv that need only themselves form one step of it, those that    *)
(* rest on others have a step each.                                        *)
(***************************************************************************)
EXTENDS TrainingSlotInv, TLAPS

USE DEF At, Is, Goto, InRoute, InWorker, Busy, Holding, Real, slotVars,
        diskVars, envVars

(* The part of the types that a write can disturb. *)
FilesAndFaultsFit ==
  /\ file \in [Files -> RunRecord]
  /\ faults \in 0..MaxFaults
  /\ crashes \in 0..MaxCrashes

(* A controller's write, lost or not, keeps the types. *)
LEMMA SaveFits ==
  ASSUME SlotTypeOK, NEW f \in Files, NEW rec \in RunRecord, Save(f, rec)
  PROVE  FilesAndFaultsFit'
  BY SlotAssumption DEF SlotTypeOK, Save, Fault, FilesAndFaultsFit

(* A write that is itself the fault keeps the types. *)
LEMMA FaultyWriteFits ==
  ASSUME SlotTypeOK, NEW f \in Files, NEW rec \in RunRecord, Fault,
         file' = [file EXCEPT ![f] = rec]
  PROVE  FilesAndFaultsFit'
  BY SlotAssumption DEF SlotTypeOK, Fault, FilesAndFaultsFit

-----------------------------------------------------------------------------
(* The gate and the two routes of a run into the slot. *)

(* Whoever passes the gate is alone: no controller is active, and a        *)
(* record that shows a live training would have blocked it.                *)
LEMMA GateStep ==
  ASSUME SlotInv, NEW q \in Requests, Gate(q)
  PROVE  SlotInv'
<1>1. /\ SlotTypeOK'
      /\ LiveIsShown'
  BY DEF Gate, Closed, Files, Forgotten, Gone, Labels, Reconciled,
     RecordBlocks, RunRecord, Shown, SlotInv, SlotTypeOK, LiveIsShown
<1>2. PlacesFitKinds'
  BY DEF Gate, SlotInv, SlotTypeOK, PlacesFitKinds
<1>3. RouteIsAlone'
  BY SlotAssumption DEF Gate, Active, Requestable, SlotTaken, SlotInv,
     SlotTypeOK, RouteIsAlone
<1>4. ReservationIsHeld'
  BY DEF Gate, Requestable, SlotInv, SlotTypeOK, ReservationIsHeld
<1>5. LiveFitsPlace'
  BY DEF Gate, Requestable, SlotInv, SlotTypeOK, LiveFitsPlace
<1>6. RecordsFitPlaces'
  BY DEF Gate, Closed, Files, Open, Reconciled, RecordsOf, Requestable,
     SlotTaken, SlotInv, SlotTypeOK, ReservationIsHeld, RecordsFitPlaces
<1>7. AdmittedOnlyIfForgotten'
  BY DEF Gate, Closed, Files, Forgotten, Gone, Kinds, Reconciled,
     RecordBlocks, Shown, StudyBlocks, SlotInv, SlotTypeOK, LiveFitsPlace,
     LiveIsShown, AdmittedOnlyIfForgotten
<1> QED
  BY <1>1, <1>2, <1>3, <1>4, <1>5, <1>6, <1>7 DEF SlotInv

(* A dry run enters its route beside whatever is running. *)
LEMMA DryRunStep ==
  ASSUME SlotInv, NEW q \in Requests, DryRun(q)
  PROVE  SlotInv'
<1>1. /\ SlotTypeOK'
      /\ PlacesFitKinds'
      /\ ReservationIsHeld'
      /\ LiveFitsPlace'
      /\ RecordsFitPlaces'
      /\ LiveIsShown'
      /\ AdmittedOnlyIfForgotten'
  BY DEF DryRun, Forgotten, Labels, RecordsOf, Shown, SlotInv, SlotTypeOK,
     PlacesFitKinds, ReservationIsHeld, LiveFitsPlace, RecordsFitPlaces,
     LiveIsShown, AdmittedOnlyIfForgotten
<1>2. RouteIsAlone'
  BY SlotAssumption DEF DryRun, Requestable, SlotInv, SlotTypeOK,
     RouteIsAlone
<1> QED
  BY <1>1, <1>2 DEF SlotInv

(* The reservation was free, so its new owner is the only one. *)
LEMMA ReserveStep ==
  ASSUME SlotInv, NEW q \in Requests, Reserve(q)
  PROVE  SlotInv'
<1>1. /\ SlotTypeOK'
      /\ PlacesFitKinds'
      /\ RouteIsAlone'
      /\ LiveFitsPlace'
      /\ RecordsFitPlaces'
      /\ LiveIsShown'
      /\ AdmittedOnlyIfForgotten'
  BY DEF Reserve, Active, Forgotten, Labels, RecordsOf, Shown, SlotInv,
     SlotTypeOK, PlacesFitKinds, RouteIsAlone, LiveFitsPlace,
     RecordsFitPlaces, LiveIsShown, AdmittedOnlyIfForgotten
<1>2. ReservationIsHeld'
  BY SlotAssumption DEF Reserve, SlotTaken, SlotInv, SlotTypeOK,
     PlacesFitKinds, ReservationIsHeld
<1> QED
  BY <1>1, <1>2 DEF SlotInv

(* The record of a tuning run may hide an earlier one, that is then        *)
(* forgotten.                                                              *)
LEMMA FirstRecordStep ==
  ASSUME SlotInv, NEW q \in Requests, FirstRecord(q)
  PROVE  SlotInv'
<1>1. SlotTypeOK'
  <2>1. StartingRecord(q) \in RunRecord
    BY DEF StartingRecord, RunRecord
  <2> QED
    BY <2>1, SlotAssumption
       DEF FirstRecord, Refuse, Freed, Fault, FileOf, SlotInv, SlotTypeOK,
           Files, Labels, Kinds
<1>2. PlacesFitKinds'
  BY DEF FirstRecord, Refuse, SlotInv, SlotTypeOK, PlacesFitKinds
<1>3. RouteIsAlone'
  BY SlotAssumption DEF FirstRecord, Active, Refuse, SlotInv, SlotTypeOK,
     RouteIsAlone
<1>4. ReservationIsHeld'
  BY SlotAssumption DEF FirstRecord, Freed, Refuse, SlotInv, SlotTypeOK,
     ReservationIsHeld
<1>5. LiveFitsPlace'
  BY DEF FirstRecord, Refuse, SlotInv, SlotTypeOK, LiveFitsPlace
<1>6. RecordsFitPlaces'
  BY SlotAssumption DEF FirstRecord, FileOf, Files, Open, RecordsOf, Refuse,
     StartingRecord, SlotInv, SlotTypeOK, ReservationIsHeld,
     RecordsFitPlaces
<1>7. LiveIsShown'
  BY DEF FirstRecord, FileOf, Files, Forgotten, Open, Refuse, Shown,
     StartingRecord, SlotInv, SlotTypeOK, LiveIsShown,
     AdmittedOnlyIfForgotten
<1>8. AdmittedOnlyIfForgotten'
  BY DEF FirstRecord, Files, Forgotten, Refuse, StartingRecord, SlotInv,
     SlotTypeOK, LiveFitsPlace, AdmittedOnlyIfForgotten
<1> QED
  BY <1>1, <1>2, <1>3, <1>4, <1>5, <1>6, <1>7, <1>8 DEF SlotInv

(* The route ends: the run is a worker, refused, or a zombie. *)
LEMMA StartWorkerStep ==
  ASSUME SlotInv, NEW q \in Requests, StartWorker(q)
  PROVE  SlotInv'
<1>1. /\ SlotTypeOK'
      /\ LiveIsShown'
  BY SlotAssumption DEF StartWorker, Fault, Forgotten, Freed, Labels,
     Refuse, Shown, SlotInv, SlotTypeOK, LiveIsShown
<1>2. PlacesFitKinds'
  BY DEF StartWorker, Kinds, Refuse, SlotInv, SlotTypeOK, PlacesFitKinds
<1>3. RouteIsAlone'
  BY SlotAssumption DEF StartWorker, Refuse, SlotInv, SlotTypeOK,
     RouteIsAlone
<1>4. ReservationIsHeld'
  BY SlotAssumption DEF StartWorker, Freed, Refuse, SlotInv, SlotTypeOK,
     ReservationIsHeld
<1>5. LiveFitsPlace'
  BY DEF StartWorker, Refuse, SlotInv, SlotTypeOK, LiveFitsPlace
<1>6. RecordsFitPlaces'
  BY DEF StartWorker, RecordsOf, Refuse, SlotInv, SlotTypeOK,
     PlacesFitKinds, RecordsFitPlaces
<1>7. AdmittedOnlyIfForgotten'
  BY DEF StartWorker, Forgotten, Refuse, SlotInv, SlotTypeOK,
     AdmittedOnlyIfForgotten
<1> QED
  BY <1>1, <1>2, <1>3, <1>4, <1>5, <1>6, <1>7 DEF SlotInv

(* The route is left: its run is at no place of a worker, and what it had  *)
(* reserved or written stays.                                              *)
LEMMA RouteRaisesStep ==
  ASSUME SlotInv, NEW q \in Requests, RouteRaises(q)
  PROVE  SlotInv'
<1>1. /\ SlotTypeOK'
      /\ PlacesFitKinds'
      /\ LiveIsShown'
      /\ AdmittedOnlyIfForgotten'
  BY SlotAssumption DEF RouteRaises, Fault, Forgotten, Labels, Shown,
     SlotInv, SlotTypeOK, PlacesFitKinds, LiveIsShown,
     AdmittedOnlyIfForgotten
<1>2. RouteIsAlone'
  BY SlotAssumption DEF RouteRaises, Active, SlotInv, SlotTypeOK,
     RouteIsAlone
<1>3. ReservationIsHeld'
  BY SlotAssumption DEF RouteRaises, SlotInv, SlotTypeOK,
     ReservationIsHeld
<1>4. LiveFitsPlace'
  BY DEF RouteRaises, SlotInv, SlotTypeOK, LiveFitsPlace
<1>5. RecordsFitPlaces'
  BY DEF RouteRaises, RecordsOf, SlotInv, SlotTypeOK, RecordsFitPlaces
<1> QED
  BY <1>1, <1>2, <1>3, <1>4, <1>5 DEF SlotInv

-----------------------------------------------------------------------------
(* The workers of manual and tuning runs. *)

(* The run has no training yet, so its record shows no less than before. *)
LEMMA ReportPhaseStep ==
  ASSUME SlotInv, NEW q \in Requests, ReportPhase(q)
  PROVE  SlotInv'
<1>1. SlotTypeOK'
  <2>1. RunningRecord(q, FALSE) \in RunRecord /\ SlotTypeOK
    BY DEF RunningRecord, RunRecord, SlotInv
  <2>2. Save("tuning", RunningRecord(q, FALSE)) /\ "tuning" \in Files
    BY DEF ReportPhase, Files
  <2>3. FilesAndFaultsFit'
    BY <2>1, <2>2, SaveFits, Zenon
  <2> QED
    BY <2>1, <2>3 DEF ReportPhase, SlotTypeOK, FilesAndFaultsFit
<1>2. /\ PlacesFitKinds'
      /\ RouteIsAlone'
      /\ ReservationIsHeld'
      /\ LiveFitsPlace'
  BY DEF ReportPhase, Active, SlotInv, PlacesFitKinds, RouteIsAlone,
     ReservationIsHeld, LiveFitsPlace
<1>3. RecordsFitPlaces'
  BY SlotAssumption DEF ReportPhase, Files, Open, RecordsOf, RunningRecord,
     Save, SlotInv, SlotTypeOK, RecordsFitPlaces
<1>4. LiveIsShown'
  BY DEF ReportPhase, Files, Forgotten, Open, RunningRecord, Save, Shown,
     SlotInv, SlotTypeOK, LiveIsShown
<1>5. AdmittedOnlyIfForgotten'
  BY DEF ReportPhase, Active, SlotInv, RouteIsAlone, AdmittedOnlyIfForgotten
<1> QED
  BY <1>1, <1>2, <1>3, <1>4, <1>5 DEF SlotInv

(* The record is open, or names another session's run, before the launch. *)
LEMMA LaunchStep ==
  ASSUME SlotInv, NEW q \in Requests, Launch(q)
  PROVE  SlotInv'
<1>1. /\ SlotTypeOK'
      /\ PlacesFitKinds'
      /\ RouteIsAlone'
      /\ ReservationIsHeld'
      /\ RecordsFitPlaces'
  BY DEF Launch, Active, Labels, RecordsOf, SlotInv, SlotTypeOK,
     PlacesFitKinds, RouteIsAlone, ReservationIsHeld, RecordsFitPlaces
<1>2. LiveFitsPlace'
  BY DEF Launch, SlotInv, SlotTypeOK, PlacesFitKinds, LiveFitsPlace
<1>3. LiveIsShown'
  BY DEF Launch, Forgotten, RecordsOf, Shown, SlotInv, RecordsFitPlaces,
     LiveIsShown
<1>4. AdmittedOnlyIfForgotten'
  BY DEF Launch, Active, SlotInv, RouteIsAlone, AdmittedOnlyIfForgotten
<1> QED
  BY <1>1, <1>2, <1>3, <1>4 DEF SlotInv

(* A lost write leaves an open record, an unread identity writes one. *)
LEMMA IdentifyStep ==
  ASSUME SlotInv, NEW q \in Requests, Identify(q)
  PROVE  SlotInv'
<1>1. SlotTypeOK'
  <2>1. /\ RunningRecord(q, FALSE) \in RunRecord
        /\ RunningRecord(q, TRUE) \in RunRecord
        /\ FileOf(q) \in Files
        /\ SlotTypeOK
    BY DEF RunningRecord, RunRecord, FileOf, Files, SlotInv
  <2>2. FilesAndFaultsFit'
    <3>1. CASE Save(FileOf(q), RunningRecord(q, TRUE))
      BY <2>1, <3>1, SaveFits, Zenon
    <3>2. CASE /\ Fault
               /\ file' = [file EXCEPT ![FileOf(q)] = RunningRecord(q, FALSE)]
      BY <2>1, <3>2, FaultyWriteFits, Zenon
    <3> QED
      BY <3>1, <3>2, Zenon DEF Identify
  <2> QED
    BY <2>1, <2>2 DEF Identify, SlotTypeOK, FilesAndFaultsFit, Labels
<1>2. /\ PlacesFitKinds'
      /\ RouteIsAlone'
      /\ ReservationIsHeld'
      /\ LiveFitsPlace'
  BY DEF Identify, Active, SlotInv, PlacesFitKinds, RouteIsAlone,
     ReservationIsHeld, LiveFitsPlace
<1>3. RecordsFitPlaces'
  BY SlotAssumption DEF Identify, FileOf, Files, Open, RecordsOf,
     RunningRecord, Save, SlotInv, SlotTypeOK, RecordsFitPlaces
<1>4. LiveIsShown'
  BY DEF Identify, FileOf, Files, Forgotten, Open, RecordsOf, RunningRecord,
     Save, Shown, SlotInv, SlotTypeOK, RecordsFitPlaces, LiveIsShown
<1>5. AdmittedOnlyIfForgotten'
  BY DEF Identify, Active, SlotInv, RouteIsAlone, AdmittedOnlyIfForgotten
<1> QED
  BY <1>1, <1>2, <1>3, <1>4, <1>5 DEF SlotInv

(* Nothing was launched, so nothing alive is left behind. *)
LEMMA EndUnlaunchedStep ==
  ASSUME SlotInv, NEW q \in Requests, EndUnlaunched(q)
  PROVE  SlotInv'
<1>1. /\ SlotTypeOK'
      /\ PlacesFitKinds'
      /\ RouteIsAlone'
      /\ ReservationIsHeld'
      /\ LiveFitsPlace'
      /\ RecordsFitPlaces'
      /\ LiveIsShown'
      /\ AdmittedOnlyIfForgotten'
  BY DEF EndUnlaunched, Active, Forgotten, Labels, RecordsOf, Shown,
     SlotInv, SlotTypeOK, PlacesFitKinds, RouteIsAlone, ReservationIsHeld,
     LiveFitsPlace, RecordsFitPlaces, LiveIsShown, AdmittedOnlyIfForgotten
<1> QED
  BY <1>1 DEF SlotInv

(* The training is over before its run leaves the places of a worker. *)
LEMMA EndTrainingStep ==
  ASSUME SlotInv, NEW q \in Requests, EndTraining(q)
  PROVE  SlotInv'
<1>1. /\ SlotTypeOK'
      /\ PlacesFitKinds'
      /\ RouteIsAlone'
      /\ ReservationIsHeld'
      /\ RecordsFitPlaces'
      /\ LiveIsShown'
      /\ AdmittedOnlyIfForgotten'
  BY DEF EndTraining, Active, Forgotten, Labels, RecordsOf, Shown, SlotInv,
     SlotTypeOK, PlacesFitKinds, RouteIsAlone, ReservationIsHeld,
     RecordsFitPlaces, LiveIsShown, AdmittedOnlyIfForgotten
<1>2. LiveFitsPlace'
  BY DEF EndTraining, SlotInv, SlotTypeOK, LiveFitsPlace
<1> QED
  BY <1>1, <1>2 DEF SlotInv

(* A training that is left is forgotten from then on. *)
LEMMA LeaveTrainingStep ==
  ASSUME SlotInv, NEW q \in Requests, LeaveTraining(q)
  PROVE  SlotInv'
<1>1. /\ SlotTypeOK'
      /\ PlacesFitKinds'
      /\ RouteIsAlone'
      /\ ReservationIsHeld'
      /\ LiveFitsPlace'
      /\ RecordsFitPlaces'
      /\ LiveIsShown'
      /\ AdmittedOnlyIfForgotten'
  BY DEF LeaveTraining, Active, Forgotten, Labels, RecordsOf, Shown,
     SlotInv, SlotTypeOK, PlacesFitKinds, RouteIsAlone, ReservationIsHeld,
     LiveFitsPlace, RecordsFitPlaces, LiveIsShown, AdmittedOnlyIfForgotten
<1> QED
  BY <1>1 DEF SlotInv

(* The training of a manual run is over when its record is closed. *)
LEMMA EndManualStep ==
  ASSUME SlotInv, NEW q \in Requests, EndManual(q)
  PROVE  SlotInv'
<1>1. /\ SlotTypeOK'
      /\ PlacesFitKinds'
      /\ RouteIsAlone'
      /\ LiveFitsPlace'
  BY SlotAssumption DEF EndManual, Active, Closed, Fault, Freed, Labels,
     RunRecord, Save, SlotInv, SlotTypeOK, PlacesFitKinds, RouteIsAlone,
     LiveFitsPlace
<1>2. ReservationIsHeld'
  BY SlotAssumption DEF EndManual, Freed, SlotInv, SlotTypeOK,
     ReservationIsHeld
<1>3. RecordsFitPlaces'
  BY DEF EndManual, Closed, Files, Open, RecordsOf, RunRecord, Save,
     SlotInv, SlotTypeOK, RecordsFitPlaces
<1>4. LiveIsShown'
  BY DEF EndManual, Files, Forgotten, RecordsOf, Save, Shown, SlotInv,
     SlotTypeOK, LiveFitsPlace, RecordsFitPlaces, LiveIsShown
<1>5. AdmittedOnlyIfForgotten'
  BY DEF EndManual, Active, SlotInv, RouteIsAlone, AdmittedOnlyIfForgotten
<1> QED
  BY <1>1, <1>2, <1>3, <1>4, <1>5 DEF SlotInv

(* The record closed is that of a run that has no live, unforgotten        *)
(* training.                                                               *)
LEMMA WriteTerminalStep ==
  ASSUME SlotInv, NEW q \in Requests, WriteTerminal(q)
  PROVE  SlotInv'
<1>1. SlotTypeOK'
  <2>1. [run |-> q, status |-> "terminal", pid |-> proc[q] # "none"]
          \in RunRecord
    BY DEF RunRecord
  <2> QED
    BY <2>1, SlotAssumption
       DEF WriteTerminal, Save, Fault, SlotInv, SlotTypeOK, Files, Labels
<1>2. /\ PlacesFitKinds'
      /\ RouteIsAlone'
      /\ ReservationIsHeld'
      /\ LiveFitsPlace'
  BY DEF WriteTerminal, Active, SlotInv, PlacesFitKinds, RouteIsAlone,
     ReservationIsHeld, LiveFitsPlace
<1>3. RecordsFitPlaces'
  BY DEF WriteTerminal, Files, Open, RecordsOf, Save, SlotInv, SlotTypeOK,
     RecordsFitPlaces
<1>4. LiveIsShown'
  BY DEF WriteTerminal, Files, Forgotten, Save, Shown, SlotInv, SlotTypeOK,
     LiveFitsPlace, LiveIsShown
<1>5. AdmittedOnlyIfForgotten'
  BY DEF WriteTerminal, Active, SlotInv, RouteIsAlone,
     AdmittedOnlyIfForgotten
<1> QED
  BY <1>1, <1>2, <1>3, <1>4, <1>5 DEF SlotInv

(* The reservation outlives the controller's registration. *)
LEMMA MarkDoneStep ==
  ASSUME SlotInv, NEW q \in Requests, MarkDone(q)
  PROVE  SlotInv'
<1>1. /\ SlotTypeOK'
      /\ PlacesFitKinds'
      /\ RouteIsAlone'
      /\ ReservationIsHeld'
      /\ RecordsFitPlaces'
      /\ LiveIsShown'
      /\ AdmittedOnlyIfForgotten'
  BY DEF MarkDone, Active, Forgotten, Labels, RecordsOf, Shown, SlotInv,
     SlotTypeOK, PlacesFitKinds, RouteIsAlone, ReservationIsHeld,
     RecordsFitPlaces, LiveIsShown, AdmittedOnlyIfForgotten
<1>2. LiveFitsPlace'
  BY DEF MarkDone, SlotInv, PlacesFitKinds, LiveFitsPlace
<1> QED
  BY <1>1, <1>2 DEF SlotInv

(* A worker releases its own reservation and no other. *)
LEMMA ReleaseStep ==
  ASSUME SlotInv, NEW q \in Requests, Release(q)
  PROVE  SlotInv'
<1>1. /\ SlotTypeOK'
      /\ PlacesFitKinds'
      /\ RouteIsAlone'
      /\ LiveFitsPlace'
      /\ RecordsFitPlaces'
      /\ LiveIsShown'
      /\ AdmittedOnlyIfForgotten'
  BY DEF Release, Active, Forgotten, Freed, Labels, RecordsOf, Shown,
     SlotInv, SlotTypeOK, PlacesFitKinds, RouteIsAlone, LiveFitsPlace,
     RecordsFitPlaces, LiveIsShown, AdmittedOnlyIfForgotten
<1>2. ReservationIsHeld'
  BY SlotAssumption DEF Release, Freed, SlotInv, SlotTypeOK,
     ReservationIsHeld
<1> QED
  BY <1>1, <1>2 DEF SlotInv

(* The record overwritten is that of another session, now forgotten. *)
LEMMA LateWriteStep ==
  ASSUME SlotInv, NEW q \in Requests, LateWrite(q)
  PROVE  SlotInv'
<1>1. /\ SlotTypeOK'
      /\ PlacesFitKinds'
      /\ RouteIsAlone'
      /\ ReservationIsHeld'
      /\ LiveFitsPlace'
      /\ RecordsFitPlaces'
      /\ LiveIsShown'
      /\ AdmittedOnlyIfForgotten'
  BY DEF LateWrite, Active, Files, Forgotten, Open, RecordsOf, RunRecord,
     Shown, SlotInv, SlotTypeOK, PlacesFitKinds, RouteIsAlone,
     ReservationIsHeld, LiveFitsPlace, RecordsFitPlaces, LiveIsShown,
     AdmittedOnlyIfForgotten
<1> QED
  BY <1>1 DEF SlotInv

-----------------------------------------------------------------------------
(* The worker of a study. *)

(* The study is running from here until its worker ends. *)
LEMMA OpenSessionStep ==
  ASSUME SlotInv, NEW q \in Requests, OpenSession(q)
  PROVE  SlotInv'
<1>1. /\ SlotTypeOK'
      /\ PlacesFitKinds'
      /\ RouteIsAlone'
      /\ ReservationIsHeld'
      /\ LiveFitsPlace'
      /\ RecordsFitPlaces'
  BY DEF OpenSession, Active, ExecRecord, HpoStep, Labels, RecordsOf,
     SlotInv, SlotTypeOK, PlacesFitKinds, RouteIsAlone, ReservationIsHeld,
     LiveFitsPlace, RecordsFitPlaces
<1>2. LiveIsShown'
  BY DEF OpenSession, Forgotten, HpoStep, RecordsOf, Shown, SlotInv,
     RecordsFitPlaces, LiveIsShown
<1>3. AdmittedOnlyIfForgotten'
  BY DEF OpenSession, Forgotten, HpoStep, RecordsOf, SlotInv,
     RecordsFitPlaces, AdmittedOnlyIfForgotten
<1> QED
  BY <1>1, <1>2, <1>3 DEF SlotInv

(* The attempt that is replaced is decided: it shows no live training. *)
LEMMA ClaimTrialStep ==
  ASSUME SlotInv, NEW q \in Requests, ClaimTrial(q)
  PROVE  SlotInv'
<1>1. SlotTypeOK'
  BY SlotAssumption DEF ClaimTrial, Active, ExecRecord, Files, Forgotten,
     HpoStep, Kinds, Labels, Open, RecordsOf, RunRecord, Shown, SlotInv,
     SlotTypeOK, PlacesFitKinds, RouteIsAlone, ReservationIsHeld,
     LiveFitsPlace, RecordsFitPlaces, LiveIsShown, AdmittedOnlyIfForgotten
<1>2. /\ PlacesFitKinds'
      /\ RouteIsAlone'
      /\ ReservationIsHeld'
      /\ LiveFitsPlace'
  BY DEF ClaimTrial, Active, HpoStep, SlotInv, PlacesFitKinds, RouteIsAlone,
     ReservationIsHeld, LiveFitsPlace
<1>3. RecordsFitPlaces'
  <2>1. file' = file /\ kind' = kind /\ q # NoRun
    BY SlotAssumption DEF ClaimTrial, HpoStep
  <2>2. exec' = [status |-> "RUNNING", phase |-> "intent", run |-> q]
    BY DEF ClaimTrial, HpoStep, SlotInv, SlotTypeOK, ExecRecord,
           RecordsFitPlaces, RecordsOf
  <2>3. kind[q] = "hpo" /\ pc[q] = "open" /\ pc'[q] = "intent"
    BY DEF ClaimTrial, HpoStep, SlotInv, SlotTypeOK
  <2>4. ASSUME NEW r \in Requests, r # q
        PROVE  /\ pc'[r] = pc[r]
               /\ ~(Is(r, {"hpo"}) /\ At(r, Holding))
               /\ ~At(r, {"open", "intent"})
    BY <2>3, <2>4
       DEF ClaimTrial, HpoStep, SlotInv, SlotTypeOK, PlacesFitKinds,
           ReservationIsHeld
  <2>5. \A f \in Files : Open(file'[f]) => file'[f].run # NoRun
    BY <2>1 DEF SlotInv, RecordsFitPlaces, RecordsOf
  <2>6. ASSUME NEW r \in Requests
        PROVE  RecordsOf(r)'
    <3>1. CASE r = q
      BY <3>1, <2>1, <2>2, <2>3 DEF RecordsOf
    <3>2. CASE r # q
      <4>1. RecordsOf(r)
        BY DEF SlotInv, RecordsFitPlaces, RecordsOf
      <4> QED
        BY <3>2, <4>1, <2>1, <2>2, <2>4 DEF RecordsOf, Open
    <3> QED
      BY <3>1, <3>2
  <2> QED
    BY <2>1, <2>2, <2>5, <2>6 DEF RecordsFitPlaces, Open
<1>4. LiveIsShown'
  <2> SUFFICES ASSUME NEW t \in Requests, proc'[t] = "alive"
               PROVE  Forgotten(t)' \/ Shown(t)'
    BY DEF LiveIsShown
  <2>1. /\ proc[t] = "alive" /\ kind' = kind
        /\ file' = file /\ forgotten' = forgotten
    BY DEF ClaimTrial, HpoStep
  <2>2. exec.status = "RUNNING" /\ exec.phase \in {"none", "decided"}
    BY DEF ClaimTrial, HpoStep, SlotInv, RecordsFitPlaces, RecordsOf
  <2>3. Forgotten(t) \/ Shown(t)
    BY <2>1 DEF SlotInv, LiveIsShown
  <2>4. t \in forgotten \/ ~Is(t, {"hpo"})
    BY <2>2, <2>3 DEF Forgotten, Shown
  <2> QED
    BY <2>1, <2>3, <2>4 DEF Forgotten, Shown, Open
<1>5. AdmittedOnlyIfForgotten'
  BY DEF ClaimTrial, Forgotten, HpoStep, RecordsOf, SlotInv,
     RecordsFitPlaces, AdmittedOnlyIfForgotten
<1> QED
  BY <1>1, <1>2, <1>3, <1>4, <1>5 DEF SlotInv

(* The attempt is decided and its training is not alive. *)
LEMMA LaunchFailsStep ==
  ASSUME SlotInv, NEW q \in Requests, LaunchFails(q)
  PROVE  SlotInv'
<1>1. /\ SlotTypeOK'
      /\ PlacesFitKinds'
      /\ RouteIsAlone'
      /\ ReservationIsHeld'
      /\ LiveFitsPlace'
      /\ AdmittedOnlyIfForgotten'
  BY DEF LaunchFails, Active, ExecRecord, Forgotten, HpoStep, Labels,
     SlotInv, SlotTypeOK, PlacesFitKinds, RouteIsAlone, ReservationIsHeld,
     LiveFitsPlace, AdmittedOnlyIfForgotten
<1>2. RecordsFitPlaces'
  BY DEF LaunchFails, HpoStep, RecordsOf, SlotInv, SlotTypeOK,
     RecordsFitPlaces
<1>3. LiveIsShown'
  BY DEF LaunchFails, Forgotten, HpoStep, RecordsOf, Shown, SlotInv,
     RecordsFitPlaces, LiveIsShown
<1> QED
  BY <1>1, <1>2, <1>3 DEF SlotInv

(* The attempt goes on showing the training. *)
LEMMA CommitIdentityStep ==
  ASSUME SlotInv, NEW q \in Requests, CommitIdentity(q)
  PROVE  SlotInv'
<1>1. /\ SlotTypeOK'
      /\ PlacesFitKinds'
      /\ RouteIsAlone'
      /\ ReservationIsHeld'
      /\ LiveFitsPlace'
      /\ LiveIsShown'
      /\ AdmittedOnlyIfForgotten'
  BY DEF CommitIdentity, Active, ExecRecord, Forgotten, HpoStep, Labels,
     Shown, SlotInv, SlotTypeOK, PlacesFitKinds, RouteIsAlone,
     ReservationIsHeld, LiveFitsPlace, LiveIsShown, AdmittedOnlyIfForgotten
<1>2. RecordsFitPlaces'
  BY DEF CommitIdentity, HpoStep, RecordsOf, SlotInv, SlotTypeOK,
     RecordsFitPlaces
<1> QED
  BY <1>1, <1>2 DEF SlotInv

(* The training is over before its attempt is decided. *)
LEMMA ObserveExitStep ==
  ASSUME SlotInv, NEW q \in Requests, ObserveExit(q)
  PROVE  SlotInv'
<1>1. /\ SlotTypeOK'
      /\ PlacesFitKinds'
      /\ RouteIsAlone'
      /\ ReservationIsHeld'
      /\ LiveFitsPlace'
      /\ AdmittedOnlyIfForgotten'
  BY DEF ObserveExit, Active, ExecRecord, Forgotten, HpoStep, Labels,
     SlotInv, SlotTypeOK, PlacesFitKinds, RouteIsAlone, ReservationIsHeld,
     LiveFitsPlace, AdmittedOnlyIfForgotten
<1>2. RecordsFitPlaces'
  BY DEF ObserveExit, HpoStep, RecordsOf, SlotInv, SlotTypeOK,
     RecordsFitPlaces
<1>3. LiveIsShown'
  BY DEF ObserveExit, Forgotten, HpoStep, RecordsOf, Shown, SlotInv,
     SlotTypeOK, RecordsFitPlaces, LiveIsShown
<1> QED
  BY <1>1, <1>2, <1>3 DEF SlotInv

(* The attempt that is decided has a training that is gone. *)
LEMMA RecoverGoneStep ==
  ASSUME SlotInv, NEW q \in Requests, RecoverGone(q)
  PROVE  SlotInv'
<1>1. /\ SlotTypeOK'
      /\ PlacesFitKinds'
      /\ RouteIsAlone'
      /\ ReservationIsHeld'
      /\ LiveFitsPlace'
      /\ LiveIsShown'
      /\ AdmittedOnlyIfForgotten'
  BY DEF RecoverGone, Active, ExecRecord, Forgotten, Gone, HpoStep, Shown,
     SlotInv, SlotTypeOK, PlacesFitKinds, RouteIsAlone, ReservationIsHeld,
     LiveFitsPlace, LiveIsShown, AdmittedOnlyIfForgotten
<1>2. RecordsFitPlaces'
  BY DEF RecoverGone, HpoStep, RecordsOf, SlotInv, ReservationIsHeld,
     RecordsFitPlaces
<1> QED
  BY <1>1, <1>2 DEF SlotInv

(* A blocked study forgets the training of its attempt. *)
LEMMA RecoverBlockedStep ==
  ASSUME SlotInv, NEW q \in Requests, RecoverBlocked(q)
  PROVE  SlotInv'
<1>1. /\ SlotTypeOK'
      /\ PlacesFitKinds'
      /\ RouteIsAlone'
      /\ ReservationIsHeld'
      /\ LiveFitsPlace'
      /\ LiveIsShown'
      /\ AdmittedOnlyIfForgotten'
  BY DEF RecoverBlocked, Active, ExecRecord, Forgotten, HpoStep, Labels,
     Shown, SlotInv, SlotTypeOK, PlacesFitKinds, RouteIsAlone,
     ReservationIsHeld, LiveFitsPlace, LiveIsShown, AdmittedOnlyIfForgotten
<1>2. RecordsFitPlaces'
  BY DEF RecoverBlocked, Active, HpoStep, RecordsOf, SlotInv, SlotTypeOK,
     PlacesFitKinds, RouteIsAlone, ReservationIsHeld, RecordsFitPlaces
<1> QED
  BY <1>1, <1>2 DEF SlotInv

(* No attempt is open, so the study shows no live training. *)
LEMMA SettleStep ==
  ASSUME SlotInv, NEW q \in Requests, Settle(q)
  PROVE  SlotInv'
<1>1. /\ SlotTypeOK'
      /\ PlacesFitKinds'
      /\ RouteIsAlone'
      /\ ReservationIsHeld'
      /\ LiveFitsPlace'
  BY DEF Settle, Active, ExecRecord, HpoStep, Labels, SlotInv, SlotTypeOK,
     PlacesFitKinds, RouteIsAlone, ReservationIsHeld, LiveFitsPlace
<1>2. RecordsFitPlaces'
  BY DEF Settle, Active, HpoStep, RecordsOf, SlotInv, SlotTypeOK,
     PlacesFitKinds, RouteIsAlone, ReservationIsHeld, RecordsFitPlaces
<1>3. LiveIsShown'
  BY DEF Settle, Forgotten, HpoStep, RecordsOf, Shown, SlotInv,
     RecordsFitPlaces, LiveIsShown
<1>4. AdmittedOnlyIfForgotten'
  BY DEF Settle, Forgotten, HpoStep, RecordsOf, SlotInv, RecordsFitPlaces,
     AdmittedOnlyIfForgotten
<1> QED
  BY <1>1, <1>2, <1>3, <1>4 DEF SlotInv

(* An error leaves the record as it is or blocks the study. *)
LEMMA SessionFailsStep ==
  ASSUME SlotInv, NEW q \in Requests, SessionFails(q)
  PROVE  SlotInv'
<1>1. SlotTypeOK'
  BY SlotAssumption DEF SessionFails, ExecRecord, Fault, HpoStep, Labels,
     SlotInv, SlotTypeOK
<1>2. PlacesFitKinds'
  BY DEF SessionFails, HpoStep, SlotInv, SlotTypeOK, PlacesFitKinds
<1>3. RouteIsAlone'
  BY DEF SessionFails, Active, HpoStep, SlotInv, SlotTypeOK, RouteIsAlone
<1>4. ReservationIsHeld'
  BY DEF SessionFails, HpoStep, SlotInv, SlotTypeOK, ReservationIsHeld
<1>5. LiveFitsPlace'
  BY DEF SessionFails, HpoStep, SlotInv, SlotTypeOK, LiveFitsPlace
<1>6. RecordsFitPlaces'
  BY DEF SessionFails, Active, ExecRecord, HpoStep, RecordsOf, SlotInv,
     SlotTypeOK, PlacesFitKinds, RouteIsAlone, ReservationIsHeld,
     RecordsFitPlaces
<1>7. LiveIsShown'
  BY DEF SessionFails, ExecRecord, Forgotten, HpoStep, Shown, SlotInv,
     SlotTypeOK, LiveIsShown
<1>8. AdmittedOnlyIfForgotten'
  BY DEF SessionFails, ExecRecord, Forgotten, HpoStep, SlotInv, SlotTypeOK,
     AdmittedOnlyIfForgotten
<1> QED
  BY <1>1, <1>2, <1>3, <1>4, <1>5, <1>6, <1>7, <1>8 DEF SlotInv

-----------------------------------------------------------------------------
(* The environment, the reconciling routes and the restart. *)

(* An exit makes no training alive. *)
LEMMA TrainingExitsStep ==
  ASSUME SlotInv, NEW q \in Requests, TrainingExits(q)
  PROVE  SlotInv'
<1>1. /\ SlotTypeOK'
      /\ PlacesFitKinds'
      /\ RouteIsAlone'
      /\ ReservationIsHeld'
      /\ LiveFitsPlace'
      /\ RecordsFitPlaces'
      /\ LiveIsShown'
      /\ AdmittedOnlyIfForgotten'
  BY DEF TrainingExits, Active, Forgotten, RecordsOf, Shown, SlotInv,
     SlotTypeOK, PlacesFitKinds, RouteIsAlone, ReservationIsHeld,
     LiveFitsPlace, RecordsFitPlaces, LiveIsShown, AdmittedOnlyIfForgotten
<1> QED
  BY <1>1 DEF SlotInv

(* A live training whose record is closed is forgotten. *)
LEMMA ReconcileRouteStep ==
  ASSUME SlotInv, NEW f \in Files, ReconcileRoute(f)
  PROVE  SlotInv'
<1>1. SlotTypeOK'
  BY DEF ReconcileRoute, Closed, Open, RunRecord, SlotInv, SlotTypeOK,
     RecordsFitPlaces
<1>2. /\ PlacesFitKinds'
      /\ RouteIsAlone'
      /\ ReservationIsHeld'
      /\ LiveFitsPlace'
      /\ LiveIsShown'
      /\ AdmittedOnlyIfForgotten'
  BY DEF ReconcileRoute, Active, Closed, Forgotten, Shown, SlotInv,
     PlacesFitKinds, RouteIsAlone, ReservationIsHeld, LiveFitsPlace,
     LiveIsShown, AdmittedOnlyIfForgotten
<1>3. RecordsFitPlaces'
  BY DEF ReconcileRoute, Active, Closed, FileOf, Open, RecordsOf, SlotInv,
     RouteIsAlone, RecordsFitPlaces
<1> QED
  BY <1>1, <1>2, <1>3 DEF SlotInv

(* The service is empty; records and trainings are what they were. *)
LEMMA RestartStep ==
  ASSUME SlotInv, Restart
  PROVE  SlotInv'
<1>1. /\ SlotTypeOK'
      /\ PlacesFitKinds'
      /\ RouteIsAlone'
      /\ ReservationIsHeld'
      /\ LiveFitsPlace'
      /\ RecordsFitPlaces'
      /\ LiveIsShown'
      /\ AdmittedOnlyIfForgotten'
  BY SlotAssumption DEF Restart, Forgotten, Labels, RecordsOf, Shown,
     SlotInv, SlotTypeOK, PlacesFitKinds, RouteIsAlone, ReservationIsHeld,
     LiveFitsPlace, RecordsFitPlaces, LiveIsShown, AdmittedOnlyIfForgotten
<1> QED
  BY <1>1 DEF SlotInv

(* A step that changes nothing. *)
LEMMA StutterStep ==
  ASSUME SlotInv, UNCHANGED vars
  PROVE  SlotInv'
<1>1. /\ SlotTypeOK'
      /\ PlacesFitKinds'
      /\ RouteIsAlone'
      /\ ReservationIsHeld'
      /\ LiveFitsPlace'
      /\ RecordsFitPlaces'
      /\ LiveIsShown'
      /\ AdmittedOnlyIfForgotten'
  BY DEF Active, Forgotten, RecordsOf, Shown, vars, SlotInv, SlotTypeOK,
     PlacesFitKinds, RouteIsAlone, ReservationIsHeld, LiveFitsPlace,
     RecordsFitPlaces, LiveIsShown, AdmittedOnlyIfForgotten
<1> QED
  BY <1>1 DEF SlotInv

-----------------------------------------------------------------------------
(* The invariant and what follows from it. *)

(* The service starts on empty records. *)
LEMMA SlotInit == Init => SlotInv
<1> SUFFICES ASSUME Init
             PROVE  SlotInv
  OBVIOUS
<1>1. SlotTypeOK
  BY SlotAssumption DEF Init, SlotTypeOK, Files, RunRecord, ExecRecord, Labels
<1>2. PlacesFitKinds /\ LiveFitsPlace /\ LiveIsShown
      /\ AdmittedOnlyIfForgotten
  BY DEF Init, PlacesFitKinds, LiveFitsPlace, LiveIsShown,
         AdmittedOnlyIfForgotten
<1>3. RouteIsAlone /\ ReservationIsHeld
  BY SlotAssumption DEF Init, RouteIsAlone, ReservationIsHeld
<1>4. RecordsFitPlaces
  BY DEF Init, RecordsFitPlaces, RecordsOf, Open
<1> QED
  BY <1>1, <1>2, <1>3, <1>4 DEF SlotInv

(* Every step keeps the invariant. *)
LEMMA SlotStep == SlotInv /\ [Next]_vars => SlotInv'
<1> SUFFICES ASSUME SlotInv, [Next]_vars
             PROVE  SlotInv'
  OBVIOUS
<1>1. ASSUME NEW r \in Requests, Starting(r)
      PROVE  SlotInv'
  BY <1>1, GateStep, DryRunStep, ReserveStep, FirstRecordStep,
     StartWorkerStep, RouteRaisesStep
     DEF Starting
<1>2. ASSUME NEW r \in Requests, Working(r)
      PROVE  SlotInv'
  BY <1>2, ReportPhaseStep, LaunchStep, IdentifyStep, EndUnlaunchedStep,
     EndTrainingStep, LeaveTrainingStep, EndManualStep, WriteTerminalStep,
     MarkDoneStep, ReleaseStep, LateWriteStep
     DEF Working
<1>3. ASSUME NEW r \in Requests, Studying(r)
      PROVE  SlotInv'
  BY <1>3, OpenSessionStep, ClaimTrialStep, LaunchFailsStep,
     CommitIdentityStep, ObserveExitStep, RecoverGoneStep,
     RecoverBlockedStep, SettleStep, SessionFailsStep
     DEF Studying
<1> QED
  BY <1>1, <1>2, <1>3, TrainingExitsStep, ReconcileRouteStep, RestartStep,
     StutterStep
     DEF Next

(* The whole invariant holds in every reachable state. *)
THEOREM SlotInvariant == Spec => []SlotInv
  BY SlotInit, SlotStep, PTL DEF Spec

(* What a start route, a worker and a route that reconciles leave in the   *)
(* records has the shape the next reader expects.                          *)
THEOREM SlotTypes == Spec => []SlotTypeOK
<1>1. SlotInv => SlotTypeOK
  BY DEF SlotInv
<1> QED
  BY <1>1, SlotInvariant, PTL

(* A real run holds the reservation from its route until it is done, for   *)
(* any number of requests, faults and restarts (run_state/manager.py).     *)
THEOREM TheSlotIsHeld == Spec => []SlotHeld
<1>1. SlotInv => SlotHeld
  BY DEF SlotInv, ReservationIsHeld, SlotHeld
<1> QED
  BY <1>1, SlotInvariant, PTL

(* The gate admits a run beside a live training only if the service has    *)
(* forgotten that training (_assert_training_slot_free in app.py).         *)
THEOREM GateIsSound == Spec => []AdmittedOnlyIfForgotten
<1>1. SlotInv => AdmittedOnlyIfForgotten
  BY DEF SlotInv
<1> QED
  BY <1>1, SlotInvariant, PTL

(* A service at rest admits the next request, unless a start was abandoned *)
(* under the slot or a record was left without an identity (gate.py,       *)
(* run_state/manager.py).                                                  *)
THEOREM NothingLeaks == Spec => []RestFreesTheSlot
<1>1. SlotInv => RestFreesTheSlot
  <2> SUFFICES ASSUME SlotInv, AtRest
               PROVE  /\ SlotTaken => Abandoned # {}
                      /\ ~Unidentified =>
                           /\ \A f \in Files : ~RecordBlocks(file[f])
                           /\ ~StudyBlocks
    BY DEF RestFreesTheSlot
  <2>1. ASSUME SlotTaken
        PROVE  Abandoned # {}
    <3>1. CASE reservation # NoRun
      BY <3>1 DEF Abandoned, AtRest, SlotInv, SlotTypeOK, ReservationIsHeld
    <3>2. CASE Active # {}
      BY <3>2 DEF Abandoned, AtRest, Active
    <3> QED
      BY <2>1, <3>1, <3>2 DEF SlotTaken
  <2>2. ASSUME ~Unidentified, NEW f \in Files, RecordBlocks(file[f])
        PROVE  FALSE
    <3>1. Open(file[f]) /\ file[f].pid /\ file[f].run \in Requests
      BY <2>2 DEF RecordBlocks, Unidentified, SlotInv, SlotTypeOK, RunRecord,
                  RecordsFitPlaces
    <3> QED
      BY <2>2, <3>1, SlotAssumption DEF RecordBlocks, Gone, AtRest
  <2>3. ASSUME ~Unidentified, StudyBlocks
        PROVE  FALSE
    <3>1. exec.phase = "running" /\ exec.run \in Requests
      BY <2>3 DEF StudyBlocks, Unidentified, SlotInv, SlotTypeOK, ExecRecord,
                  RecordsFitPlaces
    <3> QED
      BY <2>3, <3>1, SlotAssumption DEF StudyBlocks, Gone, AtRest
  <2> QED
    BY <2>1, <2>2, <2>3
<1> QED
  BY <1>1, SlotInvariant, PTL

(* Whatever crashes, is lost or cannot be identified, the slot is held by  *)
(* the runs on their way and comes back when they are over; only a start   *)
(* that was abandoned keeps it (manager.reserve and release, _finish of    *)
(* the workers).                                                           *)
THEOREM SlotIsExact == Spec => []SlotFollowsRuns
BY TheSlotIsHeld, NothingLeaks, PTL DEF SlotFollowsRuns
=============================================================================
