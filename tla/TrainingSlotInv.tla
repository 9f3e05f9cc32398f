-------------------------- MODULE TrainingSlotInv ---------------------------
(***************************************************************************)
(* The inductive invariant of TrainingSlot: what a request may rely on at  *)
(* each place it can be, and why a live training that the service has not  *)
(* forgotten is still shown by the record the gate reads.                  *)
(***************************************************************************)
EXTENDS TrainingSlot

Real(r) == ~Is(r, {"dry"})

InRoute == {"gated", "reserved", "recorded"}
InWorker == {"starting", "open", "intent", "launched", "training"}
Busy == InWorker \cup {"ended", "written"}
Holding == {"reserved", "recorded", "done"} \cup Busy

(* Each place belongs to the kinds of run whose code has it. *)
PlacesFitKinds == \A r \in Requests :
  /\ At(r, {"open", "intent"}) => Is(r, {"hpo"})
  /\ At(r, {"recorded", "zombie", "raised"}) => ~Is(r, {"hpo"})
  /\ At(r, {"launched", "training", "gated"}) => Real(r)
  /\ At(r, {"written", "zombie"}) => Is(r, {"tuning", "dry"})

(* The event loop is held exactly by the request inside its route, and a   *)
(* real one that passed the gate has no active run beside it.              *)
RouteIsAlone == \A r \in Requests :
  /\ At(r, InRoute) <=> loop = r
  /\ At(r, InRoute) /\ Real(r) => Active = {}

(* The reservation is held by a real run on its way, and otherwise only by *)
(* one whose route was left by an error.                                   *)
ReservationIsHeld == \A r \in Requests :
  /\ Real(r) /\ At(r, Holding) => reservation = r
  /\ reservation = r => Real(r) /\ At(r, Holding \cup {"raised"})

(* A training that has not started, or a manual one whose run is over, is  *)
(* not alive; a tuning session that is over has left the live one behind.  *)
LiveFitsPlace == \A t \in Requests : proc[t] = "alive" =>
  /\ Real(t)
  /\ ~At(t, {"new", "refused", "intent", "zombie", "raised"} \cup InRoute)
  /\ At(t, {"starting"}) => Is(t, {"hpo"})
  /\ At(t, {"ended", "done", "gone"}) => ~Is(t, {"manual"})
  /\ At(t, {"ended", "written", "done", "gone"}) /\ Is(t, {"tuning"})
       => t \in forgotten

(* The record of a run at work. *)
RecordsOf(r) ==
  /\ Is(r, {"manual"}) /\ At(r, {"recorded"} \cup InWorker)
       => file["manual"].run = r /\ Open(file["manual"])
  /\ Is(r, {"manual"}) /\ At(r, {"ended"}) => file["manual"].run = r
  /\ Is(r, {"tuning"}) /\ At(r, {"recorded"} \cup InWorker)
       => (file["tuning"].run = r => Open(file["tuning"]))
  /\ Is(r, {"hpo"}) /\ At(r, {"gated", "reserved", "starting"})
       => exec.status \in {"READY", "RUNNING", "PAUSED"}
  /\ At(r, {"open"}) => exec.status = "RUNNING"
  /\ At(r, {"intent"}) \/ (At(r, {"launched"}) /\ Is(r, {"hpo"}))
       => exec = [status |-> "RUNNING", phase |-> "intent", run |-> r]
  /\ At(r, {"training"}) /\ Is(r, {"hpo"})
       => exec = [status |-> "RUNNING", phase |-> "running", run |-> r]

RecordsFitPlaces ==
  /\ \A f \in Files : Open(file[f]) => file[f].run # NoRun
  /\ exec.phase # "none" => exec.run # NoRun
  /\ \A r \in Requests : RecordsOf(r)

(* The record the gate reads shows the training. *)
Shown(t) ==
  /\ Is(t, {"manual"}) => file["manual"].run = t /\ Open(file["manual"])
  /\ Is(t, {"tuning"}) => file["tuning"].run = t /\ Open(file["tuning"])
  /\ Is(t, {"hpo"}) => /\ exec.status = "RUNNING"
                       /\ exec.phase \in {"intent", "running"}
                       /\ exec.run = t

LiveIsShown == \A t \in Requests :
  proc[t] = "alive" => Forgotten(t) \/ Shown(t)

(* The inductive invariant of the slot, the gate and the records: at every *)
(* step the record the gate reads shows each live training that has not    *)
(* been forgotten.                                                         *)
SlotInv ==
  /\ SlotTypeOK
  /\ PlacesFitKinds
  /\ RouteIsAlone
  /\ ReservationIsHeld
  /\ LiveFitsPlace
  /\ RecordsFitPlaces
  /\ LiveIsShown
  /\ AdmittedOnlyIfForgotten
=============================================================================
