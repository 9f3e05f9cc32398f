-------------------------- MODULE ReferenceDataset --------------------------
(***************************************************************************)
(* Who trains on a snapshot.  A training started from the page takes the   *)
(* registered snapshot; a tuning session takes the one its reference run   *)
(* was trained on, resolved by modules/reference_dataset/service.py from   *)
(* the local index and the run's args.yaml; a study takes the default      *)
(* binding of ui/app.py.  A training directory may be removed by hand and  *)
(* its name used again, while the index keeps the rows of the earlier run. *)
(***************************************************************************)
EXTENDS DatasetSnapshot

CONSTANTS Names,     \* training directory names
          Trainings, \* trainings of a behaviour
          Other      \* data that is no snapshot

VARIABLES args,  \* [Names -> the snapshot of args.yaml's data, Other, None: no directory]
          rows,  \* experiment rows: [training, name, data]
          runs   \* [Trainings -> [name, data, explicit] or None: not launched]

vars == <<snapVars, args, rows, runs>>
refVars == <<args, rows, runs>>

ControlledArgs(n) == args[n] \notin {None, Other} /\ Valid(args[n])

----------------------------------------------------------------------------
(* resolve_reference_dataset: the snapshot of reference run n, or None when *)
(* it is refused; up is whether the index can be read.                      *)

FromArgs(n) == IF ControlledArgs(n) THEN args[n] ELSE None

Associated(n) == {r.data : r \in {q \in rows : q.name = n}} \ {None}

(* Mutant of CrossChecked: the index alone decides. *)
CrossCheckForgotten(n, id) == TRUE

CrossChecked(n, id) == ControlledArgs(n) => args[n] = id

FromIndex(n) ==
  LET ids == Associated(n)  id == CHOOSE i \in ids : TRUE IN
  IF Cardinality(ids) > 1 THEN None
  ELSE IF ids = {} \/ id \notin tables THEN FromArgs(n)
  ELSE IF Valid(id) /\ CrossChecked(n, id) THEN id ELSE None

Resolved(n, up) ==
  IF args[n] = None THEN None ELSE IF up THEN FromIndex(n) ELSE FromArgs(n)

(* The fallback registers the snapshot it found in the index.              *)
Backfills(n, up) == up /\ Resolved(n, up) # None /\ Associated(n) = {}

----------------------------------------------------------------------------
(* Launches.  Each makes its directory, whose name must be free.           *)

Launch(t, n, data, explicit) ==
  /\ runs[t] = None /\ args[n] = None
  /\ runs' = [runs EXCEPT ![t] = [name |-> n, data |-> data, explicit |-> explicit]]
  /\ args' = [args EXCEPT ![n] = data]

(* POST /api/train: a registered snapshot is validated, else the data of   *)
(* the configuration is used.                                              *)
StartTraining(t, n) ==
  /\ latest # None /\ latest.snap # None => Valid(latest.snap)
  /\ Launch(t, n, IF latest # None /\ latest.snap # None THEN latest.snap ELSE Other, FALSE)
  /\ UNCHANGED <<snapVars, rows>>

(* A round of a tuning session on reference run ref.                       *)
StartTuning(t, n, ref) ==
  \E up \in {TRUE} \union {b \in BOOLEAN : ~b /\ faults < MaxFaults} :
    /\ Resolved(ref, up) # None
    /\ Launch(t, n, Resolved(ref, up), up)
    /\ tables' = IF Backfills(ref, up) THEN tables \union {Resolved(ref, up)} ELSE tables
    /\ faults' = IF up THEN faults ELSE faults + 1
    /\ UNCHANGED <<source, latest, final, locks, req, edits, rows>>

(* index_experiment: an explicit dataset must have a row; else the dataset *)
(* of the training's data.yaml is looked up, and may be unknown.           *)
IndexTraining(t) ==
  /\ runs[t] # None /\ \A q \in rows : q.training # t
  /\ runs[t].explicit => runs[t].data \in tables
  /\ rows' = rows \union {[training |-> t, name |-> runs[t].name,
                data |-> IF runs[t].data \in tables THEN runs[t].data ELSE None]}
  /\ UNCHANGED <<snapVars, args, runs>>

RemoveDir(n) ==
  /\ args[n] # None /\ args' = [args EXCEPT ![n] = None]
  /\ UNCHANGED <<snapVars, rows, runs>>

----------------------------------------------------------------------------
(* _default_snapshot_binding: the registered snapshot when it validates,   *)
(* else the newest readable one made from the registered directory.        *)
SameRoot(id) == final[id].root = latest.root

DefaultBinding ==
  IF latest = None THEN None
  ELSE IF latest.snap # None /\ Valid(latest.snap) THEN latest.snap
  ELSE LET own == {id \in DOMAIN final : SameRoot(id)} IN
       IF own = {} THEN None
       ELSE CHOOSE id \in own : \A other \in own : final[other].born <= final[id].born

----------------------------------------------------------------------------
Init == SnapInit /\ args = [n \in Names |-> None] /\ rows = {} /\ runs = [t \in Trainings |-> None]

Next ==
  \/ /\ (\E r \in Requests : Step(r)) \/ Outside
     /\ UNCHANGED refVars
  \/ \E t \in Trainings, n \in Names :
       StartTraining(t, n) \/ \E ref \in Names : StartTuning(t, n, ref)
  \/ \E t \in Trainings : IndexTraining(t)
  \/ \E n \in Names : RemoveDir(n)

Spec == Init /\ [][Next]_vars

----------------------------------------------------------------------------
(* A published snapshot holds exactly the samples its identity was computed *)
(* from, whatever the user did to the source while it was copied; only      *)
(* damage after publication can change it (_copy_verified, self-check).     *)
PublishedIsPlanned ==
  \A id \in DOMAIN final : \A f \in Files : final[id].files[f] \in {id.samples[f], None}

(* A snapshot is materialized by one request at a time: a request that      *)
(* copies holds the lock of its id, through crashes, timeouts and errors.   *)
OneMaker ==
  \A r \in Requests : req[r].pc \in {"locked", "copy", "copied", "published"} =>
    /\ req[r].id \in DOMAIN locks /\ locks[req[r].id] = r
    /\ req[r].pc \in {"copy", "copied"} => req[r].id \notin DOMAIN final

(* latest_dataset.json never names a snapshot that was not published, nor   *)
(* one with other samples than its source directory could have given.       *)
LatestIsPublished ==
  latest # None /\ latest.snap # None =>
    /\ latest.snap \in DOMAIN final
    /\ (latest.snap.layout = "presplit") = (latest.root \in Presplit)

(* The dataset of a reference run is the one its own args.yaml names, as    *)
(* long as that is an intact snapshot: rows an earlier run of the same name *)
(* left in the index are refused, never followed; and what is resolved is   *)
(* always an intact snapshot.                                               *)
ReferenceIsItsOwn ==
  \A n \in Names, up \in BOOLEAN : Resolved(n, up) # None =>
    /\ Valid(Resolved(n, up))
    /\ ControlledArgs(n) => Resolved(n, up) = args[n]

(* The default binding of a study is the registered snapshot or one of the  *)
(* registered directory, never merely the newest of the disk.               *)
DefaultIsOwn ==
  DefaultBinding # None =>
    DefaultBinding = latest.snap \/ (final[DefaultBinding].root = latest.root)

(* A split request in flight can always go on: no stale lock, failed copy   *)
(* or concurrent creator keeps it waiting for ever.                         *)
RequestsGoOn == \A r \in Requests : req[r] \notin {New, Answered} => ENABLED Step(r)

(* How far a request is: every file is read once into the plan and copied   *)
(* once, after it was hashed.                                               *)
Stage(pc) ==
  CASE pc = "new" -> 0 [] pc = "plan" -> 1 [] pc = "lock" -> 2 [] pc = "locked" -> 3
    [] pc \in {"copy", "copied"} -> 4 [] pc = "published" -> 5
    [] pc = "register" -> 6 [] pc = "index" -> 7 [] OTHER -> 8

Grows(before, after) == DOMAIN before \subseteq DOMAIN after /\ DOMAIN before # DOMAIN after

Ahead(q, p) ==
  \/ Stage(q.pc) < Stage(p.pc)
  \/ q.pc = "plan" /\ p.pc = "plan" /\ Grows(q.plan, p.plan)
  \/ q.pc = "copy" /\ p.pc = "copied" /\ p.temp = q.temp
  \/ q.pc = "copied" /\ p.pc = "copy" /\ Grows(q.temp, p.temp)

SameDataset(q, p) ==
  /\ q.pc # "new" => p.root = q.root
  /\ q.pc \notin {"new", "plan"} => p.id = q.id

(* A request repeats no step and turns to no other dataset: whatever it     *)
(* meets, it comes closer to its answer, and an answer is the last of it    *)
(* (create_dataset_snapshot, _copy_verified, split_dataset).                *)
RequestsAdvance ==
  [][\A r \in Requests : req'[r] # req[r] =>
       \/ req'[r] = Answered
       \/ Ahead(req[r], req'[r]) /\ SameDataset(req[r], req'[r])]_vars

(* Whichever way a training comes to its dataset, by the registered one, by *)
(* a reference run or by the default of a study, it is the one meant.       *)
DatasetIsMeant == LatestIsPublished /\ ReferenceIsItsOwn /\ DefaultIsOwn
=============================================================================
