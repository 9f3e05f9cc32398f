----------------------------- MODULE FormalRuns -----------------------------
(***************************************************************************)
(* The formal trainings of a study and what is shown of them.  A formal run *)
(* is an ordinary training in a Detect/trainN directory that carries, in    *)
(* hpo_source.json, the study it belongs to and the id of the process that  *)
(* trains.  A verification run of a trial is started the same way and is no *)
(* formal run.  When a training ends it is written to the history and then  *)
(* to the index (ExperimentIndex); a tuning session does the same, from its  *)
(* own thread, after each round that completed.                             *)
(* The projection of the formal runs is read on a thread of the server's    *)
(* pool, in four reads of four places - history, directory, controllers,    *)
(* index - while the event loop starts and finishes trainings.              *)
(***************************************************************************)
EXTENDS ExperimentIndex

CONSTANT ModeOf  \* how each ordinary training was asked for: "formal" or "verify"

VARIABLES
  stage,    \* how far each run is
  nameOf,   \* the directory name of each run
  outcome,  \* how its process ended: "completed" with exit code 0, else "failed"
            \* (which of failed and cancelled the controller says is left out)
  dirs,     \* the Detect directories: who owns each and what its source says
  reader,   \* the projection being read: how far it is and what it has seen
  up        \* the server process

runVars == <<stage, nameOf, outcome, dirs, reader, up, crashes>>
vars == <<indexVars, runVars>>

Trainings == Runs \ Rounds

ASSUME ModesAreTyped == ModeOf \in [Trainings -> {"formal", "verify"}]

ASSUME NoneIsNothing ==
  /\ None \notin Names /\ None \notin Runs
  /\ None \notin Statuses \cup {"formal", "verify"}
  /\ \A r \in Trainings : None # [run |-> r, mode |-> ModeOf[r]]
  /\ None # [run |-> None, mode |-> None]

\* What hpo_source.json of a directory declares: nothing yet, or the run and how
\* it was asked for.
Bare == [run |-> None, mode |-> None]
Source(r) == [run |-> r, mode |-> ModeOf[r]]

NoScan == [pc |-> "idle", name |-> None, record |-> None, run |-> None, status |-> None]

Active(r) == stage[r] \in {"made", "running", "ended", "noted"}
SlotFree == \A r \in Runs : ~Active(r)
SessionOpen == \E r \in Rounds : stage[r] = "between"

\* What runs on the event loop without an await excludes the rest of it: a
\* rebuild, the start of a training up to its controller, and the finalization.
(* Mutant of LoopFree: the rebuild runs on a thread. *)
RebuildOffLoop == up /\ batch.pc = "idle" /\ \A r \in Trainings : stage[r] \notin {"made", "noted"}

LoopFree ==
  up /\ rebuild.pc = "idle" /\ batch.pc = "idle" /\ \A r \in Trainings : stage[r] \notin {"made", "noted"}

Taken == {n \in 1..MaxName : dirs[n] # None}
NextName == IF Taken = {} THEN 1 ELSE Max(Taken) + 1

FactOfRun(r) == Fact(r, nameOf[r], outcome[r])

-----------------------------------------------------------------------------
(* Starting *)

\* submit_formal_training, and the verification start: behind the gate and with
\* the slot reserved the next free directory is made.
MakeDir(r) ==
  /\ LoopFree /\ SlotFree /\ ~SessionOpen
  /\ r \in Trainings /\ stage[r] = "new" /\ NextName <= MaxName
  /\ nameOf' = [nameOf EXCEPT ![r] = NextName]
  /\ dirs' = [dirs EXCEPT ![NextName] = Bare]
  /\ stage' = [stage EXCEPT ![r] = "made"]
  /\ UNCHANGED <<indexVars, outcome, reader, up, crashes>>

\* The parameters, the source and the run state are written and the controller
\* is registered.  The source names the process before the process exists.
Launch(r) ==
  /\ up /\ stage[r] = "made"
  /\ dirs' = [dirs EXCEPT ![nameOf[r]] = Source(r)]
  /\ stage' = [stage EXCEPT ![r] = "running"]
  /\ UNCHANGED <<indexVars, nameOf, outcome, reader, up, crashes>>

\* One of the three writes fails: the slot is released and the directory stays,
\* with its source if only the run state could not be written.
LaunchFails(r) ==
  /\ up /\ stage[r] = "made" /\ Failing
  /\ faults' = faults + 1
  /\ stage' = [stage EXCEPT ![r] = "over"]
  /\ dirs' \in {dirs, [dirs EXCEPT ![nameOf[r]] = Source(r)]}
  /\ UNCHANGED <<hist, rows, datasets, latest, manifests, imported, rebuild, batch, lock,
                 nameOf, outcome, reader, up, crashes>>

\* A round of the tuning session is trained in a directory of its own.
StartRound(r) ==
  /\ up /\ r \in Rounds /\ stage[r] = "new"
  /\ SlotFree /\ (SessionOpen \/ (LoopFree /\ \A q \in Rounds : stage[q] = "new"))
  /\ stage' = [q \in Runs |-> IF q = r THEN "running"
                              ELSE IF stage[q] = "between" THEN "over" ELSE stage[q]]
  /\ nameOf' = [nameOf EXCEPT ![r] = r]
  /\ UNCHANGED <<indexVars, outcome, dirs, reader, up, crashes>>

EndSession ==
  /\ up /\ SessionOpen
  /\ stage' = [q \in Runs |-> IF stage[q] = "between" THEN "over" ELSE stage[q]]
  /\ UNCHANGED <<indexVars, nameOf, outcome, dirs, reader, up, crashes>>

-----------------------------------------------------------------------------
(* Ending *)

\* The process has exited and the terminal run state is written; the controller
\* is active until the run is finalized.
EndRun(r) ==
  /\ up /\ stage[r] = "running" /\ (r \in Trainings => LoopFree)
  /\ \E o \in Statuses :
       /\ r \in Rounds => o = "completed"
       /\ outcome' = [outcome EXCEPT ![r] = o]
  /\ stage' = [stage EXCEPT ![r] = "ended"]
  /\ UNCHANGED <<indexVars, nameOf, dirs, reader, up, crashes>>

\* A training stopped before its process existed, and a round that failed or was
\* stopped, leave no record.
EndUnrecorded(r) ==
  /\ up /\ stage[r] = "running" /\ (r \in Trainings => LoopFree)
  /\ stage' = [stage EXCEPT ![r] = IF r \in Rounds THEN "between" ELSE "over"]
  /\ UNCHANGED <<indexVars, nameOf, outcome, dirs, reader, up, crashes>>

\* finalize_training_run: the analysis, whose failure changes no status, and the
\* history; then the index, whether or not the history was written.
FinalizeHistory(r) ==
  /\ up /\ stage[r] = "ended" /\ (r \in Trainings => LoopFree)
  /\ NoteHistory(FactOfRun(r))
  /\ stage' = [stage EXCEPT ![r] = "noted"]
  /\ UNCHANGED <<rows, datasets, latest, manifests, rebuild, batch, lock,
                 nameOf, outcome, dirs, reader, up, crashes>>

FinalizeIndex(r) ==
  /\ up /\ stage[r] = "noted"
  /\ NoteIndex(FactOfRun(r))
  /\ stage' = [stage EXCEPT ![r] = IF r \in Rounds THEN "between" ELSE "over"]
  /\ UNCHANGED <<hist, datasets, latest, manifests, imported, rebuild, batch, lock,
                 nameOf, outcome, dirs, reader, up, crashes>>

-----------------------------------------------------------------------------
(* The projection of the formal runs, _scan_formal_runs, for one directory *)

ScanHistory(n) ==
  /\ up /\ reader.pc = "idle"
  /\ reader' = [NoScan EXCEPT !.pc = "dir", !.name = n,
       !.record = IF n \in HistoryNames THEN HistoryIndex[n].status ELSE None]
  /\ UNCHANGED <<indexVars, stage, nameOf, outcome, dirs, up, crashes>>

\* _live_manual_status: an active controller of that directory name.
LiveOn(n) == {r \in Trainings : nameOf[r] = n /\ stage[r] \in {"running", "ended", "noted"}}

LiveStatus(r) == IF stage[r] = "running" THEN "running" ELSE outcome[r]

\* An active controller is believed first, then the history, and without either
\* the status is unknown.
StatusSeen(n, recorded) ==
  IF LiveOn(n) # {} THEN LiveStatus(CHOOSE r \in LiveOn(n) : TRUE)
  ELSE IF recorded # None THEN recorded ELSE "unknown"

\* A directory without a source, or with one that is not formal, gives no row.
ScanDir ==
  LET source == dirs[reader.name] IN
  /\ up /\ reader.pc = "dir"
  /\ reader' = IF source = None \/ source.mode # "formal" THEN NoScan
               ELSE [NoScan EXCEPT !.pc = "controllers", !.name = reader.name,
                                   !.record = reader.record, !.run = source.run]
  /\ UNCHANGED <<indexVars, stage, nameOf, outcome, dirs, up, crashes>>

\* The controllers are asked.
ScanControllers ==
  /\ up /\ reader.pc = "controllers"
  /\ reader' = [NoScan EXCEPT !.pc = "index", !.name = reader.name, !.run = reader.run,
                              !.status = StatusSeen(reader.name, reader.record)]
  /\ UNCHANGED <<indexVars, stage, nameOf, outcome, dirs, up, crashes>>

(* Mutant of DetailOf: a declared id that has no row falls back on the name. *)
DetailByName(run, n) ==
  IF run \in IdsOf(rows) THEN run
  ELSE IF \E i \in DOMAIN rows : rows[i].name = n
  THEN rows[CHOOSE i \in DOMAIN rows : rows[i].name = n].id ELSE None

\* resolve_formal_experiment_identity: the declared id and no other, and only if
\* its row is of this directory.
DetailOf(run, n) ==
  IF run \in IdsOf(rows) /\ RowOf(rows, run).name = n THEN run ELSE None

\* The row is looked up, and the answer is sent.
ScanIndex ==
  /\ up /\ reader.pc = "index"
  /\ reader' = NoScan
  /\ UNCHANGED <<indexVars, stage, nameOf, outcome, dirs, up, crashes>>

\* open_formal_run_folder: on the event loop, the directory and its source are
\* checked, then the same projection must say completed.
MayOpenFolder(n) ==
  /\ LoopFree /\ dirs[n] # None /\ dirs[n].mode = "formal"
  /\ StatusSeen(n, IF n \in HistoryNames THEN HistoryIndex[n].status ELSE None) = "completed"

-----------------------------------------------------------------------------
(* Maintenance requests, crash and restart *)

Maintain ==
  /\ \/ \E d \in Snapshots : BreakManifest(d) /\ UNCHANGED <<lock, rows, imported, batch>>
     \/ Expire /\ UNCHANGED <<manifests, rows, imported, batch, faults>>
     \/ LoopFree /\ ImportBegins /\ UNCHANGED <<manifests, lock, rows, imported, faults>>
     \/ ImportEnds /\ UNCHANGED <<manifests, lock, rows, faults>>
     \/ BatchIndexes /\ UNCHANGED <<manifests, lock, imported, faults>>
     \/ BatchFails /\ UNCHANGED <<manifests, lock, rows, imported>>
  /\ UNCHANGED <<hist, datasets, latest, rebuild, runVars>>

Rebuild ==
  /\ up
  /\ \/ LoopFree /\ RebuildBegins /\ UNCHANGED <<rows, datasets, imported, faults>>
     \/ RebuildReadsKeys /\ UNCHANGED <<rows, datasets, imported, lock>>
     \/ RebuildReadsFacts /\ UNCHANGED <<rows, datasets, imported, lock, faults>>
     \/ RebuildIndexes /\ UNCHANGED <<rows, datasets, imported, lock, faults>>
     \/ RebuildPublishes /\ UNCHANGED faults
     \/ RebuildFails /\ UNCHANGED <<rows, datasets, imported>>
  /\ UNCHANGED <<hist, latest, manifests, batch, runVars>>

\* A user removes the directory of a training that is over.
RemoveDir(n) ==
  /\ dirs[n] # None /\ ~\E r \in Runs : Active(r) /\ nameOf[r] = n
  /\ dirs' = [dirs EXCEPT ![n] = None]
  /\ UNCHANGED <<indexVars, stage, nameOf, outcome, reader, up, crashes>>

Crash ==
  /\ up \/ batch.pc # "idle"
  /\ up' = FALSE
  /\ crashes + faults < MaxFaults /\ crashes' = crashes + 1
  /\ stage' = [r \in Runs |-> IF stage[r] = "new" THEN "new" ELSE "over"]
  /\ rebuild' = Idle /\ batch' = NoBatch /\ reader' = NoScan
  /\ lock' = IF lock = "held" THEN "stale" ELSE lock
  /\ UNCHANGED <<hist, rows, datasets, latest, manifests, imported, faults, nameOf, outcome, dirs>>

\* _lifespan: the backfill runs before anything is served, and stops nothing when
\* it fails as a whole.
Restart ==
  /\ ~up
  /\ \/ BackfillBegins /\ UNCHANGED up
     \/ BackfillEnds /\ up' = TRUE /\ UNCHANGED faults
     \/ batch.pc = "idle" /\ Failing /\ up' = TRUE /\ faults' = faults + 1 /\ UNCHANGED batch
  /\ UNCHANGED <<hist, rows, datasets, latest, manifests, imported, rebuild, lock,
                 stage, nameOf, outcome, dirs, reader, crashes>>

Init ==
  /\ IndexInit
  /\ stage = [r \in Runs |-> "new"] /\ nameOf = [r \in Runs |-> None]
  /\ outcome = [r \in Runs |-> None] /\ dirs = [n \in 1..MaxName |-> None]
  /\ reader = NoScan /\ up = TRUE /\ crashes = 0

Next ==
  \/ \E r \in Runs : MakeDir(r) \/ Launch(r) \/ LaunchFails(r) \/ StartRound(r) \/ EndRun(r)
                     \/ EndUnrecorded(r) \/ FinalizeHistory(r) \/ FinalizeIndex(r)
  \/ EndSession
  \/ \E n \in 1..MaxName : ScanHistory(n) \/ RemoveDir(n)
  \/ ScanDir \/ ScanControllers \/ ScanIndex
  \/ Maintain \/ Rebuild \/ Crash \/ Restart

Spec == Init /\ [][Next]_vars

-----------------------------------------------------------------------------
(* What is promised *)

Others(r) == {q \in Trainings \ {r} : nameOf[q] # None /\ nameOf[q] = nameOf[r]}

\* A formal run is shown as completed, or its folder opened as completed, only
\* if its own process exited with 0.  The one exception is in the code: a
\* directory name that was used before still finds the record of the earlier run.
Earned(r) == \E q \in {r} \cup Others(r) : outcome[q] = "completed"

CompletedIsEarned ==
  /\ reader.status = "completed" => Earned(reader.run)
  /\ \A n \in 1..MaxName : MayOpenFolder(n) => Earned(dirs[n].run)

\* The detail a formal run's row leads to holds the facts of that very run,
\* whatever was imported, rebuilt or caught up meanwhile, as long as the
\* directory still declares it.  If its own record could not be written, that of
\* the run which had the directory before may be filed under its id.
DetailIsOwn ==
  LET r == reader.run
      id == DetailOf(r, reader.name)
  IN reader.pc = "index" /\ id # None /\ dirs[reader.name] = Source(r) =>
       \/ RowOf(rows, id).run = r
       \/ stage[r] = "over" /\ \A i \in DOMAIN hist : hist[i].run # r

\* A rebuild takes a training's runtime id out of the index only if its history
\* write had failed, its directory name was used again, or the index could not be
\* read, which the rebuild takes for an empty one: what a training writes when it
\* ends cannot fall between the reads of a rebuild.
IdentitySurvivesRebuild ==
  [][\A r \in Trainings \cap IdsOf(rows) :
       r \notin IdsOf(rows') =>
         RowOf(rows, r).key \notin FactKeys \/ Others(r) # {} \/ rebuild.blind]_vars

\* What a rebuild is about to publish has a row for the record of every training,
\* and no runtime id or JSON id twice: no record is dropped and none is filed
\* under the id of a training in another directory.
RebuildIsComplete ==
  Built =>
    LET table == rebuild.table IN
    /\ \A i, j \in DOMAIN table : i # j => table[i].key # table[j].key /\ table[i].id # table[j].id
    /\ \A f \in Range(hist) : f.run \in Trainings =>
         \E i \in DOMAIN table : table[i].run = f.run /\ table[i].status = f.status
    /\ \A i \in DOMAIN table :
         table[i].id \in Trainings => table[i].name = nameOf[table[i].id]

\* A rebuild clears the dataset of an experiment only if the dataset is a
\* snapshot whose manifest was not whole when the rebuild scanned them.
LinksSurviveRebuild ==
  [][Built /\ rows' = rebuild.table =>
       \A i \in DOMAIN rows' :
         rows'[i].ds = None => DataOf[rows'[i].run] \in Snapshots \ rebuild.whole]_vars

\* What the index says of a training is what its history record says, after a
\* crash and its backfill as well, unless a write failed or a directory name was
\* used twice.  What it may lack is a tuning round: the rounds of a session share
\* a row, and a round may end between the reads of a rebuild.
AuditIsQuiet ==
  (up /\ faults = 0 /\ (\A r \in Runs : stage[r] # "noted")
      /\ \A r \in Trainings : Others(r) = {}) =>
    /\ StatusMismatch = {} /\ ExtraInIndex = {}
    /\ \A k \in MissingInIndex : FactOf(k).run \in Rounds

\* What the page shows of a formal run and where its row leads: both are of this
\* run, whatever was imported, rebuilt or reused while the list was projected.
ProjectionIsTrue == CompletedIsEarned /\ DetailIsOwn

\* The publication of a rebuilt index takes away only what its sources no longer
\* hold: neither the ids of trainings nor their dataset links.
RebuildKeeps == IdentitySurvivesRebuild /\ LinksSurviveRebuild
=============================================================================
