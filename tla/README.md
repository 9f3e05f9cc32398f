# Verification of the auto-label / auto-train service

TLA+ models of the parts of this repository that keep state across threads, processes and crashes,
the TLC runs that check them on small instances, and TLAPS proofs of the most important results.
Paths below are relative to `src/auto_tune/`.

## 1. The system

A FastAPI service (`ui/app.py`, one process, one event loop, many threads) analyzes datasets and
trainings, starts YOLO trainings as child processes and keeps what happened in files. There are
three ways to train: a *manual* training, an *agent tuning* session in which an LLM proposes the
parameters of every round, and an *HPO* study in which a sampler proposes the parameters of every trial.

| Component | State it keeps | Operations | Talks to |
|---|---|---|---|
| HPO executor (`modules/hpo/execution.py`, `execution_adapter.py`) | `execution.json`: status, attempts with phase, process identity, return code, result | prepare, run, resume; inside: claim, launch, monitor, decide, replay, commit | study service, training process, `run_state.json`, history |
| HPO study service and storage (`modules/hpo/service.py`, `storage.py`, `execution_storage.py`) | `study.json`: configuration, trials; two file locks | create, ask, tell, best | executor, API |
| HPO controller and API (`ui/hpo_controller.py`, `ui/hpo_api.py`, `ui/hpo_reuse.py`) | controller thread, stop event, error, retained controllers | create, start, resume, stop, status, best, reuse | executor, slot |
| HPO formal training (`ui/hpo_training.py`) | `hpo_source.json` in a training directory | verify the source, start, list, detail, open folder | study, slot, history, index |
| Training slot (`modules/run_state/manager.py`, `gate.py`, `process_identity.py`) | reservation, active and retained controllers; reads all persisted records | reserve, release, register, gate, reconcile | every start, stop and status route |
| Agent tuning controller (`modules/run_state/tuning_controller.py`) | `tuning_running.json`, its copy in memory, `_done`, cancel event | start, on_state, on_progress, request_stop, end of thread | loop, event broker, slot |
| Agent tuning loop (`modules/agent_engine/loop.py`, `probe_monitor.py`, `executor.py`) | round, round state, results, the training process | rounds, probe, wait, evaluate, abort | controller callbacks, decision, finalizer, audit |
| Agent decision pipeline (`modules/agent_engine/decision_*.py`, `semantic_rules.py`, `guardrails.py`, `round_policy.py`) | `RoundState` and reference run, passed from round to round | facts, answer, checks, correction, clamping, verdict | loop, audit |
| Agent audit and summary (`modules/agent_engine/audit.py`, `final_summary.py`) | audit record of a session, in memory and in its file | write, summarize | loop |
| Manual training controller (`modules/run_state/manual_controller.py`) | `training_running.json`, process, stop flags | start, stop, read output, finalize | broker, slot, finalizer |
| Event broker (`modules/run_state/events.py`, `_run_sse` in `ui/app.py`) | ring buffer, sequence number, subscriber queues | publish, subscribe, replay | controllers, SSE clients |
| History, finalizer, local index (`modules/train_analyzer/training_finalizer.py`, `experiment_history.py`, `modules/local_index/`) | `experiment_history.json` (the facts), a SQLite projection, a rebuild lock | finalize, upsert, import, audit, rebuild, backfill | controllers, routes, manifests |
| Dataset snapshot (`modules/dataset_snapshot/service.py`) | content-addressed directories, lock files, `latest_dataset.json` | plan, lock, copy, self-check, publish, register | split route, index |
| Reference dataset (`modules/reference_dataset/service.py`) | none; reads `args.yaml`, index, snapshots | resolve | start routes |
| Model store and ONNX export (`modules/model_store/`) | weights, map of known ids, ids being exported, exports with their fact files | list, upload, resolve, export | routes, export process |
| Credentials (`modules/security/`, settings routes of `ui/app.py`) | credential file, cache, test results, `config.yaml` | save, delete, test, migrate, resolve, change settings | everything that calls a model |
| Dataset analyzer, input safety, presentation, evaluation, delivery | no state of their own | statistics, checks, formatting, offline scoring, installation | — |

What is hard here:

* **Crash recovery.** A training outlives the service. After a restart only files and a process
  identity (pid and creation token) tell what it is. Every write can be the last one before the crash.
* **Partial failure.** One fact lives in several files (`execution.json`, `study.json`, run state,
  history, index; an export and its fact; key store and `config.yaml`) that are replaced one by one.
* **Unsynchronised threads.** Workers, forwarders, stop routes, projections and resolvers read and
  write the same records without a common lock.
* **Stops, timeouts and retries** race with the natural end of a training wherever something waits.
* **Names that are used again.** `trainN` directories, weights and their stems may be removed and
  recreated, while history, index and caches remember the earlier ones.
* **One slot.** The reservation, the active controllers and the persisted records must agree about
  whether a training may start.

`PROJECT.json` lists each hazard at its line with the properties that cover it.

## 2. The modules

| Module | Models | Kind |
|---|---|---|
| `HpoExecution` | HPO executor with the study service, both stores and their locks | detailed specification |
| `TrialLedger` | what the executor promises of each trial of a study | abstract specification |
| `StudyCourse` | the course of a study: its status and the states of its trials | abstract specification, implemented twice |
| `HpoExecutionInv`, `HpoExecutionProofs` | the inductive invariant; invariance, safety, both refinements | TLAPS proofs |
| `StudyControl` | one study seen from the page: routes, controller threads, registry, a reader | detailed specification, above `HpoExecution` |
| `StudyControlInv` | its inductive invariant | definitions |
| `TrainingSlot` | reservation, registry, gate, start and reconciling routes, what each worker does to the slot | detailed specification, above the runs |
| `TrainingSlotInv`, `TrainingSlotProofs` | the inductive invariant; the slot is exact, the gate is sound | TLAPS proofs |
| `TuningLoop` | `run_tuning_loop`, the probe, its trainings, the stop event, the end of the controller thread | detailed specification |
| `TuningLoopInv` | its inductive invariant | definitions |
| `TuningRun` | extends `TuningLoop` by the run record, the output forwarders and the stop request | composition |
| `TuningRunProofs` | the safety of the loop; a session with its record is a session of `TuningLoop`; the record is honest | TLAPS proofs |
| `TuningDecision` | the inside of a round: facts, answer, checks, correction, guardrails, verdict, audit, summary | detailed specification, below `TuningLoop` |
| `TuningDecisionInv` | the inductive invariants of the audit and of the decisions | definitions |
| `StudyAndDecisionProofs` | `StudyControl` and `TuningDecision`: what is trained from a study, and why a round trains what it does | TLAPS proofs |
| `ManualRun` | the task of `ManualRunController`, its child and pipe, stop requests, cancellations | detailed specification |
| `EventStream` | the broker of a run, one reader's stream, the retention of finished controllers | detailed specification |
| `RunAndStreamProofs` | `ManualRun` and `EventStream`: the end of a run is clean; no gap unawares, order | TLAPS proofs |
| `ExperimentIndex` | the history, the index, import, audit, rebuild, backfill | component |
| `FormalRuns` | extends `ExperimentIndex` by the trainings that write to it and the projection that reads it | composition |
| `FormalRunsInv`, `FormalRunsProofs` | the inductive invariant; what is shown, what a rebuild publishes and keeps, what the audit reports | TLAPS proofs |
| `DatasetSnapshot` | the split request, its plan, lock, copy, publication and registration | component |
| `ReferenceDataset` | extends `DatasetSnapshot` by those who train on a snapshot | composition |
| `ReferenceDatasetProofs` | the inductive invariant of snapshots and trainings; what is published, by whom, and who gets it | TLAPS proofs |
| `ModelStore` | weights, listings, uploads, exports | detailed specification |
| `Credentials` | keys, settings, the cache and its threads | detailed specification |
| `StoreAndKeysProofs` | `ModelStore` and `Credentials`: offers, ends and files; the memory stays current, the keys stay | TLAPS proofs |
| `MC...` | instances for TLC | |

### HpoExecution

One variable per file (`status`, `attempts` for `execution.json`; `trials`, `asked` for `study.json`;
`runState`, `runDirs`, `history`), one for the processes, and a record `sess[r]` for what a caller of
run/resume holds in memory. Every atomic file replacement is one action, so a crash, a raised error or
an unverifiable process identity can fall between any two of them. A trial is a number; a candidate is
either acceptable or rejected by the guardrails (`Unsafe`); exit codes are zero or not; results are the
(state, reason) pairs the code writes, with `oom` folded into `training_failed`.

`LaunchesAreSafe`: a trial is trained at most once over every crash and resume, only after its intent is
durable, and never beside another. `FilesAgree`: no file claims an outcome of a live training, the
cross-file validation of the code holds after every single write, a study at rest has nothing open.
`SettledIsTrue`: the terminal facts agree in all files, a training that ran is in the history when its
trial is closed, and what a stop ended is never a success. `ResultsAreFinal`: a decided result never
changes. `StudyGetsOn`: sessions end, and a study resumed after every error completes unless it is in
one of two named states.

`TrialLedger` is the promise to a trial in four actions (claim, start, end, settle); `HpoExecution`
implements it under the mapping `Ledger` (`ImplementsLedger`). `StudyCourse` is the promise to the study: it is
bound once, a session opens it, claims a trial when none is open, settles the open one, and leaves it blocked
(about an open trial), paused or, with every trial claimed and settled, completed for ever.
`HpoExecution` implements it too, with an interrupted trial shown as a failed one, over every crash between the
writes of the two files (`ImplementsCourse`). `KeepsPromises` is both.

### StudyControl

One study with up to two controllers one after another. The handlers that change something are coroutines without an
await, so the event loop (`loop`) is at one of them at a time; a handler that reads several files is several
actions, between which the controller threads and a reader of the thread pool (`poll`) step. A session only opens
the study, claims and settles trials and leaves it blocked, paused or completed, or fails anywhere between; what it
does inside is `HpoExecution`. Both modules implement `StudyCourse`, so that neither takes a study where the rules
of the other forbid. `Busy` and `WindowCloses` are the retries of a busy store, `Drift` a change of the bound
snapshot or model file, `OtherTakesSlot` any other training.

`ControllerIsKnown`: an active controller is the one the registry finds and the slot is reserved for
(`WorkerIsKnown`), and the error of the last attempt is reported until a newer attempt, the end of its retention or
a restart (`FailureStaysReadable`). `ImplementsCourse`: the status and the trials the routes read take the course of
`StudyCourse`, whatever the routes, the retries and a restart do. `ApprovedIsFinal`: an answer that approves the
study for a formal training is true when given and stays true. `ReuseIsEarned`: a training started from a study
trains a trial that succeeded, a formal one only from a completed study, and the best one if no controller was
active as the request came in. `RetriesRecover`: a transient conflict is retried through `resume()` and never
reported as a recovery.

### TuningLoop and TuningRun

`TuningLoop` follows the worker thread with a program counter: the head of a round (stop check, round
budget), decision, launch, report of the identity, start of the forwarder, probe, wait, analysis, and
the four steps of the end of the controller thread. Every `return` and `continue` of the loop is an
action. A decision is only the signature of its changes; metrics are only "has a score" and "improves".
The stop event, the exits of every training ever launched, and the death of the service are actions of
their own. `Mode` is the request: dry run, `auto_analyze`, `auto_loop`, `keep_params`; `LoopInit` has
the rule of `start_tuning` that forces `auto_loop`.

`TrainingsAreEarned`: a round is analyzed only after its own training exited with zero, and an evaluated
change is not trained again. `EndIsEarned`: a scored round is not lost to later retries and failures, a
completed session has a reason, a cancelled session leaves no training alive but one a probe retried, a
noticed stop is recorded as cancelled with one exception. `StopStartsNothingNew`: no round after a stop
launches. `EndsWhenTold`: a stop ends the session even if no training ever ends, and without one it ends
when its trainings do.

`TuningRun` conjoins the record to these actions: `mem` is `controller._run_state`, `file` is
`tuning_running.json`. `self.run_state = f(self.run_state)` and `_persist` are a read and a later write;
they are two steps for the forwarders and for the stop request, each with the copy it holds. For the
worker they are one step: the only effect of splitting them too would be that the worker writes an old
copy over a newer one of another thread, but the other threads never write anything they did not read
from the worker's record. Only the status and the training the record names are kept. Each of its
actions contains an action of `TuningLoop` or leaves its variables alone, so every property of
`TuningLoop` holds of `TuningRun` too.

`RecordIsHonest`: a terminal record is the loop's result whichever thread writes last, the training it
names was launched, and when nothing else writes the terminal state is on disk at release.

### TuningDecision

A session of rounds over two parameters, with the values of the parameters kept: facts are a set (which
analysis found what), an answer a set of changes with the evidence it cites or a malformed one, rules the
table of `semantic_rules.py` for these parameters, guardrails the clamping to the bounds. `policy` is
`RoundState`, `mem` and `disk` the audit record, each write of which may fail: a write inside a round ends the
session through `Unaudited` or, where the loop's own handler catches it, through `Abort`; the writes that close a
stopped session (`FinishRaises`) through that handler too, which tries to close it as failed and may fail again
(`FailStopped`); after the last round no handler is left (`ExhaustedRaises`).

`ChangeIsSupported`: what a run was trained with differs from its reference only where a fact of that
reference asks for it, in the direction and within the limit of the rule, through correction and
clamping. `NothingTrainedTwice`: no training on parameters that were measured, or tried from the same
reference, unless the guardrails moved a change back. `AuditIsTrue`: the file is never behind what was
done, has no stop reason without its verdict, nor a failed round beside its stop reason unless the session returns
as failed, and tells the end of every session that returns as completed. `SummaryAgrees`: the final run is none
worse than any measured one, and the summary names it.

### TrainingSlot

The slot seen from above: a request is one call of a start route (manual, tuning, dry run, HPO) and,
once admitted, the run it starts, with at most one training; `pc` says where it is. The modules of the runs
have the details of one run; here only what the slot and the gate can see of it is kept:
the reservation, which controllers are active, per record file the run, whether it is open and whether it
has an identity, and of the study status and phase. `loop` is the event loop: a start route does not wait
between its gate and the start of its worker, so no other route and no manual controller steps in
between, while worker threads do. `Gate` is `_assert_training_slot_free` with its write-backs, each of
which may be the last that succeeds; `ReconcileRoute` is every status, stop and stream route that
persists a reconciled record; `Restart` empties the registry and keeps files and trainings. `LateWrite`
is the forwarder of a training its session left. A pid that cannot be read, a lost write, a thread that
cannot be started, an error in a route and an error of a study session count as faults. A route checks, chooses and
creates some things outside every handler (`RouteRaises`): it then leaves its reservation behind.

`forgotten` is a history variable: trainings whose session left them, and those whose record a route
reconciled while they lived.

`SlotFollowsRuns`: from its reservation until it is done a real run holds the reservation itself, and
when nothing runs the slot is taken only if a start was abandoned under it (`Abandoned`) and a record refuses a
request only if some record has no identity (`Unidentified`). `AdmittedOnlyIfForgotten`: a run
is admitted beside a live training only if the service has forgotten that training in one of four
named ways (each really occurs, dropping one breaks the property).

### ManualRun

The task gives way to others only where it awaits, so a step is what it does between two awaits: create
the child, adopt it, read, wait, end; `request_stop`, which awaits nothing, is one step of another
coroutine. `child` is *coming* while a thread is in `Popen`. `obeys` says whether this child dies of a
`terminate()`. `GiveUp`, `GraceOver`, `KillAgain`, `Reaped` are `_stop_child` and `_reap_child`. A write of
the record may be lost, the creation may fail, a signal may be refused. A line is read on a thread (`reader`),
which a cancelled task leaves behind; the end of the run closes the pipe and must wait for that thread
(`closing`), on the event loop. `TrainingSlot` has the start route
and what the run does to the slot; the stop route's wait and its answer change nothing and are left out.

`EndIsClean`: the slot is not given back while a child lives or is being created, the recorded outcome is
what happened, and a finished run leaves it on disk. `RunComesToAnEnd`: a stop ends the run wherever
it falls (for a child that obeys and a pipe that closes after it: `request_stop` never kills); a child its run gave up
dies even if it ignores `terminate()`, and the run ends, after a cancellation once everybody who holds the pipe
has closed it.

### EventStream

An event is its sequence number, so the ring buffer is the newest `MaxEvents` numbers and a queue a set.
The publisher may be a thread (tuning) and steps between any two steps of the generator `_run_sse`: the
subscription, the look at the truncation, every delivery, the empty queue, the look at the controller and
the last drain. `run` follows the controller from its end event to the end of its retention; `record` is
what the stream route falls back on then, or after a restart.

`NothingMissedUnawares`: every gap is one the reader is told of or was too slow for, and a stream the
server closes has delivered the end, with the same exceptions. `ReaderIsServed`: delivered once and in
order, and a reader that stays learns the end.

### ExperimentIndex and FormalRuns

`hist` is the history, newest first; `rows` the experiments table; `rebuild` and `batch` what a rebuild, an import or
a backfill has read and how far it is. A fact is known by its JSON id (`manual:train3`), a row by the id of the running
process or, when caught up later, by the JSON id: `KeyMap` and the upserts match the two. Import and backfill index one
record after another in transactions of their own, any of which may fail. A rebuild reads the manifests, the keys and the history,
indexes every record into a new table and publishes by replacing the database, with the lock a crash may leave stale.
`FormalRuns` adds trainings (formal or verification runs of a trial, and rounds of a tuning session on its own
thread), directories that may be removed and used again, the two writes of the finalizer, the projection that is read
in four reads on a thread (history, directory, controllers, index), the crash and the startup backfill. What is awaited
nowhere excludes the rest of the event loop (`LoopFree`).

`ProjectionIsTrue`: a run shown as completed is one that completed, and its row leads to its own detail.
`RebuildIsComplete`: what a rebuild publishes has a row for every training, no id twice and no record under the id of a
training in another directory. `RebuildKeeps`: a rebuild takes away only ids and dataset links its sources no longer
hold. `AuditIsQuiet`: what the index says of a training is what its history says, after a crash and its backfill too.

### DatasetSnapshot and ReferenceDataset

A sample is a file, its bytes and digest a content number; a snapshot id is the record of what the digest is
computed from (layout, split, contents, seed). The plan reads one file after another while the user edits;
lock, staging, verified copy, self-check, publication, registration and index entry are steps of a request. A
lock's token is its request; a crash leaves lock and staging, a failed write of the token leaves a lock that is
nobody's (`LockTorn`), and a stale lock is waited for and times out.
`ReferenceDataset` adds the trainings: from the page, from a tuning session on a reference run (resolved from
`args.yaml` and the index with the cross-check of the two), and the default binding of a study; directories
may be removed and their names used again.

`PublishedIsPlanned`: a published snapshot holds the samples its identity was computed from. `OneMaker`: one
request at a time makes it. `DatasetIsMeant`: `latest_dataset.json` names a published snapshot its source
could have given, a reference run's dataset is the one of its own `args.yaml`, and a
study's default binding belongs to the registered directory. `RequestsAdvance`: a request repeats no step and
turns to no other dataset; every step of it raises its place in the order of stages, plan positions and
copied files (`Ahead`), a finite order. `RequestsGoOn`: no stale lock, failed copy or concurrent maker leaves a
request without a next step. The two together are the liveness of a request.

### ModelStore

A content number is a weight's bytes and its `model_id`. A listing scans and then publishes `known`; an upload
receives, links and registers; an export resolves, runs, links the file and writes its fact, as separate steps on threads of
their own. The operator may put, replace or remove files, and the server may die.

`OfferedIsOfItsWeight`: what is offered for download is an export of the very bytes it is offered for.
`ExportsEndClean`: an ended export leaves no busy id, and no file without its fact but one that `left` names: its fact
could not be written and it could not be removed, or a crash came between the two. `NothingIsOverwritten`: the
service changes the bytes of no file that exists.

### Credentials

`file` is the credential file of Linux and of the container, `legacy` the key left in `config.yaml`. Routes run
one after another on the event loop, except that a migration is two writes; resolving threads read the file and fill the cache
later. `overtaken` is a history variable: purposes whose key changed while a thread held what it had
read, or by hand.

`MemoryIsCurrent`: the cache, the test results and the settings in memory speak of what is stored, but for an
overtaken key or a truncated `config.yaml`. `KeysAreKept`: a key leaves `config.yaml` only when the store holds
it, and no save replaces a file it does not understand or another service's key.

## 3. The runs

| Run | Instance | Shows |
|---|---|---|
| `hpo` | 3 trials (the last one rejected), 2 callers, 2 faults, 1 stop | safety, both refinements, sessions end, the study completes unless wedged |
| `slot` | 3 requests (symmetric) of any mix of kinds, 1 fault, 1 restart | the slot and the gate |
| `tuning` | up to 3 rounds, 2 changes, every mode, 1 error | safety of the loop, and that it ends |
| `tuning_record` | 2 rounds of a full loop, 1 change, 1 lost write or unreadable identity | the record under three kinds of writer |
| `stream` | 5 events, buffer 2, queue 2, 2 connections, 1 restart | order, gaps and end of a stream |
| `manual_run` | 2 stops, 2 cancellations, 2 faults, 1 error; a child that obeys or not | the manual training and its child |
| `formal_runs` | 2 formal trainings (symmetric), 1 tuning round, 2 directory names, a snapshot and a plain dataset, history of 2 caught up at startup, 1 fault | history, index, rebuild and projection agree |
| `datasets` | a flat and a presplit directory of 2 files, 2 split requests, 1 edit, 1 fault, 2 directory names, 2 trainings (symmetric) | snapshots, who trains on them, and that requests go on |
| `model_store` | 2 names that share a stem, 2 contents, 2 uploads and 2 exports (symmetric), 1 fault | exports and the weights they are of |
| `credentials` | 2 services, 2 keys, 2 resolving threads (symmetric), 3 saves, 2 faults | keys, cache and settings |
| `decisions` | 3 rounds, a learning rate and a number of epochs, 2 faults | decision, audit and summary |
| `study` | 2 trials with 2 possible scores, 2 controllers, 1 restart, 1 drift | routes, controllers and readers of one study, and its refinement |

Bounds. A fault is one crash, error, lost or torn write; which ones count is said in each module.

* `hpo`: two trials are the least in which one trial's recovery can disturb the next, and a third is the one
  that must not be begun; two callers the least that can collide on the runner lock; the second fault hits
  the recovery from the first.
* `slot`: three requests are the least in which one admission can hide a training from the record (a dry
  run, a later session) and another one be admitted beside it.
* `tuning`: three rounds let a round lie between the two that are compared; two changes let it train with
  another one. A stop comes once: a second request sets a set event.
* `tuning_record`: a second round is enough for a forwarder of an earlier training and a stale identity;
  restricted to the full loop, the one mode in which several trainings follow one another under one record.
* `stream`: five events overflow a buffer and a queue of two with the end of the run before, among and
  after the lost ones; the second connection is the one that resumes.
* `manual_run`: the second cancellation hits the cleanup from the first, the second stop meets the effects
  of the first.
* `formal_runs`: a second training is needed to take over the directory name of the first; the tuning round is the
  one writer that is not on the event loop.
* `datasets`: two requests collide on one lock, two directories and one edit make two identities of one source, two
  trainings use one name one after the other.
* `model_store`: two contents and two names are the least with a shared stem and with a duplicate content;
  two of each operation the least that can race.
* `credentials`: the second service is the one a save must not touch, the second reader the one that is
  late when the first was not.
* `decisions`: a third round may return to the parameters of the first; two parameters let one be clamped while the
  other moves; the second fault hits the handler of the first.
* `study`: two trials make a best one; two controllers are a failed attempt and its resumption.

All runs set `CHECK_DEADLOCK FALSE`: studies, sessions, streams and bounded inputs really end, and the
service may stay dead. Symmetry is used only in runs without a liveness property. `tuning_record` identifies
states by a view that leaves out the history variables and, of the rounds before the current one,
everything but the changes tried and whether a round is scored: no guard and neither of its parts reads
the rest.

Fairness. `HpoExecution!FairSpec`: a session that holds the lock goes on, a process exits or is killed,
an idle study is resumed. `TuningLoop!FairSpec`: the worker thread runs whenever it has something to do
without an error being raised and, in the probe, once there is a reason to stop waiting (the stop or an
exit): nothing forces a live training to produce an epoch. That trainings end is not fairness but a
premise of `SessionEnds` (`TrainingsEnd`): the probe cannot enforce it, and a stop does not need it.
`ManualRun!FairSpec`: the event loop resumes the task when what it awaits is there, `Popen` returns, and a
child dies of a signal it does not ignore. The thread that reads a line returns only at the end of the file
(nothing forces a child to print). That the pipe closes after the child is no fairness but a premise, of `StopEndsRun`
and of the end of a cancelled run: a grandchild may hold it. `EventStream!StreamFairSpec`: the event loop serves an open stream; nothing forces a run to end or
a reader to stay. `DatasetSnapshot` states no fairness: every step of a request brings it nearer to its
answer (`RequestsAdvance`) and, whatever the others did, one is enabled (`RequestsGoOn`), so a request ends if its
thread goes on.

## 4. Where code and text disagree, and what the properties except

Found while modelling. The modules behave as the code does; where a property would not hold because of one of
these, it names the exception.

Trainings:

* A fault between the creation of the run directory and the first commit of its attempt leaves a claimed
  trial no resume takes up (`execution_adapter.py:174`, while `execution.py:246` retries). `StudyGetsOn` names the state.
* A probe that ends with *retry* leaves its training alive while the next round launches (`loop.py:1248`,
  against `manager.py:13`: all share one slot). `CancelLeavesOnlyRetried` and `AdmittedOnlyIfForgotten` name it.
* A late write of an old copy replaces the terminal record on disk (`tuning_controller.py:123`, against
  its line 5). `RecordIsHonest` speaks of the file only when nothing else writes.
* After a restart the status route closes the record of a training that still lives, and the gate admits the
  next one (`app.py:2047`, against `gate.py:9`). `AdmittedOnlyIfForgotten` names it.
* A stop noticed by the probe of the last round ends as failed or completed (against `app.py:2450`).
* A manual child that exits just before `terminate()` is recorded as cancelled: `OutcomeIsTrue` counts the
  call (against the comment at `manual_controller.py:409`). A task cancelled while it creates its child
  leaves a record without identity, which blocks the gate (`EndIsRecorded` names the case).
* A start that fails outside every handler keeps the slot until a restart: the second choice of the run name
  (`app.py:3688`), the yolo executable (`app.py:3736`, `hpo_training.py:1109`) and the directory of a record
  (`run_state/service.py:86`), against `app.py:3527`, which says that no failure can leave a `starting` record
  behind. A tuning controller whose thread cannot be started stays registered (`app.py:2427`).
  `SlotFollowsRuns` names them (`Abandoned`).
* After a cancellation the end of a manual run closes its pipe on the event loop (`manual_controller.py:463`), which
  waits for the thread that still reads a line (line 52): the whole service stands until the holders of the
  pipe close it or write a line. `GivenUpRunEnds` has that as its premise.
* Between the launch of a later tuning round and the report of its identity the record names the training
  of an earlier one (`loop.py:1204`): `RecordIsHonest` says no more than that a named training was launched.

Studies:

* The verification of a source and the reuse of a trial read a study in several reads
  (`hpo_training.py:193`, `hpo_reuse.py:49`): `ReuseIsEarned` claims the best trial only if no controller
  was active as the request came in.
* A stop during the backoff of a busy store leaves the study RUNNING with nobody working and no error
  (`hpo_controller.py:146`); the page then says it cannot be resumed although the route accepts it.
* The window of the retries counts from the start of the thread, not from the first conflict
  (`hpo_controller.py:119`, against its lines 16–28).
* A create request that finds another study's session on the runner lock leaves a study without an execution
  (`hpo_api.py:844`). A retained failure is taken away by a later success. The status combines reads
  of different moments.

History and index:

* A formal run whose directory name was used before is matched by that name with the record of the earlier run and
  may show as completed because that one was (`Earned` names it). A rebuild after such a reuse puts
  the new run's fact under the old runtime id; a run whose own record could not be written
  may lead to the detail of the earlier one (`DetailIsOwn` names it).
* A rebuild that cannot read the current index takes it for an empty one (`reconciliation.py:186`): every runtime id
  becomes a JSON id, and the pages of the runs lose their detail. `IdentitySurvivesRebuild` names it (`blind`).
* A worker's round that ends between the reads of a rebuild and its replacement loses its row, until the next import.
* A stop that met an exit code of zero is `cancelled` in the record and `completed` in the history.

Datasets:

* A lock a crash left is waited for until the time limit, by every later request for the same snapshot; so is
  one whose token could not be written, which its own request does not remove (`dataset_snapshot/service.py:643`).
* A damaged `args.yaml` snapshot disables the cross-check, so that a stale association of the index is followed
  (`reference_dataset/service.py:132`, against its docstring).
* `analyze-folder` rewrites `latest_dataset.json` in place, and a split overwrites it with what it read before.

Model store:

* An export of a duplicated content is not offered after a listing chooses another of its files
  (`onnx_export.py:307`); a listing that scanned before an import forgets the new id until the next one.
* A file that is replaced between the link of an export and its fact is certified by that fact.
* An export without its fact may stay behind, against `onnx_export.py:485` (none may be left): the failure of the
  `unlink` is swallowed (line 488), an error of the fact that is no `OSError` is not caught (line 484), and a crash
  may come between the two. It blocks the export of its weight with a conflict until it is removed by hand;
  `NoHalfExport` names the cases (`left`).

Credentials:

* A thread that read a key before it was changed puts the old one in the cache after the change, until the
  time limit (`credentials.py:411`, against the comment at 468): `overtaken`.
* After a failed rewrite of `config.yaml` the migration cannot be repeated: the store now holds the key
  (`app.py:2246` calls it safe to retry, `app.py:2228` answers 409).
* `_update_config` truncates `config.yaml` in place (`app.py:671`): `torn`.
* A blank or placeholder environment value makes the page say writable while the routes answer 409. A changed
  endpoint or model keeps the last test result.

Decisions:

* A suggestion that is clamped to the current value trains the same configuration again; clamping may make a step
  smaller than the rule's minimum; reference values may lie outside the bounds.
* A failed or aborted round is not registered as tried; a combination without metrics may be trained again.
* After a failed audit write the end of the session is not in the file.
* When the audit or the history of a stopped session cannot be closed (`loop.py:579`), the handler of the loop
  writes its last round as failed (line 1521) beside the stop reason that came from it, and the session returns as
  failed with that stop reason. If a write of the handler fails as well, the file may call the session completed.
  After the last round the same failure raises out of `run_tuning_loop` (lines 1545 to 1563). `StopHasItsVerdict` names the first.
* `SummaryAgrees` assumes complete
  metrics: with others the summary ranks differently from the policy (`final_summary.py:53`, against the loop's
  claim of a single implementation).

## 5. What is proved

Every theorem holds for every value of the constants under the assumptions their modules name (bounds
are naturals, sets of actors arbitrary, distinguished values distinct). None of the properties is inductive
as it stands. Each module therefore proves an invariant that is (initially, preserved by every action, one
lemma or step per action), and the properties from it.

* `HpoExecutionProofs`: `Invariance` (`IInv`), `LaunchesStaySafe`, `FilesStayTrue`, `DecidedOnce`, and
  `Refinement`: `Spec => Ledger!Spec`. That a trial is not launched again rests on the phase its session believes
  in, on the lock that makes it the only session, and on the order of the trials: `LockHeld`,
  `ClaimedInOrder`, `PhaseBoundsProcess` and `PhaseBoundsFiles` (what a phase says about the process and the
  other files), `SessionsKnow` (what a session may rely on at its program counter), `RestIsSettled`.
  `SettledStaysTrue` needs a second invariant over the first, `SettledInv`: for every write of a terminal fact what
  the earlier ones already say (`RunStateFollows`, `HistoryFollows`, `TrainingOnRecord`, `TerminationOnRecord`,
  `TrialOnRecord`), and that the session that commits knows them (`CommitKnows`). `TakesTheCourse` is the second
  refinement (`Spec => ImplementsCourse`), step by step: one lemma says of every action what it does to the status and
  one what it does to a trial. It needs `SessionIsShown` beside the invariant: the status is RUNNING while a
  session writes, since the lock keeps every other writer out, and a launch that is blocked is that of an
  open trial. `PromisesAreKept` puts both refinements together.
* `TrainingSlotProofs`: `SlotInvariant` (`SlotInv`), `SlotIsExact`, `GateIsSound`. The admission is a property
  of one moment; it holds because at every moment a live training is forgotten or shown by the record the
  gate reads (`LiveIsShown`), which needs where the record of a run at work can be (`RecordsFitPlaces`), where
  a live training can be (`LiveFitsPlace`), that a request inside its route is alone (`RouteIsAlone`) and
  who holds the reservation (`ReservationIsHeld`: a run on its way or one whose route was left by an error).
* `TuningRunProofs`, the loop: `LoopInvariant` (`LoopInv`), `RoundsAreEarned`, `EndsAreEarned`, `NothingNewAfterStop`.
  That a change is not trained again rests on `TriedIsKnown` (what was evaluated is in `tried`) and
  `ChangesAreNew`; the end on `LeftAreRetried` (who may be alive), `SeenIsOnItsWay` (a stop the probe noticed
  is on its way to the head of the next round) and `StopFellHere` (a stop before a launch fell into this round).
* `TuningRunProofs`, the record: `RunIsALoop` (`Spec => LoopSpec`: the record disturbs nothing of the session, so the theorems above
  hold of it) and `RecordStaysHonest`. Three threads write the record: `CopiesAreHonest` says of the copies they hold
  what the property says of the record, `QuietIsQuiet` when no copy is left to be written.
* `RunAndStreamProofs`, the manual run: `RunInvariant` (`RunInv`), `TheEndIsClean`. `AwaitFitsChild` and `AwaitFitsRecord` say what
  the task may rely on at each await, `FileFollows` when the file is the record.
* `StoreAndKeysProofs`, the keys: `MemoryStaysCurrent` (`MemoryInv`) and `KeysStay`. The cache rests on
  `ReadersAreCurrent`: what a thread holds is in the file unless the purpose is overtaken.
* `RunAndStreamProofs`, the stream: `StreamInvariant` (`StreamInv`), `NothingIsMissedUnawares`, `EventsComeInOrder`. The
  subscription and the look at the truncation are two steps: `LostIsOld` says that what was lost at the first is
  still seen to be lost at the second, `EndIsAhead` that the end lies after what a reader asked for.
* `StoreAndKeysProofs`, the exports: `StoreInvariant` (`StoreInv`), `OffersAreTrue`, `ExportsAreClean`, `FilesAreKept`. A fact is
  computed from the file that lies there; that this is the exporter's own file is `LinkIsOwn`: of the exports between
  link and fact no two share a target nobody touched, and the file there is theirs. `left` keeps apart what a failure or
  a crash left there.
* `ReferenceDatasetProofs`: `SnapshotsStayPlanned`, `MakersStayAlone`, `DatasetStaysMeant`, from
  `SnapshotInv`: what a request has planned, holds and has staged at each step, the lock file that names its only
  maker, and the order in which snapshots are published; the newest one of a directory, which the default of a study
  takes, exists because a finite set of publication times has a last one.
  `RequestsStayOnTheirWay` is the action property: a file is copied once because the one at hand is not yet staged.
* `StudyAndDecisionProofs`, the study: `ControllerStaysKnownAndReported`, `ApprovalStaysTrue`,
  `ReuseStaysEarned`, `RetriesStayRecovering`, from `StudyInv`, and the refinement `PageSeesTheCourse`
  (`StudySpec => ImplementsCourse`). Controllers are born in order and only the last one
  holds the slot (`HoldsSlot`), so that its late publication cannot meet a newer one (`IsRegistered`, `IsRetained`);
  `LoopInv` and `PollInv` say of every value a request or a reader has read what it may still rely on: a completed
  study stays completed, and without a controller nothing claims or settles. That a ranking has a first trial
  (`Winner`) needs the finiteness of the budget.
* `StudyAndDecisionProofs`, the decisions: `AuditStaysTrue` from `AuditInv` alone (which fields are set where, in memory
  and in the file, also while a session that stopped is being closed); `ChangesStaySupported`, `NothingIsTrainedTwice`, `SummaryStaysRight` from `DecisionInv`. No two runs
  train with the same parameters because from every measured run to the reference run a parameter has only moved in the
  direction the policy remembers and may still be moved in (`OneWay`), and because what was tried from one reference run
  is in `tried` (`TriedKnown`); the summary because the policy's best is better than what was measured before it and
  no worse than what was measured after it (`BestKnown`). Two assumptions describe the tables of
  `semantic_rules.py` and `parameter_registry.py` and hold of them: a ratio or a fraction limits only decreases, a
  multiple or an addition only increases, bounds are not empty (`TablesAreTyped`); `None` is not a value (`NoneIsApart`).
* `FormalRunsProofs`: `FormalRunsInvariant` (`IInv`), `ProjectionStaysTrue`, `RebuildsStayComplete`, `RebuildsKeep`,
  `AuditStaysQuiet`. What the operators on the history and the table compute comes first: the place an upsert gives a
  record (`UpsertedMeans`, `UpsertRowMeans`) and the first row of a key (`KeyMapMeans`), which rests on every set of
  positions having a least one. The invariant has five parts, each over those before it. `RunsInv`: one run at a time
  is active, and what runs on the event loop is alone there. `HistoryInv`: a record says what its run did, no name
  twice, also in what an import or a rebuild has read. `IndexInv`: a row says what its run did and is about another
  training than its id only if that one has no record (`RowsTrue`), a training whose name is its own has the first row of its
  key (`RowsInOrder`), and during a rebuild the keys, the records and the table so far are still what they
  were when read, for trainings (`KeysKnown`, `FactsRead`, `TableFollows`). `ReaderInv`: what the projection holds was
  earned. `QuietInv`, while no write has failed: no row without a record, and a record without a row is that of the run
  between its two writes or, after a crash, the newest, which the backfill is about to reach (`RecordsHaveRows`).
  The assumptions are that names of directories and of rounds differ, that JSON ids are not runtime ids (`IdsApart`), and
  that `None` is no value (`NoneIsNothing`).

Three of these modules hold the proofs of two components that share no state, one half each. The specification of one of
the two components then has names of its own (`StudySpec`, `StreamSpec`, `KeysSpec`), beside the `Spec` of the other.

Only model-checked: the liveness properties `StudyGetsOn`, `EndsWhenTold` and `RunComesToAnEnd`, the part of
`ReaderIsServed` that is liveness (its order is `EventsComeInOrder`), and `RequestsGoOn`: fairness and ENABLED are out
of the prover's reach. Every other property of a run is stated by a theorem.

## 6. What is not modelled

* Dataset analyzer, input safety, presentation, decision evaluation, delivery: no state, or layout and
  environment I/O.
* Numeric work: the statistics and curves, the parsing of `results.csv`, the random sampler. The models
  choose its outcome; the ranking (`StudyControl`) and the round policy (`TuningDecision`) are modelled.
* Prompts, answers, messages and the text of reports; the LLM is a choice over well-formed and malformed answers.
* Artifacts rows and artifact paths of the index, another connection's write-ahead log during the
  replacement of the database, and audits that read it as immutable; the id of a dataset is taken from its
  directory name after a rebuild.
* The Windows credential manager, redaction, half precision in exports (disabled in the code), device checks.
* Records of older versions, foreign or unreadable records, field validators. The gate sees one study, one
  training per run, and no unreadable record.
* In `TuningDecision`: `keep_params`, the dry run and cancellation (they are in `TuningLoop`); conflicts between
  facts are looked for only among the cited ones, as in the code.

## 7. What is left

The artifacts of the index, and unreadable records at the gate.
