--------------------------- MODULE ExperimentIndex ---------------------------
(***************************************************************************)
(* The two records of what has been trained: the JSON history              *)
(* (log/experiment_history.json), which is the fact, and the SQLite index, *)
(* a projection of it that can be rebuilt.  A fact is known by its JSON id  *)
(* ("manual:train3"), an index row by the id of the running process        *)
(* ("manual:<uuid>") when the run was indexed as it ended, and by the JSON  *)
(* id when it was caught up later.  This module holds the two records and   *)
(* what maintains them: the upserts, the legacy import, the startup         *)
(* backfill and the rebuild with its lock, its backup and its publication.  *)
(* FormalRuns adds the runs that write to them and the reader.              *)
(***************************************************************************)
EXTENDS Integers, FiniteSetsExt, SequencesExt

CONSTANTS
  Runs,          \* the trainings that are ever run
  Rounds,        \* those that are rounds of the tuning session
  Session,       \* the one runtime id the rounds of a session share
  MaxName,       \* trainN directory names are 1..MaxName
  Data,          \* the dataset files trainings name in params.data
  Snapshots,     \* those of them that lie under log/dataset_snapshots
  DataOf,        \* the dataset file of each run
  None,          \* no row, no dataset, nothing
  MaxBackfill,   \* records a startup backfill looks at
  MaxFaults      \* bound on write failures and crashes together

ASSUME IndexConstants ==
  /\ Rounds \subseteq Runs /\ Session \notin Runs
  /\ Snapshots \subseteq Data /\ None \notin Data
  /\ DataOf \in [Runs -> Data]
  /\ MaxName \in Nat \ {0} /\ MaxBackfill \in Nat \ {0} /\ MaxFaults \in Nat
  /\ Rounds \cap 1..MaxName = {}

VARIABLES
  hist,       \* the history file, newest record first
  rows,       \* the experiments table, in rowid order
  datasets,   \* the dataset files that have a row in the datasets table
  latest,     \* the file log/latest_dataset.json names
  manifests,  \* the snapshots whose manifest.json is whole
  imported,   \* whether the digest of the history file as it is was imported
  rebuild,    \* the rebuild in progress: how far it is and what it has read
  batch,      \* the import or backfill in progress: the records it has read
  lock,       \* the rebuild lock file: "absent", "held", or "stale" after a crash
  faults,     \* write failures injected so far
  crashes     \* crashes so far; they and the write failures share one bound

indexVars == <<hist, rows, datasets, latest, manifests, imported, rebuild, batch, lock, faults>>

Failing == crashes + faults < MaxFaults

Names == 1..MaxName \cup Rounds

\* The id the index files a run under while it is still known by its process.
RuntimeId(r) == IF r \in Rounds THEN Session ELSE r

\* make_run_id: the id the history files a record under.
JsonId(name) == <<"json", name>>

ASSUME IdsApart == \A n \in Names : JsonId(n) \notin Runs \cup {Session}

Statuses == {"completed", "failed"}

Fact(r, name, status) ==
  [name |-> name, run |-> r, status |-> status, data |-> DataOf[r]]

Idle == [pc |-> "idle", whole |-> {}, keys |-> <<>>, blind |-> FALSE,
         known |-> {}, facts |-> <<>>, next |-> 1, table |-> <<>>]

NoBatch == [pc |-> "idle", facts |-> <<>>, next |-> 1, keys |-> {}]

-----------------------------------------------------------------------------
(* The history file *)

(* Mutant of Upserted: the earlier record of the same id stays. *)
Prepended(h, f) == <<f>> \o h

\* ExperimentHistoryStore.upsert: the record of the same id is replaced, and
\* the record that finished last is first.
Upserted(h, f) ==
  LET same == {i \in DOMAIN h : h[i].name = f.name}
  IN <<f>> \o (IF same = {} THEN h ELSE RemoveAt(h, CHOOSE i \in same : TRUE))

\* _fact_key
FactKey(f) == JsonId(f.name)

HistoryNames == {hist[i].name : i \in DOMAIN hist}

\* _history_index of the projection: the last record the loop meets under a
\* name wins, which is the oldest.
HistoryIndex == [n \in HistoryNames |-> hist[Max({i \in DOMAIN hist : hist[i].name = n})]]

-----------------------------------------------------------------------------
(* The index *)

IdsOf(table) == {table[i].id : i \in DOMAIN table}
RowOf(table, id) == table[CHOOSE i \in DOMAIN table : table[i].id = id]

\* upsert_experiment: on a conflict the row keeps its place.
UpsertRow(table, row) ==
  IF row.id \in IdsOf(table)
  THEN [i \in DOMAIN table |-> IF table[i].id = row.id THEN row ELSE table[i]]
  ELSE Append(table, row)

\* index_experiment without an explicit dataset: the key is the runtime id if
\* there is one, the JSON id is kept beside it, and the dataset is the one
\* whose data.yaml the record's parameters name, or none.
Row(f, id, known) ==
  [id |-> id, key |-> FactKey(f), name |-> f.name, run |-> f.run, status |-> f.status,
   ds |-> IF f.data \in known THEN f.data ELSE None]

(* Mutant of KeyMap: the JSON id kept beside the runtime id is not read. *)
KeyMapById(table) == [k \in IdsOf(table) |-> k]

\* _build_key_map: the first row of the table that carries a fact's key.
KeyMap(table) ==
  [k \in {table[i].key : i \in DOMAIN table} |->
     table[Min({i \in DOMAIN table : table[i].key = k})].id]

-----------------------------------------------------------------------------
(* Audit: what the read-only comparison of the two records reports *)

FactOf(key) == hist[CHOOSE i \in DOMAIN hist : FactKey(hist[i]) = key]
FactKeys == {FactKey(hist[i]) : i \in DOMAIN hist}

MissingInIndex == FactKeys \ DOMAIN KeyMap(rows)
ExtraInIndex == DOMAIN KeyMap(rows) \ FactKeys
StatusMismatch ==
  {k \in FactKeys \ MissingInIndex : RowOf(rows, KeyMap(rows)[k]).status # FactOf(k).status}

-----------------------------------------------------------------------------
(* Datasets *)

\* A manifest is damaged or removed on the disk.
BreakManifest(d) ==
  /\ d \in manifests /\ Failing
  /\ faults' = faults + 1
  /\ manifests' = manifests \ {d}

-----------------------------------------------------------------------------
(* The writes of a run that has ended *)

NoteHistory(f) ==
  \/ hist' = Upserted(hist, f) /\ imported' = FALSE /\ UNCHANGED faults
  \/ Failing /\ faults' = faults + 1 /\ UNCHANGED <<hist, imported>>

\* A tuning round names its frozen dataset explicitly: without that dataset's
\* row the experiment is refused rather than filed under another dataset.
NoteIndex(f) ==
  \/ /\ f.run \in Rounds => f.data \in datasets
     /\ rows' = UpsertRow(rows, Row(f, RuntimeId(f.run), datasets))
     /\ UNCHANGED faults
  \/ f.run \in Rounds /\ f.data \notin datasets /\ UNCHANGED <<rows, faults>>
  \/ Failing /\ faults' = faults + 1 /\ UNCHANGED rows

-----------------------------------------------------------------------------
(* Maintenance *)

\* import_legacy_files: a file whose digest was imported before is skipped.
ImportBegins ==
  /\ batch.pc = "idle" /\ hist # <<>> /\ ~imported
  /\ batch' = [NoBatch EXCEPT !.pc = "import", !.facts = hist]

\* backfill_startup: of the newest records, those without a row are to get one.
\* Keys that cannot be read count as none.
BackfillBegins ==
  /\ batch.pc = "idle"
  /\ \E keys \in {DOMAIN KeyMap(rows), {}} :
       /\ faults' = IF keys = DOMAIN KeyMap(rows) THEN faults ELSE faults + 1
       /\ keys # DOMAIN KeyMap(rows) => Failing
       /\ batch' = [pc |-> "backfill", next |-> 1, keys |-> keys,
                    facts |-> SubSeq(hist, 1, Min({Len(hist), MaxBackfill}))]

\* Every record is a transaction of its own, under its JSON id.
BatchIndexes ==
  LET f == batch.facts[batch.next] IN
  /\ batch.pc # "idle" /\ batch.next <= Len(batch.facts)
  /\ rows' = IF FactKey(f) \in batch.keys THEN rows
             ELSE UpsertRow(rows, Row(f, FactKey(f), datasets))
  /\ batch' = [batch EXCEPT !.next = @ + 1]

\* A failure ends an import, and the backfill goes on with the next record.
BatchFails ==
  /\ batch.pc # "idle" /\ batch.next <= Len(batch.facts) /\ Failing
  /\ faults' = faults + 1
  /\ batch' = IF batch.pc = "import" THEN NoBatch ELSE [batch EXCEPT !.next = @ + 1]

\* The digest is that of the file as it was read.
ImportEnds ==
  /\ batch.pc = "import" /\ batch.next > Len(batch.facts)
  /\ imported' = (batch.facts = hist)
  /\ batch' = NoBatch

BackfillEnds ==
  /\ batch.pc = "backfill" /\ batch.next > Len(batch.facts)
  /\ batch' = NoBatch

\* _acquire_lock: an existing lock file refuses the request, one older than its
\* time to live is removed first.
Expire == lock = "stale" /\ lock' = "absent"

\* The lock is taken, the backup is written, the manifests are scanned.
RebuildBegins ==
  /\ rebuild.pc = "idle" /\ lock = "absent"
  /\ lock' = "held"
  /\ rebuild' = [Idle EXCEPT !.pc = "keys", !.whole = manifests]

\* The runtime ids that are to survive are read from the current database; one
\* that cannot be read has none.
RebuildReadsKeys ==
  /\ rebuild.pc = "keys"
  /\ \/ rebuild' = [rebuild EXCEPT !.pc = "facts", !.keys = KeyMap(rows)] /\ UNCHANGED faults
     \/ /\ Failing /\ faults' = faults + 1
        /\ rebuild' = [rebuild EXCEPT !.pc = "facts", !.blind = TRUE]

\* _project_facts: the latest dataset, the whole snapshots and the datasets the
\* records name are restored, a snapshot only on the word of its manifest.
RebuildReadsFacts ==
  LET restored == ({latest} \cap Data) \ Snapshots
      named == {hist[i].data : i \in DOMAIN hist} \ Snapshots
  IN /\ rebuild.pc = "facts"
     /\ rebuild' = [rebuild EXCEPT !.pc = "index", !.facts = hist,
                                   !.known = restored \cup rebuild.whole \cup named]

\* Then every record is indexed, under the runtime id it had.
IdFor(key, keys) == IF key \in DOMAIN keys THEN keys[key] ELSE key

RebuildIndexes ==
  LET f == rebuild.facts[rebuild.next]
      row == Row(f, IdFor(FactKey(f), rebuild.keys), rebuild.known)
  IN /\ rebuild.pc = "index" /\ rebuild.next <= Len(rebuild.facts)
     /\ rebuild' = [rebuild EXCEPT !.next = @ + 1, !.table = UpsertRow(rebuild.table, row)]

Built == rebuild.pc = "index" /\ rebuild.next > Len(rebuild.facts)

\* os.replace, after quick_check; the lock is released.
RebuildPublishes ==
  /\ Built
  /\ rows' = rebuild.table /\ datasets' = rebuild.known
  /\ imported' = FALSE
  /\ rebuild' = Idle /\ lock' = "absent"

\* Any failure before the publication keeps the database, removes the temporary
\* one and releases the lock.
RebuildFails ==
  /\ rebuild.pc # "idle" /\ Failing
  /\ faults' = faults + 1
  /\ rebuild' = Idle /\ lock' = "absent"

\* One dataset was uploaded: its snapshot is published whole, is
\* latest_dataset.json, and has a row unless writing that failed.
IndexInit ==
  /\ hist = <<>> /\ rows = <<>> /\ imported = FALSE
  /\ latest \in Snapshots /\ manifests = {latest}
  /\ datasets \in {{}, {latest}}
  /\ rebuild = Idle /\ batch = NoBatch /\ lock = "absent" /\ faults = 0

=============================================================================
