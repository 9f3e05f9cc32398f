---------------------------- MODULE FormalRunsInv ---------------------------
(* The inductive invariant of FormalRuns, in the order its parts rest on    *)
(* each other: the runs, the history, the index and its rebuild, the        *)
(* projection, and what holds as long as no write has failed.               *)
EXTENDS FormalRuns

Stages == {"new", "made", "running", "ended", "noted", "between", "over"}
JsonIds == {JsonId(n) : n \in Names}
Ids == Trainings \cup {Session} \cup JsonIds
Facts == [name : Names, run : Runs, status : Statuses, data : Data]
Table == [id : Ids, key : JsonIds, name : Names, run : Runs, status : Statuses, ds : Data \cup {None}]

-----------------------------------------------------------------------------
(* The runs.  One at a time is active, and what runs on the event loop is   *)
(* alone there.                                                             *)
Started(r) == stage[r] # "new"
HasEnded(r) == stage[r] \in {"ended", "noted", "between", "over"}
Recorded(r) == stage[r] \in {"noted", "between", "over"}

RunTyped(r) ==
  /\ stage[r] \in Stages
  /\ nameOf[r] = None <=> ~Started(r)
  /\ outcome[r] \in Statuses \cup {None} /\ (outcome[r] # None => HasEnded(r))
  /\ stage[r] = "made" => r \in Trainings
  /\ stage[r] = "between" => r \in Rounds
  /\ stage[r] \in {"ended", "noted"} => outcome[r] # None
  /\ Started(r) => nameOf[r] \in (IF r \in Rounds THEN {r} ELSE 1..MaxName)

RunsTyped ==
  /\ DOMAIN stage = Runs /\ DOMAIN nameOf = Runs /\ DOMAIN outcome = Runs /\ DOMAIN dirs = 1..MaxName
  /\ \A r \in Runs : RunTyped(r)

DirsAreOwn ==
  \A n \in 1..MaxName :
    \/ dirs[n] \in {None, Bare}
    \/ \E r \in Trainings : dirs[n] = Source(r) /\ nameOf[r] = n

Alone == \A q, r \in Runs : Active(q) /\ Active(r) => q = r

\* Only the event loop rebuilds and imports, and only the start backfills.
LoopIsAlone ==
  /\ rebuild.pc # "idle" => up /\ batch.pc = "idle"
  /\ batch.pc # "idle" => (up <=> batch.pc = "import")
  /\ rebuild.pc # "idle" \/ batch.pc # "idle" => \A r \in Trainings : stage[r] \notin {"made", "noted"}
  /\ ~up => \A r \in Runs : stage[r] \in {"new", "over"}

BatchTyped ==
  /\ DOMAIN batch = {"pc", "facts", "next", "keys"}
  /\ batch.pc \in {"idle", "import", "backfill"}

RebuildTyped ==
  /\ DOMAIN rebuild = {"pc", "whole", "keys", "blind", "known", "facts", "next", "table"}
  /\ rebuild.pc \in {"idle", "keys", "facts", "index"}

RunsInv ==
  up \in BOOLEAN /\ faults \in Nat /\ BatchTyped /\ RebuildTyped /\ RunsTyped /\ DirsAreOwn /\ Alone /\ LoopIsAlone

-----------------------------------------------------------------------------
(* The history, and the records an import, a backfill or a rebuild has read *)
(* from it.                                                                 *)
FactTrue(f) ==
  /\ f \in Facts /\ Recorded(f.run)
  /\ f.name = nameOf[f.run] /\ f.status = outcome[f.run] /\ f.data = DataOf[f.run]

HistoryTrue(h) ==
  /\ h \in Seq(Facts)
  /\ \A i \in DOMAIN h : FactTrue(h[i])
  /\ \A i, j \in DOMAIN h : h[i].name = h[j].name => i = j

\* Read while no training was between its two writes.
ReadTrue(h) ==
  /\ HistoryTrue(h)
  /\ \A i \in DOMAIN h : h[i].name \in HistoryNames
  /\ \A i \in DOMAIN h : h[i].run \in Trainings => stage[h[i].run] = "over"

HistoryInv ==
  /\ HistoryTrue(hist) /\ ReadTrue(batch.facts) /\ ReadTrue(rebuild.facts)
  /\ batch.next \in 1..Len(batch.facts) + 1
  /\ rebuild.next \in 1..Len(rebuild.facts) + 1
  /\ rebuild.pc # "index" => rebuild.next = 1

-----------------------------------------------------------------------------
(* The index.  A row says what its run did, and a row under the id of a     *)
(* training is about another run only if that training has no record.       *)
InHistory(r) == \E i \in DOMAIN hist : hist[i].run = r

RowTrue(row) ==
  /\ row \in Table /\ row.key = JsonId(row.name)
  /\ Recorded(row.run) /\ (row.run \in Trainings => stage[row.run] = "over")
  /\ row.name = nameOf[row.run] /\ row.status = outcome[row.run]
  /\ row.id \in JsonIds => row.id = row.key
  /\ row.id = Session => row.run \in Rounds
  /\ row.id \in Trainings =>
       /\ stage[row.id] = "over" /\ row.name = nameOf[row.id]
       /\ row.run = row.id \/ ~InHistory(row.id)

RowsTrue ==
  /\ rows \in Seq(Table)
  /\ \A i \in DOMAIN rows : RowTrue(rows[i])
  /\ \A i, j \in DOMAIN rows : rows[i].id = rows[j].id => i = j

\* A training whose name is its own has the first row of its key.
RowsInOrder ==
  \A i, j \in DOMAIN rows :
    rows[i].id \in Trainings /\ rows[j].key = rows[i].key /\ Others(rows[i].id) = {} => i <= j

\* The runtime ids a rebuild keeps.
KeyFits(k, id) ==
  /\ k \in JsonIds /\ id \in Ids
  /\ id \in JsonIds => id = k
  /\ id = Session => \E r \in Rounds : k = JsonId(r)
  /\ id \in Trainings => stage[id] = "over" /\ k = JsonId(nameOf[id])

KeysKnown ==
  /\ \A k \in DOMAIN rebuild.keys : KeyFits(k, rebuild.keys[k])
  /\ \A k, l \in DOMAIN rebuild.keys : rebuild.keys[k] = rebuild.keys[l] => k = l
  /\ rebuild.pc \in {"facts", "index"} /\ ~rebuild.blind =>
       \A r \in Trainings \cap IdsOf(rows) : Others(r) = {} =>
         /\ JsonId(nameOf[r]) \in DOMAIN rebuild.keys
         /\ rebuild.keys[JsonId(nameOf[r])] = r

\* What a rebuild has read is still so for trainings, and each record read has
\* its row.
RebuiltRow(i) ==
  Row(rebuild.facts[i], IdFor(FactKey(rebuild.facts[i]), rebuild.keys), rebuild.known)

FactsRead ==
  rebuild.pc = "index" =>
    /\ \A i \in DOMAIN hist : hist[i].run \in Trainings =>
         \E j \in DOMAIN rebuild.facts : rebuild.facts[j] = hist[i]
    /\ \A i \in DOMAIN rebuild.facts :
         rebuild.facts[i].data \notin rebuild.known => rebuild.facts[i].data \in Snapshots \ rebuild.whole

TableFollows ==
  /\ rebuild.table \in Seq(Table) /\ Len(rebuild.table) = rebuild.next - 1
  /\ \A i \in DOMAIN rebuild.table : rebuild.table[i] = RebuiltRow(i)

IndexInv == RowsTrue /\ RowsInOrder /\ KeysKnown /\ FactsRead /\ TableFollows

-----------------------------------------------------------------------------
(* The projection. *)
ReaderInv ==
  /\ reader.pc \in {"idle", "dir", "controllers", "index"}
  /\ reader.pc # "idle" => reader.name \in 1..MaxName
  /\ reader.record = "completed" => reader.pc \in {"dir", "controllers"} /\
       \E q \in Trainings : nameOf[q] = reader.name /\ outcome[q] = "completed"
  /\ reader.pc \in {"controllers", "index"} => reader.run \in Trainings /\ nameOf[reader.run] = reader.name
  /\ reader.status = "completed" => reader.pc = "index" /\ Earned(reader.run)

-----------------------------------------------------------------------------
(* As long as no write has failed the index has no row without a record,    *)
(* and a record of a training is without a row only until its run writes it *)
(* or, after a crash in between, until the backfill does.                   *)
HasKey(k) == \E j \in DOMAIN rows : rows[j].key = k

RowsRecorded == \A i \in DOMAIN rows : rows[i].name \in HistoryNames

NotedIsFirst == \A r \in Runs : stage[r] = "noted" => 1 \in DOMAIN hist /\ hist[1].run = r

\* The backfill sees the newest record, and knows only keys that have a row.
BackfillLooks ==
  /\ batch.pc = "import" => batch.keys = {}
  /\ batch.pc = "backfill" =>
       /\ 1 \in DOMAIN hist => 1 \in DOMAIN batch.facts /\ batch.facts[1] = hist[1]
       /\ \A k \in batch.keys : HasKey(k)

RecordsHaveRows ==
  \A i \in DOMAIN hist : hist[i].run \in Trainings =>
    \/ HasKey(FactKey(hist[i]))
    \/ stage[hist[i].run] = "noted"
    \/ ~up /\ i = 1 /\ ~(batch.pc = "backfill" /\ batch.next > 1)

QuietInv == faults = 0 => RowsRecorded /\ NotedIsFirst /\ BackfillLooks /\ RecordsHaveRows

IInv == RunsInv /\ HistoryInv /\ IndexInv /\ ReaderInv /\ QuietInv
=============================================================================
