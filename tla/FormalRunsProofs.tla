-------------------------- MODULE FormalRunsProofs --------------------------
(***************************************************************************)
(* What is shown and kept of the trainings, for any runs, rounds, names,   *)
(* datasets, backfill length and faults.  The operators on the history and *)
(* the table first, then the parts of the invariant in the order of        *)
(* FormalRunsInv, the properties at the end of the part they rest on.      *)
(***************************************************************************)
EXTENDS FormalRunsInv, WellFoundedInduction, TLAPS

LEMMA LeastOfNats ==
  ASSUME NEW T \in SUBSET Nat, T # {}
  PROVE  Min(T) \in T /\ \A y \in T : Min(T) <= y
<1>1. PICK x \in T : \A y \in T : ~ (<<y, x>> \in OpToRel(<, Nat))
  BY WFMin, NatLessThanWellFounded
<1>2. \A y \in T : ~ (y < x)
  BY <1>1 DEF OpToRel
<1>3. \A y \in T : x <= y
  <2>1. \A y \in T : x \in Nat /\ y \in Nat /\ ~ (y < x)
    BY <1>2
  <2> QED BY <2>1
<1> QED BY <1>3 DEF Min

(* A record is put first, in place of the one of its name. *)
OneName(h) == \A i, j \in DOMAIN h : h[i].name = h[j].name => i = j

LEMMA RemovedMeans ==
  ASSUME NEW S, NEW h \in Seq(S), NEW k \in DOMAIN h
  PROVE  LET t == RemoveAt(h, k) IN
         /\ t \in Seq(S) /\ Len(t) = Len(h) - 1
         /\ \A i \in DOMAIN t : t[i] = IF i < k THEN h[i] ELSE h[i + 1]
<1>1. Len(h) \in Nat /\ k \in 1..Len(h) /\ DOMAIN h = 1..Len(h)
  OBVIOUS
<1> DEFINE p == SubSeq(h, 1, k - 1)
           q == SubSeq(h, k + 1, Len(h))
<1>2. p \in Seq(S) /\ Len(p) = k - 1 /\ \A i \in 1..k - 1 : p[i] = h[i]
  BY <1>1
<1>3. q \in Seq(S) /\ Len(q) = Len(h) - k /\ \A i \in 1..Len(h) - k : q[i] = h[k + i]
  BY <1>1
<1> HIDE DEF p, q
<1>4. p \o q \in Seq(S) /\ Len(p \o q) = Len(h) - 1 /\ DOMAIN (p \o q) = 1..Len(h) - 1
  <2>0. p \in Seq(S) /\ q \in Seq(S)
    BY <1>2, <1>3
  <2>1. p \o q \in Seq(S) /\ Len(p \o q) = Len(p) + Len(q)
    BY ONLY <2>0
  <2>2. Len(p) + Len(q) = Len(h) - 1
    BY <1>1, <1>2, <1>3
  <2> QED BY <2>1, <2>2
<1>5. ASSUME NEW i \in 1..Len(h) - 1
      PROVE  (p \o q)[i] = IF i < k THEN h[i] ELSE h[i + 1]
  <2>1. CASE i < k
    BY <2>1, <1>1, <1>2, <1>3
  <2>2. CASE ~(i < k)
    <3>1. (p \o q)[i] = q[i - (k - 1)]
      BY <2>2, <1>1, <1>2, <1>3
    <3>2. i - (k - 1) \in 1..Len(h) - k /\ k + (i - (k - 1)) = i + 1
      BY <2>2, <1>1
    <3> QED BY <2>2, <3>1, <3>2, <1>3
  <2> QED BY <2>1, <2>2
<1>6. RemoveAt(h, k) = p \o q
  BY DEF RemoveAt, p, q
<1> QED BY <1>4, <1>5, <1>6

LEMMA UpsertedMeans ==
  ASSUME NEW S, NEW h \in Seq(S), NEW f \in S, OneName(h), NEW u, u = Upserted(h, f)
  PROVE  /\ u \in Seq(S) /\ 1 \in DOMAIN u /\ u[1] = f /\ OneName(u)
         /\ \A i \in DOMAIN u : i # 1 => \E j \in DOMAIN h : u[i] = h[j] /\ h[j].name # f.name
         /\ \A j \in DOMAIN h : h[j].name # f.name => \E i \in DOMAIN u : i # 1 /\ u[i] = h[j]
<1> DEFINE same == {i \in DOMAIN h : h[i].name = f.name}
           t == IF same = {} THEN h ELSE RemoveAt(h, CHOOSE i \in same : TRUE)
<1>1. /\ t \in Seq(S) /\ OneName(t)
      /\ \A i \in DOMAIN t : \E j \in DOMAIN h : t[i] = h[j] /\ h[j].name # f.name
      /\ \A j \in DOMAIN h : h[j].name # f.name => \E i \in DOMAIN t : t[i] = h[j]
  <2>1. CASE same = {}
    BY <2>1
  <2>2. CASE same # {}
    <3> DEFINE k == CHOOSE i \in same : TRUE
    <3>1. k \in DOMAIN h /\ h[k].name = f.name /\ t = RemoveAt(h, k)
      BY <2>2
    <3> HIDE DEF k, t
    <3>2. /\ t \in Seq(S) /\ Len(t) = Len(h) - 1
          /\ \A i \in DOMAIN t : t[i] = IF i < k THEN h[i] ELSE h[i + 1]
      BY <3>1, RemovedMeans
    <3>3. Len(h) \in Nat /\ DOMAIN h = 1..Len(h) /\ DOMAIN t = 1..Len(h) - 1 /\ k \in 1..Len(h)
      BY <3>1, <3>2
    <3>4. \A i \in DOMAIN h : i # k => h[i].name # f.name
      BY <3>1 DEF OneName
    <3>5. \A i \in DOMAIN t : \E j \in DOMAIN h : j # k /\ t[i] = h[j] /\ j = IF i < k THEN i ELSE i + 1
      BY <3>2, <3>3
    <3>6. OneName(t)
      BY <3>3, <3>5 DEF OneName
    <3>7. ASSUME NEW j \in DOMAIN h, h[j].name # f.name
          PROVE  \E i \in DOMAIN t : t[i] = h[j]
      <4>1. j # k
        BY <3>1, <3>7
      <4>2. CASE j < k
        BY <4>2, <3>2, <3>3
      <4>3. CASE j > k
        <5>1. j - 1 \in DOMAIN t /\ t[j - 1] = h[j]
          BY <4>3, <3>2, <3>3
        <5> QED BY <5>1
      <4> QED BY <4>1, <4>2, <4>3, <3>3
    <3> QED BY <3>2, <3>4, <3>5, <3>6, <3>7
  <2> QED BY <2>1, <2>2
<1>2. Upserted(h, f) = <<f>> \o t
  BY DEF Upserted
<1> HIDE DEF t
<1>a. u = <<f>> \o t
  BY <1>2
<1>3. /\ u \in Seq(S) /\ Len(u) = Len(t) + 1 /\ u[1] = f /\ Len(t) \in Nat /\ DOMAIN t = 1..Len(t)
      /\ \A i \in DOMAIN u : i # 1 => i - 1 \in DOMAIN t /\ u[i] = t[i - 1]
      /\ \A i \in DOMAIN t : i + 1 \in DOMAIN u /\ u[i + 1] = t[i]
  BY <1>1, <1>a
<1>4. DOMAIN u = 1..Len(u) /\ 1 \in DOMAIN u
  BY <1>3
<1>5. \A i \in DOMAIN u : i # 1 => \E j \in DOMAIN h : u[i] = h[j] /\ h[j].name # f.name
  BY <1>1, <1>3
<1>6. \A j \in DOMAIN h : h[j].name # f.name => \E i \in DOMAIN u : i # 1 /\ u[i] = h[j]
  <2> TAKE j \in DOMAIN h
  <2> HAVE h[j].name # f.name
  <2>1. PICK i \in DOMAIN t : t[i] = h[j]
    BY <1>1
  <2>2. i + 1 \in DOMAIN u /\ u[i + 1] = h[j] /\ i + 1 # 1
    BY <2>1, <1>3
  <2> QED BY <2>2
<1>7. OneName(u)
  <2> SUFFICES ASSUME NEW i \in DOMAIN u, NEW j \in DOMAIN u, u[i].name = u[j].name
               PROVE  i = j
    BY DEF OneName
  <2>1. CASE i = 1 \/ j = 1
    BY <2>1, <1>3, <1>5
  <2>2. CASE i # 1 /\ j # 1
    <3>1. i - 1 \in DOMAIN t /\ j - 1 \in DOMAIN t /\ t[i - 1].name = t[j - 1].name
      BY <2>2, <1>3
    <3>2. i - 1 = j - 1
      BY <3>1, <1>1 DEF OneName
    <3>3. Len(u) \in Nat /\ i \in 1..Len(u) /\ j \in 1..Len(u)
      BY <1>3, <1>4
    <3> QED BY <3>2, <3>3
  <2> QED BY <2>1, <2>2
<1> QED BY <1>3, <1>4, <1>5, <1>6, <1>7

(* A row takes the place of the one of its id, or the last place.           *)
OneId(table) == \A i, j \in DOMAIN table : table[i].id = table[j].id => i = j

LEMMA UpsertRowMeans ==
  ASSUME NEW S, NEW table \in Seq(S), NEW row \in S, OneId(table)
  PROVE  LET u == UpsertRow(table, row) IN
         /\ u \in Seq(S) /\ OneId(u)
         /\ IdsOf(u) = IdsOf(table) \cup {row.id}
         /\ \E i \in DOMAIN u : u[i] = row
         /\ DOMAIN table \subseteq DOMAIN u
         /\ \A i \in DOMAIN table : u[i] = IF table[i].id = row.id THEN row ELSE table[i]
         /\ \A i \in DOMAIN u \ DOMAIN table :
              /\ u[i] = row /\ row.id \notin IdsOf(table)
              /\ \A j \in DOMAIN u : j <= i
         /\ row.id \notin IdsOf(table) => Len(u) = Len(table) + 1
<1> DEFINE u == UpsertRow(table, row)
<1>0. Len(table) \in Nat /\ DOMAIN table = 1..Len(table)
  OBVIOUS
<1>1. CASE row.id \in IdsOf(table)
  <2>1. u = [i \in DOMAIN table |-> IF table[i].id = row.id THEN row ELSE table[i]]
    BY <1>1 DEF UpsertRow
  <2>2. PICK k \in DOMAIN table : table[k].id = row.id
    BY <1>1 DEF IdsOf
  <2> HIDE DEF u
  <2>3. DOMAIN u = DOMAIN table /\ u \in Seq(S)
    BY <2>1, <1>0
  <2>4. u[k] = row /\ IdsOf(u) = IdsOf(table)
    BY <2>1, <2>2, <2>3 DEF IdsOf
  <2>5. OneId(u)
    BY <2>1, <2>3 DEF OneId
  <2>6. u = UpsertRow(table, row)
    BY DEF u
  <2> QED BY <1>1, <2>1, <2>2, <2>3, <2>4, <2>5, <2>6
<1>2. CASE row.id \notin IdsOf(table)
  <2>1. u = Append(table, row)
    BY <1>2 DEF UpsertRow
  <2>2. u = UpsertRow(table, row)
    OBVIOUS
  <2> HIDE DEF u
  <2>3. u \in Seq(S) /\ Len(u) = Len(table) + 1 /\ DOMAIN u = 1..Len(table) + 1
        /\ u[Len(table) + 1] = row /\ \A i \in DOMAIN table : u[i] = table[i]
    BY <2>1, <1>0
  <2>4. DOMAIN u \ DOMAIN table = {Len(table) + 1} /\ Len(table) + 1 \in DOMAIN u
        /\ DOMAIN table \subseteq DOMAIN u
    BY <2>3, <1>0
  <2>5. \A i \in DOMAIN table : table[i].id # row.id
    BY <1>2 DEF IdsOf
  <2>6. OneId(u) /\ IdsOf(u) = IdsOf(table) \cup {row.id}
    BY <2>3, <2>4, <2>5 DEF OneId, IdsOf
  <2>7. \A j \in DOMAIN u : j <= Len(table) + 1
    BY <2>3, <1>0
  <2> QED BY <1>2, <2>2, <2>3, <2>4, <2>5, <2>6, <2>7
<1> QED BY <1>1, <1>2

(* A key is known by the id of its first row.                               *)
LEMMA KeyMapMeans ==
  ASSUME NEW S, NEW table \in Seq(S)
  PROVE  /\ DOMAIN KeyMap(table) = {table[i].key : i \in DOMAIN table}
         /\ \A k \in DOMAIN KeyMap(table) :
              \E i \in DOMAIN table :
                /\ table[i].key = k /\ KeyMap(table)[k] = table[i].id
                /\ \A j \in DOMAIN table : table[j].key = k => i <= j
<1> DEFINE M == KeyMap(table)
<1>1. DOMAIN M = {table[i].key : i \in DOMAIN table}
  BY DEF KeyMap
<1>2. ASSUME NEW k \in DOMAIN M
      PROVE  \E i \in DOMAIN table :
               /\ table[i].key = k /\ M[k] = table[i].id
               /\ \A j \in DOMAIN table : table[j].key = k => i <= j
  <2> DEFINE T == {i \in DOMAIN table : table[i].key = k}
  <2>1. T \in SUBSET Nat /\ T # {}
    BY <1>1
  <2>2. M[k] = table[Min(T)].id
    BY <1>1 DEF KeyMap
  <2> HIDE DEF T, M
  <2>3. Min(T) \in T /\ \A y \in T : Min(T) <= y
    BY <2>1, LeastOfNats
  <2> QED BY <2>2, <2>3 DEF T
<1> QED BY <1>1, <1>2

LEMMA RowOfMeans ==
  ASSUME NEW table, OneId(table), NEW i \in DOMAIN table
  PROVE  RowOf(table, table[i].id) = table[i]
BY DEF RowOf, OneId

LEMMA RowOfIsRow ==
  ASSUME NEW table, OneId(table), NEW id \in IdsOf(table)
  PROVE  \E i \in DOMAIN table : table[i].id = id /\ RowOf(table, id) = table[i]
BY RowOfMeans DEF IdsOf

(* The history is read by name, and no two records share one.               *)
LEMMA HistoryIndexMeans ==
  ASSUME hist \in Seq(Facts), OneName(hist)
  PROVE  /\ DOMAIN HistoryIndex = HistoryNames
         /\ \A i \in DOMAIN hist : hist[i].name \in HistoryNames /\ HistoryIndex[hist[i].name] = hist[i]
<1>1. DOMAIN HistoryIndex = HistoryNames
  BY DEF HistoryIndex
<1>2. ASSUME NEW i \in DOMAIN hist
      PROVE  hist[i].name \in HistoryNames /\ HistoryIndex[hist[i].name] = hist[i]
  <2> DEFINE T == {j \in DOMAIN hist : hist[j].name = hist[i].name}
  <2>1. T = {i} /\ i \in Nat
    BY DEF OneName
  <2>2. hist[i].name \in HistoryNames
    BY DEF HistoryNames
  <2>3. HistoryIndex[hist[i].name] = hist[Max(T)]
    BY <2>2 DEF HistoryIndex
  <2> HIDE DEF T
  <2>4. Max(T) = i
    BY <2>1 DEF Max
  <2> QED BY <2>2, <2>3, <2>4
<1> QED BY <1>1, <1>2

LEMMA FactOfMeans ==
  ASSUME OneName(hist), NEW i \in DOMAIN hist
  PROVE  FactOf(JsonId(hist[i].name)) = hist[i]
BY DEF FactOf, FactKey, JsonId, OneName

-----------------------------------------------------------------------------
(* The runs *)

LEMMA GreatestOfNats ==
  ASSUME NEW N \in Nat, NEW T \in SUBSET (1..N), T # {}
  PROVE  Max(T) \in T
<1> DEFINE D == {N - n : n \in T}
<1>0. \A n \in T : n \in Nat /\ N - n \in Nat
  OBVIOUS
<1>1. D \in SUBSET Nat /\ D # {}
  BY <1>0
<1> HIDE DEF D
<1>2. Min(D) \in D /\ \A y \in D : Min(D) <= y
  BY <1>1, LeastOfNats
<1>3. PICK x \in T : Min(D) = N - x
  BY <1>2 DEF D
<1>4. \A y \in T : x >= y
  <2> TAKE y \in T
  <2>1. N - x <= N - y
    BY <1>2, <1>3 DEF D
  <2>2. x \in Nat /\ y \in Nat
    OBVIOUS
  <2> QED BY <2>1, <2>2
<1> QED BY <1>4 DEF Max

LEMMA NextNameIsName == NextName \in Nat /\ NextName >= 1
<1>1. Taken \in SUBSET (1..MaxName)
  BY DEF Taken
<1>2. CASE Taken = {}
  BY <1>2 DEF NextName
<1>3. CASE Taken # {}
  <2>1. Max(Taken) \in 1..MaxName
    BY <1>1, <1>3, GreatestOfNats, IndexConstants
  <2>2. NextName = Max(Taken) + 1
    BY <1>3 DEF NextName
  <2> HIDE DEF Taken
  <2> QED BY <2>1, <2>2
<1> QED BY <1>2, <1>3

(* What a step never takes back from a run.                                 *)
RunKept(r) ==
  /\ Started(r) => Started(r)' /\ nameOf'[r] = nameOf[r]
  /\ Recorded(r) => Recorded(r)'
  /\ outcome[r] # None \/ Recorded(r) => outcome'[r] = outcome[r]
  /\ stage[r] = "over" => stage'[r] = "over"

RunsKept == \A r \in Runs : RunKept(r)

RunsGoOn == RunsInv' /\ RunsKept

LEMMA RunsStart == Init => RunsInv
BY NoneIsNothing, IndexConstants DEF Init, IndexInit, RunsInv, RunsTyped, RunTyped, Started, HasEnded, DirsAreOwn,
   Alone, Active, LoopIsAlone, BatchTyped, RebuildTyped, Stages, Idle, NoBatch, Trainings, Bare

LEMMA MakeDirRuns ==
  ASSUME RunsInv, NEW r \in Runs, MakeDir(r)
  PROVE  RunsGoOn
BY NoneIsNothing, IndexConstants, NextNameIsName
   DEF RunsGoOn, RunsKept, RunKept, Started, HasEnded, Recorded, RunsInv, RunsTyped, RunTyped, DirsAreOwn, Alone, Active,
       LoopIsAlone, BatchTyped, RebuildTyped, LoopFree, SlotFree, MakeDir, Stages, Trainings, Names, indexVars

LEMMA LaunchRuns ==
  ASSUME RunsInv, NEW r \in Runs, Launch(r)
  PROVE  RunsGoOn
BY NoneIsNothing, IndexConstants
   DEF RunsGoOn, RunsKept, RunKept, Started, HasEnded, Recorded, RunsInv, RunsTyped, RunTyped, DirsAreOwn, Alone, Active,
       LoopIsAlone, BatchTyped, RebuildTyped, Launch, Stages, Trainings, Names, indexVars

LEMMA LaunchFailsRuns ==
  ASSUME RunsInv, NEW r \in Runs, LaunchFails(r)
  PROVE  RunsGoOn
BY NoneIsNothing, IndexConstants
   DEF RunsGoOn, RunsKept, RunKept, Started, HasEnded, Recorded, RunsInv, RunsTyped, RunTyped, DirsAreOwn, Alone, Active,
       LoopIsAlone, BatchTyped, RebuildTyped, LaunchFails, Stages, Trainings, Names

LEMMA StartRoundRuns ==
  ASSUME RunsInv, NEW r \in Runs, StartRound(r)
  PROVE  RunsGoOn
BY NoneIsNothing, IndexConstants
   DEF RunsGoOn, RunsKept, RunKept, Started, HasEnded, Recorded, RunsInv, RunsTyped, RunTyped, DirsAreOwn, Alone, Active,
       LoopIsAlone, BatchTyped, RebuildTyped, StartRound, SlotFree, SessionOpen, LoopFree, Stages, Trainings, Names, indexVars

LEMMA EndSessionRuns ==
  ASSUME RunsInv, EndSession
  PROVE  RunsGoOn
BY NoneIsNothing, IndexConstants
   DEF RunsGoOn, RunsKept, RunKept, Started, HasEnded, Recorded, RunsInv, RunsTyped, RunTyped, DirsAreOwn, Alone, Active,
       LoopIsAlone, BatchTyped, RebuildTyped, EndSession, SessionOpen, Stages, Trainings, Names, indexVars

LEMMA EndRunRuns ==
  ASSUME RunsInv, NEW r \in Runs, EndRun(r) \/ EndUnrecorded(r)
  PROVE  RunsGoOn
BY NoneIsNothing, IndexConstants
   DEF RunsGoOn, RunsKept, RunKept, Started, HasEnded, Recorded, RunsInv, RunsTyped, RunTyped, DirsAreOwn, Alone, Active,
       LoopIsAlone, BatchTyped, RebuildTyped, EndRun, EndUnrecorded, Stages, Trainings, Names, indexVars

LEMMA FinalizeHistoryRuns ==
  ASSUME RunsInv, NEW r \in Runs, FinalizeHistory(r)
  PROVE  RunsGoOn
BY NoneIsNothing, IndexConstants
   DEF RunsGoOn, RunsKept, RunKept, Started, HasEnded, Recorded, RunsInv, RunsTyped, RunTyped, DirsAreOwn, Alone, Active,
       LoopIsAlone, BatchTyped, RebuildTyped, LoopFree, FinalizeHistory, NoteHistory, Stages, Trainings, Names

LEMMA FinalizeIndexRuns ==
  ASSUME RunsInv, NEW r \in Runs, FinalizeIndex(r)
  PROVE  RunsGoOn
BY NoneIsNothing, IndexConstants
   DEF RunsGoOn, RunsKept, RunKept, Started, HasEnded, Recorded, RunsInv, RunsTyped, RunTyped, DirsAreOwn, Alone, Active,
       LoopIsAlone, BatchTyped, RebuildTyped, FinalizeIndex, NoteIndex, Stages, Trainings, Names

LEMMA CrashRuns ==
  ASSUME RunsInv, Crash
  PROVE  RunsGoOn
BY NoneIsNothing, IndexConstants
   DEF RunsGoOn, RunsKept, RunKept, Started, HasEnded, Recorded, RunsInv, RunsTyped, RunTyped, DirsAreOwn, Alone, Active,
       LoopIsAlone, BatchTyped, RebuildTyped, Crash, Stages, Trainings, Names, Idle, NoBatch

LEMMA RestartRuns ==
  ASSUME RunsInv, Restart
  PROVE  RunsGoOn
<1>1. /\ faults' \in Nat /\ up' \in BOOLEAN /\ BatchTyped'
      /\ (up' <=> batch'.pc = "idle") /\ batch'.pc # "import"
      /\ UNCHANGED <<rebuild, stage, nameOf, outcome, dirs>> /\ ~up
  <2>1. CASE BackfillBegins /\ UNCHANGED up
    BY <2>1 DEF Restart, RunsInv, BackfillBegins, BatchTyped, NoBatch
  <2>2. CASE BackfillEnds /\ up' = TRUE /\ UNCHANGED faults
    BY <2>2 DEF Restart, RunsInv, BackfillEnds, BatchTyped, NoBatch
  <2>3. CASE batch.pc = "idle" /\ Failing /\ up' = TRUE /\ faults' = faults + 1 /\ UNCHANGED batch
    BY <2>3 DEF Restart, RunsInv, BatchTyped, NoBatch
  <2> QED BY <2>1, <2>2, <2>3 DEF Restart
<1> QED BY <1>1
   DEF RunsGoOn, RunsKept, RunKept, Started, HasEnded, Recorded, RunsInv, RunsTyped, RunTyped, DirsAreOwn, Alone, Active,
       LoopIsAlone, RebuildTyped, Trainings

LEMMA MaintainRuns ==
  ASSUME RunsInv, Maintain
  PROVE  RunsGoOn
<1>1. UNCHANGED rebuild /\ UNCHANGED runVars
  BY DEF Maintain
<1>2. /\ faults' \in Nat /\ BatchTyped'
      /\ batch'.pc \in {batch.pc, "idle"} \/ (LoopFree /\ batch'.pc = "import")
  <2>1. CASE \E d \in Snapshots : BreakManifest(d) /\ UNCHANGED batch
    BY <2>1 DEF RunsInv, BreakManifest, BatchTyped
  <2>2. CASE UNCHANGED <<batch, faults>>
    BY <2>2 DEF RunsInv, BatchTyped
  <2>3. CASE LoopFree /\ ImportBegins /\ UNCHANGED faults
    BY <2>3 DEF RunsInv, ImportBegins, BatchTyped, NoBatch
  <2>4. CASE ImportEnds /\ UNCHANGED faults
    BY <2>4 DEF RunsInv, ImportEnds, BatchTyped, NoBatch
  <2>5. CASE BatchIndexes /\ UNCHANGED faults
    <3>1. batch' = [batch EXCEPT !.next = @ + 1]
      BY <2>5 DEF BatchIndexes
    <3>2. DOMAIN batch = {"pc", "facts", "next", "keys"} /\ batch.pc \in {"idle", "import", "backfill"} /\ faults \in Nat
      BY DEF RunsInv, BatchTyped
    <3> QED BY <2>5, <3>1, <3>2 DEF BatchTyped
  <2>6. CASE BatchFails
    BY <2>6 DEF RunsInv, BatchFails, BatchTyped, NoBatch
  <2> QED BY <2>1, <2>2, <2>3, <2>4, <2>5, <2>6 DEF Maintain
<1> QED BY <1>1, <1>2
   DEF RunsGoOn, RunsKept, RunKept, Started, HasEnded, Recorded, RunsInv, RunsTyped, RunTyped, DirsAreOwn, Alone, Active,
       LoopIsAlone, LoopFree, BatchTyped, RebuildTyped, runVars

LEMMA RebuildRuns ==
  ASSUME RunsInv, Rebuild
  PROVE  RunsGoOn
<1>1. UNCHANGED batch /\ UNCHANGED runVars /\ up
  BY DEF Rebuild
<1>2. /\ faults' \in Nat /\ RebuildTyped'
      /\ rebuild'.pc = "idle" \/ rebuild.pc # "idle" \/ LoopFree
  <2>1. CASE LoopFree /\ RebuildBegins /\ UNCHANGED faults
    BY <2>1 DEF RunsInv, RebuildBegins, RebuildTyped, Idle
  <2>2. CASE RebuildReadsKeys
    <3>1. \/ UNCHANGED faults /\ \E m : rebuild' = [rebuild EXCEPT !.pc = "facts", !.keys = m]
          \/ faults' = faults + 1 /\ rebuild' = [rebuild EXCEPT !.pc = "facts", !.blind = TRUE]
      BY <2>2 DEF RebuildReadsKeys
    <3>2. rebuild.pc = "keys"
      BY <2>2 DEF RebuildReadsKeys
    <3>3. DOMAIN rebuild' = DOMAIN rebuild /\ rebuild'.pc = "facts" /\ faults' \in {faults, faults + 1}
      BY <3>1 DEF RunsInv, RebuildTyped
    <3> QED BY <3>2, <3>3 DEF RunsInv, RebuildTyped
  <2>3. CASE RebuildReadsFacts /\ UNCHANGED faults
    BY <2>3 DEF RunsInv, RebuildReadsFacts, RebuildTyped
  <2>4. CASE RebuildIndexes /\ UNCHANGED faults
    <3>1. /\ rebuild.pc = "index"
          /\ \E t : rebuild' = [rebuild EXCEPT !.next = @ + 1, !.table = t]
      BY <2>4 DEF RebuildIndexes
    <3> QED BY <2>4, <3>1 DEF RunsInv, RebuildTyped
  <2>5. CASE RebuildPublishes /\ UNCHANGED faults
    BY <2>5 DEF RunsInv, RebuildPublishes, RebuildTyped, Idle
  <2>6. CASE RebuildFails
    BY <2>6 DEF RunsInv, RebuildFails, RebuildTyped, Idle
  <2> QED BY <2>1, <2>2, <2>3, <2>4, <2>5, <2>6 DEF Rebuild
<1> QED BY <1>1, <1>2
   DEF RunsGoOn, RunsKept, RunKept, Started, HasEnded, Recorded, RunsInv, RunsTyped, RunTyped, DirsAreOwn, Alone, Active,
       LoopIsAlone, LoopFree, BatchTyped, RebuildTyped, runVars

LEMMA RemoveDirRuns ==
  ASSUME RunsInv, NEW n \in 1..MaxName, RemoveDir(n)
  PROVE  RunsGoOn
BY NoneIsNothing, IndexConstants
   DEF RunsGoOn, RunsKept, RunKept, Started, HasEnded, Recorded, RunsInv, RunsTyped, RunTyped, DirsAreOwn, Alone, Active,
       LoopIsAlone, BatchTyped, RebuildTyped, RemoveDir, Stages, Trainings, Names, indexVars

(* Reading changes nothing but the reader.                                  *)
LEMMA ScanChangesNothing ==
  (\E n \in 1..MaxName : ScanHistory(n)) \/ ScanDir \/ ScanControllers \/ ScanIndex \/ UNCHANGED vars
    => UNCHANGED <<indexVars, stage, nameOf, outcome, dirs, up, crashes>>
BY DEF ScanHistory, ScanDir, ScanControllers, ScanIndex, vars, runVars

LEMMA ScanRuns ==
  ASSUME RunsInv, UNCHANGED <<indexVars, stage, nameOf, outcome, dirs, up, crashes>>
  PROVE  RunsGoOn
BY DEF RunsGoOn, RunsKept, RunKept, Started, HasEnded, Recorded, RunsInv, RunsTyped, RunTyped, DirsAreOwn, Alone, Active,
       LoopIsAlone, BatchTyped, RebuildTyped, indexVars

LEMMA RunsStep == RunsInv /\ [Next]_vars => RunsGoOn
<1> SUFFICES ASSUME RunsInv, [Next]_vars PROVE RunsGoOn
  OBVIOUS
<1>1. ASSUME NEW r \in Runs,
             MakeDir(r) \/ Launch(r) \/ LaunchFails(r) \/ StartRound(r) \/ EndRun(r)
               \/ EndUnrecorded(r) \/ FinalizeHistory(r) \/ FinalizeIndex(r)
      PROVE  RunsGoOn
  BY <1>1, MakeDirRuns, LaunchRuns, LaunchFailsRuns, StartRoundRuns, EndRunRuns, FinalizeHistoryRuns, FinalizeIndexRuns
<1> QED BY <1>1, EndSessionRuns, RemoveDirRuns, ScanChangesNothing, ScanRuns, MaintainRuns, RebuildRuns, CrashRuns, RestartRuns DEF Next

-----------------------------------------------------------------------------
(* The history *)

(* What a record says does not change any more.                             *)
LEMMA FactKept ==
  ASSUME RunsInv, RunsGoOn
  PROVE  \A f : FactTrue(f) => FactTrue(f)'
BY DEF FactTrue, RunsGoOn, RunsKept, RunKept, Recorded, Started, Facts

LEMMA HistoryKept ==
  ASSUME RunsInv, RunsGoOn
  PROVE  \A h : HistoryTrue(h) => HistoryTrue(h)'
BY FactKept DEF HistoryTrue

LEMMA ReadKept ==
  ASSUME RunsInv, RunsGoOn, HistoryNames \subseteq HistoryNames'
  PROVE  \A h : ReadTrue(h) => ReadTrue(h)'
<1> SUFFICES ASSUME NEW h, ReadTrue(h) PROVE ReadTrue(h)'
  OBVIOUS
<1>1. HistoryTrue(h)'
  BY HistoryKept DEF ReadTrue
<1>2. \A i \in DOMAIN h : h[i].run \in Trainings => stage'[h[i].run] = "over"
  BY DEF ReadTrue, RunsGoOn, RunsKept, RunKept, Trainings
<1> QED BY <1>1, <1>2 DEF ReadTrue

LEMMA EmptyIsRead == ReadTrue(<<>>)
BY DEF ReadTrue, HistoryTrue

LEMMA HistoryIsRead ==
  ASSUME RunsInv, HistoryTrue(hist), \A r \in Trainings : stage[r] \notin {"made", "noted"}
  PROVE  ReadTrue(hist)
BY DEF ReadTrue, HistoryTrue, FactTrue, HistoryNames, Recorded, RunsInv, RunsTyped, RunTyped, Facts, Trainings

LEMMA ReadPart ==
  ASSUME NEW h, ReadTrue(h), NEW n \in 0..Len(h)
  PROVE  ReadTrue(SubSeq(h, 1, n))
<1> DEFINE p == SubSeq(h, 1, n)
<1>1. h \in Seq(Facts) /\ Len(h) \in Nat /\ DOMAIN h = 1..Len(h)
  BY DEF ReadTrue, HistoryTrue
<1>2. p \in Seq(Facts) /\ DOMAIN p = 1..n /\ \A i \in 1..n : p[i] = h[i] /\ i \in DOMAIN h
  BY <1>1
<1> HIDE DEF p
<1> QED BY <1>2 DEF ReadTrue, HistoryTrue

LEMMA FinalizeKeepsHistory ==
  ASSUME RunsInv, HistoryTrue(hist), NEW r \in Runs, FinalizeHistory(r), RunsGoOn
  PROVE  HistoryTrue(hist)' /\ HistoryNames \subseteq HistoryNames'
<1>1. PICK f : f = FactOfRun(r)
  OBVIOUS
<1>2. PICK h : h = hist'
  OBVIOUS
<1>3. stage[r] = "ended" /\ stage'[r] = "noted" /\ outcome' = outcome /\ nameOf' = nameOf
  BY DEF FinalizeHistory, RunsInv, RunsTyped
<1>4. nameOf[r] \in Names /\ outcome[r] \in Statuses /\ DataOf[r] \in Data
  BY <1>3, IndexConstants DEF RunsInv, RunsTyped, RunTyped, Started, Names
<1>5. f \in Facts /\ f.run = r /\ f.name = nameOf[r] /\ f.status = outcome[r] /\ f.data = DataOf[r]
  BY <1>1, <1>4 DEF FactOfRun, Fact, Facts
<1>6. FactTrue(f)'
  BY <1>3, <1>5 DEF FactTrue, Recorded
<1>7. CASE hist' = hist
  BY <1>7, HistoryKept DEF HistoryNames, HistoryTrue
<1>8. CASE hist' = Upserted(hist, f)
  <2>1. hist \in Seq(Facts) /\ OneName(hist)
    BY DEF HistoryTrue, OneName
  <2>2. /\ h \in Seq(Facts) /\ 1 \in DOMAIN h /\ h[1] = f /\ OneName(h)
        /\ \A i \in DOMAIN h : i # 1 => \E j \in DOMAIN hist : h[i] = hist[j] /\ hist[j].name # f.name
        /\ \A j \in DOMAIN hist : hist[j].name # f.name => \E i \in DOMAIN h : i # 1 /\ h[i] = hist[j]
    <3>1. h = Upserted(hist, f)
      BY <1>2, <1>8
    <3>2. f \in Facts
      BY <1>5
    <3>3. h \in Seq(Facts) 
      BY <2>1, <3>1, <3>2, UpsertedMeans
    <3>4. 1 \in DOMAIN h
      BY <2>1, <3>1, <3>2, UpsertedMeans
    <3>8. h[1] = f 
      BY <2>1, <3>1, <3>2, UpsertedMeans
    <3>5. OneName(h)
      BY <2>1, <3>1, <3>2, UpsertedMeans
    <3>6. \A i \in DOMAIN h : i # 1 => \E j \in DOMAIN hist : h[i] = hist[j] /\ hist[j].name # f.name
      BY <2>1, <3>1, <3>2, UpsertedMeans
    <3>7. \A j \in DOMAIN hist : hist[j].name # f.name => \E i \in DOMAIN h : i # 1 /\ h[i] = hist[j]
      BY <2>1, <3>1, <3>2, UpsertedMeans
    <3> QED BY <3>3, <3>4, <3>8, <3>5, <3>6, <3>7
  <2>4. \A i \in DOMAIN h : FactTrue(h[i])'
    BY <1>6, <2>2, FactKept DEF HistoryTrue
  <2>5. HistoryTrue(h)'
    BY <2>2, <2>4 DEF HistoryTrue, OneName
  <2>6. HistoryTrue(hist)'
    BY <2>5, <1>2 DEF HistoryTrue
  <2>7. HistoryNames \subseteq HistoryNames'
    BY <1>2, <2>2 DEF HistoryNames
  <2> QED BY <2>6, <2>7
<1> QED BY <1>1, <1>7, <1>8 DEF FinalizeHistory, NoteHistory

LEMMA OnlyRunsWriteHistory ==
  [Next]_vars => UNCHANGED hist \/ \E r \in Runs : FinalizeHistory(r)
BY DEF Next, MakeDir, Launch, LaunchFails, StartRound, EndRun, EndUnrecorded, FinalizeIndex, EndSession, ScanHistory,
       RemoveDir, ScanDir, ScanControllers, ScanIndex, Maintain, Rebuild, Crash, Restart, vars, indexVars

LEMMA HistoryGrows ==
  ASSUME RunsInv, HistoryTrue(hist), [Next]_vars, RunsGoOn
  PROVE  HistoryTrue(hist)' /\ HistoryNames \subseteq HistoryNames'
<1>1. CASE UNCHANGED hist
  BY <1>1, HistoryKept DEF HistoryNames, HistoryTrue
<1> QED BY <1>1, OnlyRunsWriteHistory, FinalizeKeepsHistory

(* What an import or a backfill has read.                                   *)
LEMMA BatchActs ==
  [Next]_vars =>
    \/ UNCHANGED batch
    \/ LoopFree /\ ImportBegins /\ UNCHANGED <<hist, stage>>
    \/ ~up /\ BackfillBegins /\ UNCHANGED <<hist, stage>>
    \/ BatchIndexes \/ BatchFails \/ batch' = NoBatch
BY DEF Next, MakeDir, Launch, LaunchFails, StartRound, EndRun, EndUnrecorded, FinalizeHistory, FinalizeIndex, EndSession,
       ScanHistory, RemoveDir, ScanDir, ScanControllers, ScanIndex, Maintain, Rebuild, Crash, Restart, vars, indexVars, runVars,
       ImportEnds, BackfillEnds

LEMMA BatchRead ==
  ASSUME RunsInv, HistoryInv, [Next]_vars, RunsGoOn
  PROVE  ReadTrue(batch.facts)' /\ (batch.next \in 1..Len(batch.facts) + 1)'
<1>0. /\ HistoryNames \subseteq HistoryNames'
      /\ \A h : ReadTrue(h) => ReadTrue(h)'
  BY HistoryGrows, ReadKept DEF HistoryInv
<1>1. PICK h : h = batch'.facts
  OBVIOUS
<1>2. SUFFICES ReadTrue(h)' /\ (batch.next \in 1..Len(batch.facts) + 1)'
  BY <1>1
<1>3. DOMAIN batch = {"pc", "facts", "next", "keys"}
  BY DEF RunsInv, BatchTyped
<1>4. /\ ReadTrue(batch.facts) /\ batch.next \in 1..Len(batch.facts) + 1
      /\ Len(batch.facts) \in Nat /\ Len(hist) \in Nat
  BY DEF HistoryInv, ReadTrue, HistoryTrue
<1>5. CASE UNCHANGED batch
  BY <1>5, <1>4, <1>1, <1>0
<1>6. CASE batch' = NoBatch
  <2>1. h = <<>> /\ batch'.next = 1 /\ batch'.facts = <<>>
    BY <1>1, <1>6 DEF NoBatch
  <2> QED BY <2>1, EmptyIsRead, <1>0
<1>7. CASE LoopFree /\ ImportBegins
  <2>1. h = hist /\ batch'.facts = hist /\ batch'.next = 1
    BY <1>1, <1>7 DEF ImportBegins, NoBatch
  <2>2. ReadTrue(hist)
    BY <1>7, HistoryIsRead DEF LoopFree, HistoryInv
  <2> QED BY <2>1, <2>2, <1>0, <1>4
<1>8. CASE ~up /\ BackfillBegins
  <2>1. PICK n : n = Min({Len(hist), MaxBackfill})
    OBVIOUS
  <2>2. n \in 0..Len(hist)
    <3>1. {Len(hist), MaxBackfill} \in SUBSET Nat /\ {Len(hist), MaxBackfill} # {}
      BY <1>4, IndexConstants
    <3>2. n \in {Len(hist), MaxBackfill} /\ n <= Len(hist)
      BY <2>1, <3>1, LeastOfNats
    <3> QED BY <3>2, <3>1
  <2>3. PICK keys : batch' = [pc |-> "backfill", next |-> 1, keys |-> keys, facts |-> SubSeq(hist, 1, n)]
    BY <1>8, <2>1 DEF BackfillBegins
  <2>4. h = SubSeq(hist, 1, n) /\ batch'.facts = h /\ batch'.next = 1
    BY <2>3, <1>1
  <2>5. ReadTrue(hist)
    BY <1>8, HistoryIsRead DEF HistoryInv, RunsInv, LoopIsAlone, Trainings
  <2>6. ReadTrue(h)
    BY <2>2, <2>4, <2>5, ReadPart
  <2>7. Len(h) \in Nat
    BY <2>6 DEF ReadTrue, HistoryTrue
  <2>8. 1 \in 1..Len(h) + 1
    BY <2>7
  <2> QED BY <2>4, <2>6, <2>8, <1>0
<1>9. CASE batch' = [batch EXCEPT !.next = @ + 1] /\ batch.next <= Len(batch.facts)
  <2>1. h = batch.facts /\ batch'.facts = batch.facts /\ batch'.next = batch.next + 1
    BY <1>9, <1>1, <1>3
  <2> QED BY <2>1, <1>9, <1>4, <1>0
<1> QED BY <1>5, <1>6, <1>7, <1>8, <1>9, BatchActs DEF BatchIndexes, BatchFails

(* What a rebuild has read.                                                 *)
LEMMA RebuildActs ==
  [Next]_vars =>
    \/ UNCHANGED rebuild
    \/ LoopFree /\ RebuildBegins
    \/ RebuildReadsKeys /\ UNCHANGED <<rows, nameOf, stage>>
    \/ RebuildReadsFacts /\ UNCHANGED <<hist, rows>>
    \/ RebuildIndexes /\ UNCHANGED <<hist, rows>>
    \/ rebuild' = Idle
BY DEF Next, MakeDir, Launch, LaunchFails, StartRound, EndRun, EndUnrecorded, FinalizeHistory, FinalizeIndex, EndSession,
       ScanHistory, RemoveDir, ScanDir, ScanControllers, ScanIndex, Maintain, Rebuild, Crash, Restart, vars, indexVars, runVars,
       RebuildPublishes, RebuildFails

LEMMA RebuildRead ==
  ASSUME RunsInv, HistoryInv, [Next]_vars, RunsGoOn
  PROVE  /\ ReadTrue(rebuild.facts)' /\ (rebuild.next \in 1..Len(rebuild.facts) + 1)'
         /\ (rebuild.pc # "index" => rebuild.next = 1)'
<1>0. /\ HistoryNames \subseteq HistoryNames'
      /\ \A h : ReadTrue(h) => ReadTrue(h)'
  BY HistoryGrows, ReadKept DEF HistoryInv
<1>1. PICK h : h = rebuild'.facts
  OBVIOUS
<1>2. SUFFICES /\ ReadTrue(h)' /\ (rebuild.next \in 1..Len(rebuild.facts) + 1)'
               /\ (rebuild.pc # "index" => rebuild.next = 1)'
  BY <1>1
<1>3. DOMAIN rebuild = {"pc", "whole", "keys", "blind", "known", "facts", "next", "table"}
  BY DEF RunsInv, RebuildTyped
<1>4. /\ ReadTrue(rebuild.facts) /\ rebuild.next \in 1..Len(rebuild.facts) + 1
      /\ Len(rebuild.facts) \in Nat /\ Len(hist) \in Nat
      /\ rebuild.pc # "index" => rebuild.next = 1
  BY DEF HistoryInv, ReadTrue, HistoryTrue
<1>5. CASE UNCHANGED <<rebuild.facts, rebuild.next>> /\ (UNCHANGED rebuild.pc \/ rebuild.pc # "index")
  BY <1>5, <1>4, <1>1, <1>0
<1>6. CASE rebuild'.facts = <<>> /\ rebuild'.next = 1
  BY <1>1, <1>6, EmptyIsRead, <1>0
<1>7. CASE RebuildReadsFacts
  <2>1. h = hist /\ rebuild'.facts = hist /\ rebuild'.next = 1
    BY <1>1, <1>3, <1>4, <1>7 DEF RebuildReadsFacts
  <2>2. ReadTrue(hist)
    BY <1>7, HistoryIsRead DEF RebuildReadsFacts, HistoryInv, RunsInv, LoopIsAlone
  <2> QED BY <2>1, <2>2, <1>0, <1>4
<1>8. CASE RebuildIndexes
  <2>1. /\ rebuild.next <= Len(rebuild.facts) /\ rebuild.pc = "index"
        /\ \E t : rebuild' = [rebuild EXCEPT !.next = @ + 1, !.table = t]
    BY <1>8 DEF RebuildIndexes
  <2>2. /\ h = rebuild.facts /\ rebuild'.facts = rebuild.facts /\ rebuild'.next = rebuild.next + 1
        /\ rebuild'.pc = "index"
    BY <2>1, <1>1, <1>3
  <2>3. rebuild'.next \in 1..Len(rebuild'.facts) + 1
    BY <2>1, <2>2, <1>4
  <2> QED BY <2>1, <2>2, <2>3, <1>4, <1>0
<1>9. CASE rebuild' = Idle \/ RebuildBegins
  <2>1. Idle.facts = <<>> /\ Idle.next = 1 /\ DOMAIN Idle = {"pc", "whole", "keys", "blind", "known", "facts", "next", "table"}
    BY DEF Idle
  <2>2. rebuild' = Idle \/ rebuild' = [Idle EXCEPT !.pc = "keys", !.whole = manifests]
    BY <1>9 DEF RebuildBegins
  <2>3. rebuild'.facts = <<>> /\ rebuild'.next = 1
    BY <2>1, <2>2
  <2> QED BY <2>3, <1>6
<1>a. CASE RebuildReadsKeys
  <2>1. \/ \E m : rebuild' = [rebuild EXCEPT !.pc = "facts", !.keys = m]
        \/ rebuild' = [rebuild EXCEPT !.pc = "facts", !.blind = TRUE]
    BY <1>a DEF RebuildReadsKeys
  <2>2. rebuild.pc = "keys"
    BY <1>a DEF RebuildReadsKeys
  <2>3. UNCHANGED <<rebuild.facts, rebuild.next>>
    BY <2>1, <1>3
  <2> QED BY <2>2, <2>3, <1>5
<1> QED BY <1>5, <1>6, <1>7, <1>8, <1>9, <1>a, RebuildActs

LEMMA HistoryStart == Init => HistoryInv
BY EmptyIsRead DEF Init, IndexInit, HistoryInv, HistoryTrue, NoBatch, Idle

LEMMA HistoryStep == RunsInv /\ HistoryInv /\ [Next]_vars /\ RunsGoOn => HistoryInv'
BY HistoryGrows, BatchRead, RebuildRead DEF HistoryInv

-----------------------------------------------------------------------------
(* The index *)

LEMMA JsonIdIsOwn == \A m, n : JsonId(m) = JsonId(n) => m = n
BY DEF JsonId

LEMMA JsonIdsApart == \A id \in JsonIds : id \notin Trainings /\ id # Session
BY IdsApart DEF JsonIds, Trainings

LEMMA RoundOfName ==
  ASSUME RunsInv, NEW r \in Runs, Started(r)
  PROVE  nameOf[r] \in Names /\ (nameOf[r] \in Rounds => r = nameOf[r]) /\ (r \in Rounds => nameOf[r] = r)
         /\ (r \in Trainings => nameOf[r] \notin Rounds)
BY IndexConstants DEF RunsInv, RunsTyped, RunTyped, Trainings, Names

LEMMA NamesakesSame ==
  ASSUME RunsInv, NEW q \in Runs, NEW r \in Trainings, Started(q), Started(r),
         nameOf[q] = nameOf[r], Others(r) = {}
  PROVE  q = r
<1>1. r \in Runs /\ nameOf[r] \notin Rounds /\ nameOf[q] # None
  BY RoundOfName, NoneIsNothing DEF Trainings
<1>2. q \in Trainings
  BY <1>1, RoundOfName DEF Trainings
<1> QED BY <1>1, <1>2 DEF Others

LEMMA OthersStay ==
  ASSUME RunsInv, RunsGoOn
  PROVE  \A r \in Trainings : Started(r) /\ Others(r)' = {} => Others(r) = {}
<1> SUFFICES ASSUME NEW r \in Trainings, Started(r), NEW q \in Others(r) PROVE q \in Others(r)'
  OBVIOUS
<1>1. q \in Trainings /\ q # r /\ nameOf[q] # None /\ nameOf[q] = nameOf[r] /\ q \in Runs /\ r \in Runs
  BY DEF Others, Trainings
<1>2. Started(q)
  BY <1>1 DEF RunsInv, RunsTyped, RunTyped
<1>3. nameOf'[q] = nameOf[q] /\ nameOf'[r] = nameOf[r]
  BY <1>1, <1>2 DEF RunsGoOn, RunsKept, RunKept
<1> QED BY <1>1, <1>3 DEF Others

(* A record is written by the run it is about, when the run has ended.      *)
LEMMA RecordIsNew ==
  ASSUME RunsInv, HistoryInv, [Next]_vars, NEW i \in DOMAIN hist'
  PROVE  \/ \E j \in DOMAIN hist : hist'[i] = hist[j]
         \/ \E r \in Runs : /\ stage[r] = "ended" /\ (r \in Trainings => LoopFree)
                            /\ hist'[i] = FactOfRun(r)
<1>1. CASE UNCHANGED hist
  BY <1>1
<1>2. ASSUME NEW r \in Runs, FinalizeHistory(r), hist' # hist
      PROVE  \/ \E j \in DOMAIN hist : hist'[i] = hist[j]
             \/ hist'[i] = FactOfRun(r)
  <2>1. PICK f : f = FactOfRun(r)
    OBVIOUS
  <2>2. PICK h : h = hist'
    OBVIOUS
  <2>3. h = Upserted(hist, f)
    BY <1>2, <2>1, <2>2 DEF FinalizeHistory, NoteHistory
  <2>4. hist \in Seq(Facts) /\ OneName(hist)
    BY DEF HistoryInv, HistoryTrue, OneName
  <2>5. f \in Facts
    <3>1. nameOf[r] \in Names /\ outcome[r] \in Statuses /\ DataOf[r] \in Data
      BY <1>2, IndexConstants DEF FinalizeHistory, RunsInv, RunsTyped, RunTyped, Started, Names
    <3> QED BY <2>1, <3>1 DEF FactOfRun, Fact, Facts
  <2>6. h[1] = f
    BY <2>3, <2>4, <2>5, UpsertedMeans
  <2>7. \A k \in DOMAIN h : k # 1 => \E j \in DOMAIN hist : h[k] = hist[j] /\ hist[j].name # f.name
    BY <2>3, <2>4, <2>5, UpsertedMeans
  <2> QED BY <2>1, <2>2, <2>6, <2>7
<1> QED BY <1>1, <1>2, OnlyRunsWriteHistory DEF FinalizeHistory

LEMMA HistoryOfOver ==
  ASSUME RunsInv, HistoryInv, [Next]_vars
  PROVE  \A r \in Runs : stage[r] = "over" /\ InHistory(r)' => InHistory(r)
<1> SUFFICES ASSUME NEW r \in Runs, stage[r] = "over", NEW i \in DOMAIN hist', hist'[i].run = r
             PROVE  InHistory(r)
  BY DEF InHistory
<1> QED BY RecordIsNew DEF InHistory, FactOfRun, Fact

LEMMA RowKept ==
  ASSUME RunsInv, HistoryInv, [Next]_vars, RunsGoOn
  PROVE  \A row : RowTrue(row) => RowTrue(row)'
<1> SUFFICES ASSUME NEW row, RowTrue(row) PROVE RowTrue(row)'
  OBVIOUS
<1>1. row \in Table /\ row.key = JsonId(row.name) /\ row.run \in Runs
  BY DEF RowTrue, Table
<1>2. /\ Recorded(row.run)' /\ (row.run \in Trainings => stage'[row.run] = "over")
      /\ row.name = nameOf'[row.run] /\ row.status = outcome'[row.run]
  BY <1>1 DEF RowTrue, RunsGoOn, RunsKept, RunKept, Recorded, Started
<1>3. row.id \in Trainings =>
        /\ stage'[row.id] = "over" /\ row.name = nameOf'[row.id]
        /\ row.run = row.id \/ ~InHistory(row.id)'
  BY HistoryOfOver DEF RowTrue, RunsGoOn, RunsKept, RunKept, Started, Trainings
<1> QED BY <1>1, <1>2, <1>3 DEF RowTrue

(* Who writes to the index.                                                 *)
LEMMA IndexActs ==
  [Next]_vars =>
    \/ UNCHANGED rows
    \/ \E r \in Runs : FinalizeIndex(r) /\ rows' = UpsertRow(rows, Row(FactOfRun(r), RuntimeId(r), datasets))
    \/ BatchIndexes /\ UNCHANGED <<hist, runVars>>
    \/ RebuildPublishes /\ UNCHANGED <<hist, runVars>>
BY DEF Next, MakeDir, Launch, LaunchFails, StartRound, EndRun, EndUnrecorded, FinalizeHistory, FinalizeIndex, EndSession,
       ScanHistory, RemoveDir, ScanDir, ScanControllers, ScanIndex, Maintain, Rebuild, Crash, Restart, vars, indexVars, NoteIndex,
       FactOfRun, Fact

(* The row a training writes as it ends: the first under its id, and unless *)
(* its directory name is another's too, the first of its key.               *)
LEMMA RowOfEnd ==
  ASSUME RunsInv, HistoryInv, IndexInv, [Next]_vars, RunsGoOn, NEW r \in Runs, FinalizeIndex(r),
         NEW row, row = Row(FactOfRun(r), RuntimeId(r), datasets)
  PROVE  /\ RowTrue(row)'
         /\ row.id \in Trainings =>
              /\ Started(row.id) /\ row.id \notin IdsOf(rows)
              /\ Others(row.id) = {} => \A j \in DOMAIN rows : rows[j].key # row.key
<1>1. /\ stage[r] = "noted" /\ nameOf' = nameOf /\ outcome' = outcome
      /\ stage'[r] = IF r \in Rounds THEN "between" ELSE "over"
  BY DEF FinalizeIndex, RunsInv, RunsTyped
<1>2. /\ nameOf[r] \in Names /\ outcome[r] \in Statuses /\ DataOf[r] \in Data
      /\ (r \in Rounds => nameOf[r] = r)
  BY <1>1, IndexConstants DEF RunsInv, RunsTyped, RunTyped, Started, Names
<1>3. /\ row.id = RuntimeId(r) /\ row.key = JsonId(nameOf[r]) /\ row.name = nameOf[r] /\ row.run = r
      /\ row.status = outcome[r] /\ row.ds \in Data \cup {None}
      /\ row = [id |-> row.id, key |-> row.key, name |-> row.name, run |-> row.run, status |-> row.status, ds |-> row.ds]
  BY <1>2 DEF Row, FactOfRun, Fact, FactKey
<1>4. RuntimeId(r) = IF r \in Rounds THEN Session ELSE r
  BY DEF RuntimeId
<1>5. row.id \in Trainings <=> r \in Trainings
  BY <1>3, <1>4, IndexConstants DEF Trainings
<1>6. row.id \in Trainings => row.id = r
  BY <1>3, <1>4, IndexConstants DEF Trainings
<1>7. row.id \notin JsonIds /\ row.id \in Ids /\ row.key \in JsonIds
  BY <1>2, <1>3, <1>4, IdsApart DEF JsonIds, Ids, Trainings
<1>8. row \in Table
  BY <1>2, <1>3, <1>7 DEF Table
<1>9. row.id = Session => r \in Rounds
  BY <1>3, <1>4, IndexConstants
<1>10. RowTrue(row)'
  BY <1>1, <1>3, <1>5, <1>6, <1>7, <1>8, <1>9 DEF RowTrue, Recorded, Trainings
<1>11. ASSUME row.id \in Trainings
       PROVE  /\ Started(row.id) /\ row.id \notin IdsOf(rows)
              /\ Others(row.id) = {} => \A j \in DOMAIN rows : rows[j].key # row.key
  <2>1. row.id = r /\ r \in Trainings
    BY <1>5, <1>6, <1>11
  <2>2. row.id \notin IdsOf(rows)
    BY <1>1, <2>1 DEF IdsOf, IndexInv, RowsTrue, RowTrue
  <2>3. ASSUME Others(r) = {}, NEW j \in DOMAIN rows, rows[j].key = row.key PROVE FALSE
    <3>1. /\ RowTrue(rows[j]) /\ rows[j].name = nameOf[r] /\ rows[j].run \in Runs
      BY <2>3, <1>3, JsonIdIsOwn DEF IndexInv, RowsTrue, RowTrue, Table
    <3>2. Started(rows[j].run) /\ Started(r) /\ nameOf[rows[j].run] = nameOf[r]
      BY <1>1, <3>1 DEF RowTrue, Started, Recorded
    <3>3. rows[j].run = r
      BY <2>1, <2>3, <3>1, <3>2, NamesakesSame
    <3> QED BY <1>1, <2>1, <3>1, <3>3 DEF RowTrue
  <2>4. Started(r)
    BY <1>1 DEF Started
  <2> QED BY <2>1, <2>2, <2>3, <2>4
<1> QED BY <1>10, <1>11

(* The row of a record that is caught up.                                   *)
LEMMA RowOfBatch ==
  ASSUME RunsInv, HistoryInv, BatchIndexes, UNCHANGED <<hist, runVars>>,
         NEW row, row = Row(batch.facts[batch.next], FactKey(batch.facts[batch.next]), datasets)
  PROVE  RowTrue(row)' /\ row.id \notin Trainings
<1>1. PICK f : f = batch.facts[batch.next]
  OBVIOUS
<1>2. /\ batch.next \in 1..Len(batch.facts) + 1 /\ batch.next <= Len(batch.facts)
      /\ batch.facts \in Seq(Facts) /\ Len(batch.facts) \in Nat
  BY DEF HistoryInv, ReadTrue, HistoryTrue, BatchIndexes
<1>3. batch.next \in DOMAIN batch.facts
  BY <1>2
<1>4. FactTrue(f) /\ (f.run \in Trainings => stage[f.run] = "over")
  BY <1>1, <1>3 DEF HistoryInv, ReadTrue, HistoryTrue
<1>5. /\ f \in Facts /\ f.name \in Names /\ f.run \in Runs /\ f.status \in Statuses /\ f.data \in Data
      /\ Recorded(f.run) /\ f.name = nameOf[f.run] /\ f.status = outcome[f.run]
  BY <1>4 DEF FactTrue, Facts
<1>6. /\ row.id = JsonId(f.name) /\ row.key = JsonId(f.name) /\ row.name = f.name /\ row.run = f.run
      /\ row.status = f.status /\ row.ds \in Data \cup {None}
      /\ row = [id |-> row.id, key |-> row.key, name |-> row.name, run |-> row.run, status |-> row.status, ds |-> row.ds]
  BY <1>1, <1>5 DEF Row, FactKey
<1>7. row.id \in JsonIds /\ row.id \in Ids /\ row.key \in JsonIds /\ row.id \notin Trainings /\ row.id # Session
  BY <1>5, <1>6, JsonIdsApart DEF JsonIds, Ids
<1>8. row \in Table
  BY <1>5, <1>6, <1>7 DEF Table
<1>9. stage' = stage /\ nameOf' = nameOf /\ outcome' = outcome
  BY DEF runVars
<1> QED BY <1>4, <1>5, <1>6, <1>7, <1>8, <1>9 DEF RowTrue, Recorded

LEMMA RowsUpserted ==
  ASSUME RunsInv, HistoryInv, IndexInv, [Next]_vars, RunsGoOn,
         NEW row, RowTrue(row)', rows' = UpsertRow(rows, row),
         row.id \in Trainings =>
           /\ Started(row.id) /\ row.id \notin IdsOf(rows)
           /\ Others(row.id) = {} => \A j \in DOMAIN rows : rows[j].key # row.key
  PROVE  RowsTrue' /\ RowsInOrder' /\ IdsOf(rows') = IdsOf(rows) \cup {row.id}
<1>1. PICK t : t = rows'
  OBVIOUS
<1>2. rows \in Seq(Table) /\ OneId(rows) /\ row \in Table
  BY DEF IndexInv, RowsTrue, RowTrue, OneId
<1>3. t = UpsertRow(rows, row)
  BY <1>1
<1>4. /\ t \in Seq(Table) /\ OneId(t) /\ IdsOf(t) = IdsOf(rows) \cup {row.id}
      /\ DOMAIN rows \subseteq DOMAIN t
  BY <1>2, <1>3, UpsertRowMeans, ZenonT(30)
<1>5. \A i \in DOMAIN rows : t[i] = IF rows[i].id = row.id THEN row ELSE rows[i]
  BY <1>2, <1>3, UpsertRowMeans
<1>6. \A i \in DOMAIN t \ DOMAIN rows : t[i] = row /\ row.id \notin IdsOf(rows) /\ \A j \in DOMAIN t : j <= i
  BY <1>2, <1>3, UpsertRowMeans
<1>7. \A i \in DOMAIN rows : RowTrue(rows[i])
  BY DEF IndexInv, RowsTrue
<1>8. \A g : (\E i \in DOMAIN rows : g = rows[i]) => RowTrue(g)'
  BY <1>7, RowKept
<1>9. \A g : (\E i \in DOMAIN t : g = t[i]) => RowTrue(g)'
  BY <1>4, <1>5, <1>6, <1>8
<1>10. RowsTrue'
  BY <1>1, <1>4, <1>9 DEF RowsTrue, OneId
<1>11. row.id \in Ids /\ (row.id \in JsonIds => row.id = row.key) /\ (row.id = Session => row.name \in Rounds)
  <2>1. row.id = Session => row.run \in Rounds /\ row.name = nameOf'[row.run] /\ stage'[row.run] # "new"
    BY DEF RowTrue, Recorded
  <2>2. \A r \in Rounds : stage'[r] # "new" => nameOf'[r] \in Rounds
    BY IndexConstants DEF RunsGoOn, RunsInv, RunsTyped, RunTyped, Started
  <2> QED BY <2>1, <2>2, <1>2 DEF RowTrue, Table
<1>12. ASSUME NEW i \in DOMAIN t, NEW j \in DOMAIN t, t[i].id \in Trainings, t[j].key = t[i].key, Others(t[i].id)' = {}
       PROVE  i <= j
  <2>1. CASE i \notin DOMAIN rows
    <3>1. t[i] = row /\ row.id \in Trainings
      BY <2>1, <1>6, <1>12
    <3>2. Others(row.id) = {}
      BY <1>12, <3>1, OthersStay
    <3>3. CASE j \in DOMAIN rows
      BY <3>1, <3>2, <3>3, <1>5, <1>12 DEF IdsOf
    <3>4. CASE j \notin DOMAIN rows
      BY <3>4, <1>6
    <3> QED BY <3>3, <3>4
  <2>2. CASE j \notin DOMAIN rows
    BY <2>2, <1>6
  <2>3. CASE i \in DOMAIN rows /\ j \in DOMAIN rows
    <3>1. t[i] = rows[i]
      BY <2>3, <1>5, <1>12 DEF IdsOf
    <3>2. rows[i].id \in Trainings /\ Started(rows[i].id) /\ rows[i].name \notin Rounds
      BY <1>7, <1>12, <2>3, <3>1, RoundOfName DEF RowTrue, Started, Trainings
    <3>3. Others(rows[i].id) = {}
      BY <1>12, <3>1, <3>2, OthersStay
    <3>4. rows[j].key = rows[i].key
      <4>1. CASE rows[j].id # row.id
        BY <4>1, <2>3, <3>1, <1>5, <1>12
      <4>2. CASE rows[j].id = row.id
        <5>1. t[j] = row /\ row.key = rows[i].key /\ row.id \notin Trainings
          BY <4>2, <2>3, <3>1, <1>5, <1>12 DEF IdsOf
        <5>2. row.name = rows[i].name
          BY <5>1, <1>7, <2>3, JsonIdIsOwn DEF RowTrue
        <5>3. row.id \in JsonIds
          BY <5>1, <5>2, <3>2, <1>11 DEF Ids
        <5> QED BY <4>2, <5>1, <5>3, <1>7, <1>11, <2>3 DEF RowTrue
      <4> QED BY <4>1, <4>2
    <3> QED BY <2>3, <3>2, <3>3, <3>4 DEF IndexInv, RowsInOrder
  <2> QED BY <2>1, <2>2, <2>3
<1>13. RowsInOrder'
  BY <1>1, <1>12 DEF RowsInOrder
<1> QED BY <1>1, <1>4, <1>10, <1>13

-----------------------------------------------------------------------------
(* The rebuild *)

(* The id a rebuild files a record under: its runtime id or its JSON id, and *)
(* no two records under one.                                                *)
LEMMA IdFits ==
  ASSUME IndexInv, NEW k \in JsonIds
  PROVE  KeyFits(k, IdFor(k, rebuild.keys))
<1>1. CASE k \in DOMAIN rebuild.keys
  BY <1>1 DEF IdFor, IndexInv, KeysKnown
<1>2. CASE k \notin DOMAIN rebuild.keys
  BY <1>2, JsonIdsApart DEF IdFor, KeyFits, Ids
<1> QED BY <1>1, <1>2

LEMMA IdIsOwn ==
  ASSUME IndexInv, NEW k \in JsonIds, NEW l \in JsonIds, IdFor(k, rebuild.keys) = IdFor(l, rebuild.keys)
  PROVE  k = l
<1>1. CASE k \in DOMAIN rebuild.keys /\ l \in DOMAIN rebuild.keys
  BY <1>1 DEF IdFor, IndexInv, KeysKnown
<1>2. CASE k \notin DOMAIN rebuild.keys \/ l \notin DOMAIN rebuild.keys
  BY <1>2, IdFits DEF IdFor, KeyFits
<1> QED BY <1>1, <1>2

LEMMA RebuiltRowMeans ==
  ASSUME HistoryInv, IndexInv, NEW i \in DOMAIN rebuild.facts
  PROVE  LET f == rebuild.facts[i] IN
         /\ FactTrue(f) /\ JsonId(f.name) \in JsonIds
         /\ RebuiltRow(i) \in Table
         /\ RebuiltRow(i).id = IdFor(JsonId(f.name), rebuild.keys)
         /\ RebuiltRow(i).key = JsonId(f.name) /\ RebuiltRow(i).name = f.name
         /\ RebuiltRow(i).run = f.run /\ RebuiltRow(i).status = f.status
         /\ RebuiltRow(i).ds = IF f.data \in rebuild.known THEN f.data ELSE None
<1>1. PICK f : f = rebuild.facts[i]
  OBVIOUS
<1>2. PICK row : row = RebuiltRow(i)
  OBVIOUS
<1>3. FactTrue(f)
  BY <1>1 DEF HistoryInv, ReadTrue, HistoryTrue
<1>4. f.name \in Names /\ f.run \in Runs /\ f.status \in Statuses /\ f.data \in Data /\ JsonId(f.name) \in JsonIds
  BY <1>3 DEF FactTrue, Facts, JsonIds
<1>5. /\ row.id = IdFor(JsonId(f.name), rebuild.keys) /\ row.key = JsonId(f.name) /\ row.name = f.name
      /\ row.run = f.run /\ row.status = f.status
      /\ row.ds = IF f.data \in rebuild.known THEN f.data ELSE None
      /\ row = [id |-> row.id, key |-> row.key, name |-> row.name, run |-> row.run, status |-> row.status, ds |-> row.ds]
  BY <1>1, <1>2 DEF RebuiltRow, Row, FactKey
<1>6. row.id \in Ids
  BY <1>4, <1>5, IdFits DEF KeyFits
<1>7. row.ds \in Data \cup {None}
  BY <1>4, <1>5
<1>8. row \in Table
  BY <1>4, <1>5, <1>6, <1>7 DEF Table
<1> QED BY <1>1, <1>2, <1>3, <1>4, <1>5, <1>8

LEMMA RebuiltRowsApart ==
  ASSUME HistoryInv, IndexInv, NEW i \in DOMAIN rebuild.facts, NEW j \in DOMAIN rebuild.facts,
         RebuiltRow(i).id = RebuiltRow(j).id \/ RebuiltRow(i).key = RebuiltRow(j).key
  PROVE  i = j
<1>1. JsonId(rebuild.facts[i].name) = JsonId(rebuild.facts[j].name)
  BY RebuiltRowMeans, IdIsOwn
<1>2. rebuild.facts[i].name = rebuild.facts[j].name
  BY <1>1, JsonIdIsOwn
<1> QED BY <1>2 DEF HistoryInv, ReadTrue, HistoryTrue

(* A rebuilt row says what its run did, and is of the training it is filed  *)
(* under unless that one left no record.                                    *)
LEMMA RebuiltRowIsTrue ==
  ASSUME RunsInv, HistoryInv, IndexInv, rebuild.pc = "index", NEW i \in DOMAIN rebuild.facts
  PROVE  RowTrue(RebuiltRow(i))
<1>1. PICK f : f = rebuild.facts[i]
  OBVIOUS
<1>2. PICK row : row = RebuiltRow(i)
  OBVIOUS
<1>3. /\ FactTrue(f) /\ JsonId(f.name) \in JsonIds /\ row \in Table
      /\ row.id = IdFor(JsonId(f.name), rebuild.keys) /\ row.key = JsonId(f.name) /\ row.name = f.name
      /\ row.run = f.run /\ row.status = f.status
  BY <1>1, <1>2, RebuiltRowMeans
<1>4. /\ Recorded(f.run) /\ f.run \in Runs /\ f.name = nameOf[f.run] /\ f.status = outcome[f.run]
      /\ (f.run \in Trainings => stage[f.run] = "over")
  BY <1>1, <1>3 DEF FactTrue, Facts, HistoryInv, ReadTrue
<1>5. KeyFits(row.key, row.id)
  BY <1>3, IdFits
<1>6. ASSUME row.id = Session PROVE row.run \in Rounds
  <2>1. PICK r \in Rounds : row.key = JsonId(r)
    BY <1>5, <1>6 DEF KeyFits
  <2>2. f.name = r
    BY <2>1, <1>3, JsonIdIsOwn
  <2>3. Started(f.run)
    BY <1>4 DEF Started, Recorded
  <2> QED BY <2>2, <2>3, <1>3, <1>4, RoundOfName
<1>7. ASSUME row.id \in Trainings
      PROVE  /\ stage[row.id] = "over" /\ row.name = nameOf[row.id]
             /\ row.run = row.id \/ ~InHistory(row.id)
  <2>1. stage[row.id] = "over" /\ row.key = JsonId(nameOf[row.id])
    BY <1>5, <1>7 DEF KeyFits
  <2>2. row.name = nameOf[row.id]
    BY <2>1, <1>3, JsonIdIsOwn
  <2>3. ASSUME NEW k \in DOMAIN hist, hist[k].run = row.id PROVE row.run = row.id
    <3>1. PICK j \in DOMAIN rebuild.facts : rebuild.facts[j] = hist[k]
      BY <2>3, <1>7 DEF IndexInv, FactsRead
    <3>2. rebuild.facts[j].name = nameOf[row.id]
      BY <2>3, <3>1 DEF HistoryInv, HistoryTrue, FactTrue
    <3>3. rebuild.facts[j].name = rebuild.facts[i].name
      BY <3>2, <2>2, <1>1, <1>3
    <3>4. i = j
      BY <3>3 DEF HistoryInv, ReadTrue, HistoryTrue
    <3> QED BY <3>1, <3>4, <2>3, <1>1, <1>3
  <2> QED BY <2>1, <2>2, <2>3 DEF InHistory
<1>8. row.id \in JsonIds => row.id = row.key
  BY <1>5 DEF KeyFits
<1> QED BY <1>2, <1>3, <1>4, <1>6, <1>7, <1>8 DEF RowTrue

LEMMA TableMeans ==
  ASSUME HistoryInv, IndexInv
  PROVE  /\ rebuild.table \in Seq(Table)
         /\ \A i \in DOMAIN rebuild.table :
              /\ i \in 1..rebuild.next - 1 /\ i \in DOMAIN rebuild.facts /\ rebuild.table[i] = RebuiltRow(i)
         /\ OneId(rebuild.table)
<1>1. /\ rebuild.table \in Seq(Table) /\ Len(rebuild.table) = rebuild.next - 1
      /\ \A i \in DOMAIN rebuild.table : rebuild.table[i] = RebuiltRow(i)
  BY DEF IndexInv, TableFollows
<1>2. /\ rebuild.facts \in Seq(Facts) /\ rebuild.next \in 1..Len(rebuild.facts) + 1
      /\ Len(rebuild.facts) \in Nat
  BY DEF HistoryInv, ReadTrue, HistoryTrue
<1>3. DOMAIN rebuild.table = 1..rebuild.next - 1 /\ DOMAIN rebuild.facts = 1..Len(rebuild.facts)
  BY <1>1, <1>2
<1>4. \A i \in 1..rebuild.next - 1 : i \in 1..Len(rebuild.facts)
  BY <1>2
<1>5. \A i \in DOMAIN rebuild.table :
        i \in 1..rebuild.next - 1 /\ i \in DOMAIN rebuild.facts /\ rebuild.table[i] = RebuiltRow(i)
  BY <1>1, <1>3, <1>4
<1>6. OneId(rebuild.table)
  BY <1>5, RebuiltRowsApart DEF OneId
<1> QED BY <1>1, <1>5, <1>6

(* Every row, whoever wrote it.                                             *)
LEMMA RowsStay ==
  ASSUME RunsInv, HistoryInv, IndexInv, [Next]_vars, RunsGoOn, UNCHANGED rows
  PROVE  RowsTrue' /\ RowsInOrder'
<1>1. \A i \in DOMAIN rows : RowTrue(rows[i])
  BY DEF IndexInv, RowsTrue
<1>2. \A g : (\E i \in DOMAIN rows : g = rows[i]) => RowTrue(g)'
  BY <1>1, RowKept
<1>3. RowsTrue'
  BY <1>2 DEF IndexInv, RowsTrue
<1>4. ASSUME NEW i \in DOMAIN rows, NEW j \in DOMAIN rows, rows[i].id \in Trainings, rows[j].key = rows[i].key,
             Others(rows[i].id)' = {}
      PROVE  i <= j
  <2>1. PICK r \in Trainings : r = rows[i].id
    BY <1>4
  <2>2. Started(r)
    BY <1>1, <2>1 DEF RowTrue, Started
  <2>3. Others(r)' = {}
    BY <1>4, <2>1 DEF Others
  <2>4. Others(r) = {}
    BY <2>2, <2>3, OthersStay
  <2> QED BY <1>4, <2>1, <2>4 DEF IndexInv, RowsInOrder
<1>5. RowsInOrder'
  BY <1>4 DEF RowsInOrder, Others
<1> QED BY <1>3, <1>5

LEMMA RowsPublished ==
  ASSUME RunsInv, HistoryInv, IndexInv, [Next]_vars, RunsGoOn, RebuildPublishes
  PROVE  RowsTrue' /\ RowsInOrder'
<1>1. PICK t : t = rebuild.table
  OBVIOUS
<1>2. rows' = t /\ rebuild.pc = "index"
  BY <1>1 DEF RebuildPublishes, Built
<1>3. /\ t \in Seq(Table) /\ OneId(t)
      /\ \A i \in DOMAIN t : i \in DOMAIN rebuild.facts /\ t[i] = RebuiltRow(i)
  BY <1>1, TableMeans
<1>4. \A i \in DOMAIN t : RowTrue(t[i])
  BY <1>2, <1>3, RebuiltRowIsTrue
<1>5. \A i \in DOMAIN t : RowTrue(t[i])'
  BY <1>4, RowKept
<1>6. RowsTrue'
  BY <1>2, <1>3, <1>5 DEF RowsTrue, OneId
<1>7. \A i, j \in DOMAIN t : t[i].key = t[j].key => i = j
  BY <1>3, RebuiltRowsApart
<1>8. \A i \in DOMAIN t : i <= i
  BY <1>3
<1>9. RowsInOrder'
  BY <1>2, <1>7, <1>8 DEF RowsInOrder
<1> QED BY <1>6, <1>9

LEMMA RowsStep ==
  ASSUME RunsInv, HistoryInv, IndexInv, [Next]_vars, RunsGoOn
  PROVE  RowsTrue' /\ RowsInOrder'
<1>1. CASE UNCHANGED rows
  BY <1>1, RowsStay
<1>2. ASSUME NEW r \in Runs, FinalizeIndex(r), rows' = UpsertRow(rows, Row(FactOfRun(r), RuntimeId(r), datasets))
      PROVE  RowsTrue' /\ RowsInOrder'
  <2>1. PICK row : row = Row(FactOfRun(r), RuntimeId(r), datasets)
    OBVIOUS
  <2>2. rows' = UpsertRow(rows, row)
    BY <1>2, <2>1
  <2>3. /\ RowTrue(row)'
        /\ row.id \in Trainings =>
              /\ Started(row.id) /\ row.id \notin IdsOf(rows)
              /\ Others(row.id) = {} => \A j \in DOMAIN rows : rows[j].key # row.key
    BY <1>2, <2>1, RowOfEnd
  <2> QED BY <2>2, <2>3, RowsUpserted
<1>3. CASE BatchIndexes /\ UNCHANGED <<hist, runVars>> /\ ~UNCHANGED rows
  <2>1. PICK row : row = Row(batch.facts[batch.next], FactKey(batch.facts[batch.next]), datasets)
    OBVIOUS
  <2>2. rows' = UpsertRow(rows, row)
    BY <1>3, <2>1 DEF BatchIndexes
  <2>3. RowTrue(row)' /\ row.id \notin Trainings
    BY <1>3, <2>1, RowOfBatch
  <2> QED BY <2>2, <2>3, RowsUpserted
<1> QED BY <1>1, <1>2, <1>3, IndexActs, RowsPublished

(* The ids a rebuild reads.                                                 *)
LEMMA KeyMapFits ==
  ASSUME RunsInv, IndexInv
  PROVE  LET keys == KeyMap(rows) IN
         /\ \A k \in DOMAIN keys : KeyFits(k, keys[k])
         /\ \A k, l \in DOMAIN keys : keys[k] = keys[l] => k = l
         /\ \A r \in Trainings \cap IdsOf(rows) : Others(r) = {} =>
              JsonId(nameOf[r]) \in DOMAIN keys /\ keys[JsonId(nameOf[r])] = r
<1>1. PICK keys : keys = KeyMap(rows)
  OBVIOUS
<1>2. rows \in Seq(Table) /\ OneId(rows) /\ \A i \in DOMAIN rows : RowTrue(rows[i])
  BY DEF IndexInv, RowsTrue, OneId
<1>3. DOMAIN keys = {rows[i].key : i \in DOMAIN rows}
  BY <1>1, <1>2, KeyMapMeans
<1>4. \A k \in DOMAIN keys :
        \E i \in DOMAIN rows :
          /\ rows[i].key = k /\ keys[k] = rows[i].id
          /\ \A j \in DOMAIN rows : rows[j].key = k => i <= j
  BY <1>1, <1>2, KeyMapMeans
<1>5. ASSUME NEW k \in DOMAIN keys PROVE KeyFits(k, keys[k])
  <2>1. PICK i \in DOMAIN rows : rows[i].key = k /\ keys[k] = rows[i].id
    BY <1>4
  <2>2. PICK row : row = rows[i]
    OBVIOUS
  <2>3. RowTrue(row) /\ row.key = k /\ row.id = keys[k] /\ row \in Table
    BY <1>2, <2>1, <2>2 DEF RowTrue
  <2>4. k \in JsonIds /\ row.id \in Ids /\ (row.id \in JsonIds => row.id = k)
    BY <2>3 DEF RowTrue, Table
  <2>5. row.id = Session => \E r \in Rounds : k = JsonId(r)
    <3>1. row.id = Session => row.run \in Rounds /\ row.name = row.run
      BY <2>3, RoundOfName, IndexConstants DEF RowTrue, Started, Recorded
    <3> QED BY <3>1, <2>3 DEF RowTrue
  <2>6. row.id \in Trainings => stage[row.id] = "over" /\ k = JsonId(nameOf[row.id])
    BY <2>3 DEF RowTrue
  <2> QED BY <2>3, <2>4, <2>5, <2>6 DEF KeyFits
<1>6. ASSUME NEW k \in DOMAIN keys, NEW l \in DOMAIN keys, keys[k] = keys[l] PROVE k = l
  BY <1>2, <1>4, <1>6 DEF OneId
<1>7. ASSUME NEW r \in Trainings, r \in IdsOf(rows), Others(r) = {}
      PROVE  JsonId(nameOf[r]) \in DOMAIN keys /\ keys[JsonId(nameOf[r])] = r
  <2>1. PICK i \in DOMAIN rows : rows[i].id = r
    BY <1>7 DEF IdsOf
  <2>2. rows[i].key = JsonId(nameOf[r])
    BY <1>2, <2>1 DEF RowTrue
  <2>3. JsonId(nameOf[r]) \in DOMAIN keys
    BY <1>3, <2>2
  <2>4. PICK j \in DOMAIN rows :
           rows[j].key = JsonId(nameOf[r]) /\ keys[JsonId(nameOf[r])] = rows[j].id /\ j <= i
    BY <1>4, <2>2, <2>3
  <2>5. i <= j
    BY <1>7, <2>1, <2>2, <2>4 DEF IndexInv, RowsInOrder
  <2>6. i = j
    BY <2>4, <2>5, <1>2
  <2> QED BY <2>1, <2>3, <2>4, <2>6
<1> QED BY <1>1, <1>5, <1>6, <1>7

(* While a rebuild reads, no training writes to either record.              *)
LEMMA NoTrainingIndexes ==
  ASSUME RunsInv, HistoryInv, IndexInv, [Next]_vars, RunsGoOn, rebuild.pc # "idle", rebuild'.pc # "idle"
  PROVE  \A r \in Trainings : r \in IdsOf(rows') => r \in IdsOf(rows)
<1>1. ASSUME NEW r \in Runs, FinalizeIndex(r), rows' = UpsertRow(rows, Row(FactOfRun(r), RuntimeId(r), datasets))
      PROVE  \A q \in Trainings : q \in IdsOf(rows') => q \in IdsOf(rows)
  <2>1. r \notin Trainings
    BY <1>1 DEF FinalizeIndex, RunsInv, LoopIsAlone
  <2>2. PICK row : row = Row(FactOfRun(r), RuntimeId(r), datasets)
    OBVIOUS
  <2>3. row.id = Session /\ Session \notin Trainings
    BY <2>1, <2>2, IndexConstants DEF Row, RuntimeId, Trainings
  <2>4. rows' = UpsertRow(rows, row)
    BY <1>1, <2>2
  <2>5. RowTrue(row)'
    BY <1>1, <2>2, RowOfEnd
  <2>6. IdsOf(rows') = IdsOf(rows) \cup {row.id}
    BY <2>3, <2>4, <2>5, RowsUpserted
  <2> QED BY <2>3, <2>6
<1>2. ~BatchIndexes
  BY DEF BatchIndexes, RunsInv, LoopIsAlone
<1>3. ~RebuildPublishes
  BY DEF RebuildPublishes, Idle
<1> QED BY <1>1, <1>2, <1>3, IndexActs

LEMMA KeyFitsStays ==
  ASSUME RunsInv, RunsGoOn
  PROVE  \A k, id : KeyFits(k, id) => KeyFits(k, id)'
<1> SUFFICES ASSUME NEW k, NEW id, KeyFits(k, id) PROVE KeyFits(k, id)'
  OBVIOUS
<1>1. id \in Trainings => stage'[id] = "over" /\ k = JsonId(nameOf'[id])
  BY DEF KeyFits, RunsGoOn, RunsKept, RunKept, Started, Trainings
<1> QED BY <1>1 DEF KeyFits

LEMMA KeysStay ==
  ASSUME RunsInv, HistoryInv, IndexInv, [Next]_vars, RunsGoOn,
         UNCHANGED <<rebuild.keys, rebuild.blind>>,
         rebuild'.pc \in {"facts", "index"} => rebuild.pc \in {"facts", "index"} \/ rebuild.blind
  PROVE  KeysKnown'
<1>1. PICK keys : keys = rebuild.keys
  OBVIOUS
<1>2. rebuild'.keys = keys
  BY <1>1
<1>3. /\ \A k \in DOMAIN keys : KeyFits(k, keys[k])
      /\ \A k, l \in DOMAIN keys : keys[k] = keys[l] => k = l
  BY <1>1 DEF IndexInv, KeysKnown
<1>4. \A k \in DOMAIN keys : KeyFits(k, keys[k])'
  BY <1>3, KeyFitsStays
<1>5. ASSUME rebuild'.pc \in {"facts", "index"}, ~rebuild'.blind,
             NEW r \in Trainings, r \in IdsOf(rows'), Others(r)' = {}
      PROVE  JsonId(nameOf'[r]) \in DOMAIN keys /\ keys[JsonId(nameOf'[r])] = r
  <2>1. rebuild.pc \in {"facts", "index"} /\ ~rebuild.blind
    BY <1>5
  <2>2. r \in IdsOf(rows)
    BY <1>5, <2>1, NoTrainingIndexes
  <2>3. Started(r) /\ r \in Runs
    BY <2>2 DEF IdsOf, IndexInv, RowsTrue, RowTrue, Started, Trainings
  <2>4. Others(r) = {} /\ nameOf'[r] = nameOf[r]
    BY <1>5, <2>3, OthersStay DEF RunsGoOn, RunsKept, RunKept
  <2> QED BY <1>1, <2>1, <2>2, <2>4 DEF IndexInv, KeysKnown
<1> QED BY <1>2, <1>3, <1>4, <1>5 DEF KeysKnown

LEMMA KeysRead ==
  ASSUME RunsInv, HistoryInv, IndexInv, [Next]_vars, RunsGoOn, RebuildReadsKeys, UNCHANGED <<rows, nameOf, stage>>
  PROVE  KeysKnown'
<1>1. DOMAIN rebuild = {"pc", "whole", "keys", "blind", "known", "facts", "next", "table"}
  BY DEF RunsInv, RebuildTyped
<1>2. CASE rebuild' = [rebuild EXCEPT !.pc = "facts", !.blind = TRUE]
  <2>1. rebuild'.keys = rebuild.keys /\ rebuild'.blind = TRUE
    BY <1>1, <1>2
  <2>2. /\ \A k \in DOMAIN rebuild.keys : KeyFits(k, rebuild.keys[k])
        /\ \A k, l \in DOMAIN rebuild.keys : rebuild.keys[k] = rebuild.keys[l] => k = l
    BY DEF IndexInv, KeysKnown
  <2>3. PICK keys : keys = rebuild.keys
    OBVIOUS
  <2>4. \A k \in DOMAIN keys : KeyFits(k, keys[k])'
    BY <2>2, <2>3, KeyFitsStays
  <2> QED BY <2>1, <2>2, <2>3, <2>4 DEF KeysKnown
<1>3. CASE rebuild' = [rebuild EXCEPT !.pc = "facts", !.keys = KeyMap(rows)]
  <2>1. PICK keys : keys = KeyMap(rows)
    OBVIOUS
  <2>2. rebuild'.keys = keys
    BY <1>1, <1>3, <2>1
  <2>3. \A k \in DOMAIN keys : KeyFits(k, keys[k])
    BY <2>1, KeyMapFits
  <2>4. \A k, l \in DOMAIN keys : keys[k] = keys[l] => k = l
    BY <2>1, KeyMapFits
  <2>5. \A r \in Trainings \cap IdsOf(rows) : Others(r) = {} =>
              JsonId(nameOf[r]) \in DOMAIN keys /\ keys[JsonId(nameOf[r])] = r
    BY <2>1, KeyMapFits
  <2>6. \A k \in DOMAIN keys : KeyFits(k, keys[k])'
    BY <2>3, KeyFitsStays
  <2>7. \A r \in Trainings : Others(r)' = Others(r)
    BY DEF Others
  <2>8. nameOf' = nameOf /\ IdsOf(rows') = IdsOf(rows)
    OBVIOUS
  <2> QED BY <2>2, <2>4, <2>5, <2>6, <2>7, <2>8 DEF KeysKnown
<1> QED BY <1>2, <1>3 DEF RebuildReadsKeys

LEMMA KeysStep ==
  ASSUME RunsInv, HistoryInv, IndexInv, [Next]_vars, RunsGoOn
  PROVE  KeysKnown'
<1>1. DOMAIN rebuild = {"pc", "whole", "keys", "blind", "known", "facts", "next", "table"}
  BY DEF RunsInv, RebuildTyped
<1>2. CASE UNCHANGED rebuild
  BY <1>2, KeysStay
<1>3. CASE RebuildReadsFacts
  <2>1. UNCHANGED <<rebuild.keys, rebuild.blind>> /\ rebuild.pc = "facts"
    BY <1>1, <1>3 DEF RebuildReadsFacts
  <2> QED BY <2>1, KeysStay
<1>4. CASE RebuildIndexes
  <2>1. rebuild.pc = "index" /\ \E t : rebuild' = [rebuild EXCEPT !.next = @ + 1, !.table = t]
    BY <1>4 DEF RebuildIndexes
  <2>2. UNCHANGED <<rebuild.keys, rebuild.blind>> /\ rebuild.pc = "index"
    BY <1>1, <2>1
  <2> QED BY <2>2, KeysStay
<1>5. CASE rebuild' = Idle \/ RebuildBegins
  <2>1. Idle.keys = <<>> /\ Idle.pc = "idle" /\ DOMAIN Idle = {"pc", "whole", "keys", "blind", "known", "facts", "next", "table"}
    BY DEF Idle
  <2>2. rebuild' = Idle \/ rebuild' = [Idle EXCEPT !.pc = "keys", !.whole = manifests]
    BY <1>5 DEF RebuildBegins
  <2>3. rebuild'.keys = <<>> /\ rebuild'.pc \in {"idle", "keys"}
    BY <2>1, <2>2
  <2>4. DOMAIN rebuild'.keys = {}
    BY <2>3
  <2> QED BY <2>3, <2>4 DEF KeysKnown
<1> QED BY <1>2, <1>3, <1>4, <1>5, RebuildActs, KeysRead

(* What a rebuild has read of the history.                                  *)
LEMMA FactsStay ==
  ASSUME RunsInv, HistoryInv, IndexInv, [Next]_vars, RunsGoOn, rebuild.pc = "index", rebuild'.pc = "index",
         UNCHANGED <<rebuild.facts, rebuild.known, rebuild.whole>>
  PROVE  FactsRead'
<1>1. ASSUME NEW i \in DOMAIN hist', hist'[i].run \in Trainings
      PROVE  \E j \in DOMAIN rebuild.facts : rebuild.facts[j] = hist'[i]
  <2>1. CASE \E j \in DOMAIN hist : hist'[i] = hist[j]
    BY <2>1, <1>1 DEF IndexInv, FactsRead
  <2>2. ASSUME NEW r \in Runs, stage[r] = "ended", r \in Trainings => LoopFree, hist'[i] = FactOfRun(r)
        PROVE  FALSE
    <3>1. r \in Trainings
      BY <1>1, <2>2 DEF FactOfRun, Fact
    <3> QED BY <3>1, <2>2 DEF LoopFree
  <2> QED BY <2>1, <2>2, RecordIsNew
<1>2. \A i \in DOMAIN rebuild.facts :
        rebuild.facts[i].data \notin rebuild.known => rebuild.facts[i].data \in Snapshots \ rebuild.whole
  BY DEF IndexInv, FactsRead
<1> QED BY <1>1, <1>2 DEF FactsRead

LEMMA FactsAreRead ==
  ASSUME RunsInv, HistoryInv, RebuildReadsFacts, UNCHANGED <<hist, rows>>
  PROVE  FactsRead'
<1>1. DOMAIN rebuild = {"pc", "whole", "keys", "blind", "known", "facts", "next", "table"}
  BY DEF RunsInv, RebuildTyped
<1>2. PICK K : K = (({latest} \cap Data) \ Snapshots) \cup rebuild.whole \cup ({hist[i].data : i \in DOMAIN hist} \ Snapshots)
  OBVIOUS
<1>3. rebuild' = [rebuild EXCEPT !.pc = "index", !.facts = hist, !.known = K]
  BY <1>2 DEF RebuildReadsFacts
<1>4. rebuild'.facts = hist /\ rebuild'.known = K /\ rebuild'.whole = rebuild.whole
  BY <1>1, <1>3
<1>5. \A i \in DOMAIN hist : hist[i].data \notin K => hist[i].data \in Snapshots \ rebuild.whole
  BY <1>2
<1> QED BY <1>4, <1>5 DEF FactsRead

LEMMA FactsStep ==
  ASSUME RunsInv, HistoryInv, IndexInv, [Next]_vars, RunsGoOn
  PROVE  FactsRead'
<1> SUFFICES ASSUME rebuild'.pc = "index" PROVE FactsRead'
  BY DEF FactsRead
<1>1. DOMAIN rebuild = {"pc", "whole", "keys", "blind", "known", "facts", "next", "table"}
  BY DEF RunsInv, RebuildTyped
<1>2. CASE UNCHANGED rebuild
  BY <1>2, FactsStay
<1>3. CASE RebuildIndexes
  <2>1. rebuild.pc = "index" /\ \E t : rebuild' = [rebuild EXCEPT !.next = @ + 1, !.table = t]
    BY <1>3 DEF RebuildIndexes
  <2>2. UNCHANGED <<rebuild.facts, rebuild.known, rebuild.whole>>
    BY <1>1, <2>1
  <2> QED BY <2>1, <2>2, FactsStay
<1>4. CASE rebuild' = Idle \/ RebuildBegins
  <2>1. Idle.pc = "idle" /\ DOMAIN Idle = {"pc", "whole", "keys", "blind", "known", "facts", "next", "table"}
    BY DEF Idle
  <2>2. rebuild' = Idle \/ rebuild' = [Idle EXCEPT !.pc = "keys", !.whole = manifests]
    BY <1>4 DEF RebuildBegins
  <2>3. rebuild'.pc \in {"idle", "keys"}
    BY <2>1, <2>2
  <2> QED BY <2>3
<1>5. CASE RebuildReadsKeys
  <2>1. \/ \E m : rebuild' = [rebuild EXCEPT !.pc = "facts", !.keys = m]
        \/ rebuild' = [rebuild EXCEPT !.pc = "facts", !.blind = TRUE]
    BY <1>5 DEF RebuildReadsKeys
  <2>2. rebuild'.pc = "facts"
    BY <1>1, <2>1
  <2> QED BY <2>2
<1> QED BY <1>2, <1>3, <1>4, <1>5, RebuildActs, FactsAreRead

(* Each record read gets its row, at its own place.                         *)
LEMMA TableGrows ==
  ASSUME RunsInv, HistoryInv, IndexInv, RebuildIndexes
  PROVE  TableFollows'
<1>1. PICK row : row = RebuiltRow(rebuild.next)
  OBVIOUS
<1>2. PICK t : t = UpsertRow(rebuild.table, row)
  OBVIOUS
<1>3. /\ rebuild.next <= Len(rebuild.facts) /\ rebuild.pc = "index"
      /\ rebuild' = [rebuild EXCEPT !.next = @ + 1, !.table = t]
  BY <1>1, <1>2 DEF RebuildIndexes, RebuiltRow
<1>4. DOMAIN rebuild = {"pc", "whole", "keys", "blind", "known", "facts", "next", "table"}
  BY DEF RunsInv, RebuildTyped
<1>5. /\ rebuild'.table = t /\ rebuild'.next = rebuild.next + 1
      /\ rebuild'.facts = rebuild.facts /\ rebuild'.keys = rebuild.keys /\ rebuild'.known = rebuild.known
  BY <1>3, <1>4
<1>6. /\ rebuild.facts \in Seq(Facts) /\ rebuild.next \in 1..Len(rebuild.facts) + 1
      /\ Len(rebuild.facts) \in Nat
  BY DEF HistoryInv, ReadTrue, HistoryTrue
<1>7. rebuild.next \in Nat /\ rebuild.next >= 1 /\ rebuild.next \in DOMAIN rebuild.facts
  BY <1>3, <1>6
<1>8. rebuild.table \in Seq(Table) /\ Len(rebuild.table) = rebuild.next - 1
  BY DEF IndexInv, TableFollows
<1>9. /\ OneId(rebuild.table) /\ row \in Table
      /\ \A i \in DOMAIN rebuild.table : i \in DOMAIN rebuild.facts /\ rebuild.table[i] = RebuiltRow(i)
  BY <1>1, <1>7, TableMeans, RebuiltRowMeans
<1>10. DOMAIN rebuild.table = 1..rebuild.next - 1
  BY <1>8
<1>11. row.id \notin IdsOf(rebuild.table)
  <2> SUFFICES ASSUME NEW i \in DOMAIN rebuild.table, rebuild.table[i].id = row.id PROVE FALSE
    BY DEF IdsOf
  <2>1. i = rebuild.next
    BY <1>1, <1>7, <1>9, RebuiltRowsApart
  <2> QED BY <2>1, <1>7, <1>10
<1>12. t = Append(rebuild.table, row)
  BY <1>2, <1>11 DEF UpsertRow
<1>13. t \in Seq(Table)
  BY <1>8, <1>9, <1>12
<1>14. Len(t) = Len(rebuild.table) + 1
  BY <1>8, <1>12
<1>15. Len(t) = rebuild.next /\ DOMAIN t = 1..rebuild.next
  BY <1>7, <1>8, <1>13, <1>14
<1>16. t[rebuild.next] = row
  BY <1>7, <1>8, <1>12
<1>17. \A i \in 1..rebuild.next - 1 : t[i] = rebuild.table[i]
  BY <1>7, <1>8, <1>12
<1>18. ASSUME NEW i \in DOMAIN t PROVE t[i] = RebuiltRow(i)
  <2>1. CASE i = rebuild.next
    BY <2>1, <1>1, <1>16
  <2>2. CASE i # rebuild.next
    <3>1. i \in 1..rebuild.next - 1
      BY <2>2, <1>7, <1>15
    <3> QED BY <3>1, <1>9, <1>10, <1>17
  <2> QED BY <2>1, <2>2
<1>19. \A i \in DOMAIN t : RebuiltRow(i)' = RebuiltRow(i)
  BY <1>5 DEF RebuiltRow
<1>20. \A i \in DOMAIN t : t[i] = RebuiltRow(i)'
  BY <1>18, <1>19
<1>21. Len(t) = rebuild'.next - 1
  BY <1>5, <1>7, <1>15
<1> QED BY <1>5, <1>13, <1>20, <1>21 DEF TableFollows

LEMMA TableStep ==
  ASSUME RunsInv, HistoryInv, IndexInv, [Next]_vars
  PROVE  TableFollows'
<1>1. DOMAIN rebuild = {"pc", "whole", "keys", "blind", "known", "facts", "next", "table"}
  BY DEF RunsInv, RebuildTyped
<1>2. CASE UNCHANGED rebuild
  BY <1>2 DEF IndexInv, TableFollows, RebuiltRow
<1>3. CASE rebuild'.table = <<>> /\ rebuild'.next = 1
  <2>1. <<>> \in Seq(Table) /\ Len(<<>>) = 0 /\ DOMAIN <<>> = {}
    OBVIOUS
  <2> QED BY <2>1, <1>3 DEF TableFollows
<1>4. ASSUME rebuild.pc # "index", UNCHANGED <<rebuild.table, rebuild.next>>
      PROVE  TableFollows'
  <2>1. rebuild.next = 1 /\ rebuild.table \in Seq(Table) /\ Len(rebuild.table) = 0
    BY <1>4 DEF HistoryInv, IndexInv, TableFollows
  <2>2. rebuild.table = <<>>
    BY <2>1
  <2> QED BY <1>3, <1>4, <2>1, <2>2
<1>5. CASE rebuild' = Idle \/ RebuildBegins
  <2>1. Idle.table = <<>> /\ Idle.next = 1 /\ DOMAIN Idle = {"pc", "whole", "keys", "blind", "known", "facts", "next", "table"}
    BY DEF Idle
  <2>2. rebuild' = Idle \/ rebuild' = [Idle EXCEPT !.pc = "keys", !.whole = manifests]
    BY <1>5 DEF RebuildBegins
  <2>3. rebuild'.table = <<>> /\ rebuild'.next = 1
    BY <2>1, <2>2
  <2> QED BY <2>3, <1>3
<1>6. CASE RebuildReadsKeys
  <2>1. \/ \E m : rebuild' = [rebuild EXCEPT !.pc = "facts", !.keys = m]
        \/ rebuild' = [rebuild EXCEPT !.pc = "facts", !.blind = TRUE]
    BY <1>6 DEF RebuildReadsKeys
  <2>2. rebuild.pc = "keys" /\ UNCHANGED <<rebuild.table, rebuild.next>>
    <3>1. rebuild.pc = "keys"
      BY <1>6 DEF RebuildReadsKeys
    <3> QED BY <1>1, <2>1, <3>1
  <2> QED BY <2>2, <1>4
<1>7. CASE RebuildReadsFacts
  <2>1. rebuild.pc = "facts" /\ \E K : rebuild' = [rebuild EXCEPT !.pc = "index", !.facts = hist, !.known = K]
    BY <1>7 DEF RebuildReadsFacts
  <2>2. rebuild.pc = "facts" /\ UNCHANGED <<rebuild.table, rebuild.next>>
    BY <1>1, <2>1
  <2> QED BY <2>2, <1>4
<1> QED BY <1>2, <1>5, <1>6, <1>7, RebuildActs, TableGrows

LEMMA IndexStart == Init => IndexInv
<1> SUFFICES ASSUME Init PROVE IndexInv
  OBVIOUS
<1>1. rows = <<>> /\ rebuild = Idle
  BY DEF Init, IndexInit
<1>2. Idle.keys = <<>> /\ Idle.table = <<>> /\ Idle.next = 1 /\ Idle.pc = "idle"
  BY DEF Idle
<1>3. <<>> \in Seq(Table) /\ Len(<<>>) = 0 /\ DOMAIN <<>> = {}
  OBVIOUS
<1> QED BY <1>1, <1>2, <1>3 DEF IndexInv, RowsTrue, RowsInOrder, KeysKnown, FactsRead, TableFollows

LEMMA IndexStep == RunsInv /\ HistoryInv /\ IndexInv /\ [Next]_vars /\ RunsGoOn => IndexInv'
BY RowsStep, KeysStep, FactsStep, TableStep DEF IndexInv

-----------------------------------------------------------------------------
(* The projection *)

LEMMA ReaderStart == Init => ReaderInv
BY NoneIsNothing DEF Init, ReaderInv, NoScan, Statuses

LEMMA EarnedStays ==
  ASSUME RunsInv, RunsGoOn
  PROVE  \A r \in Trainings : nameOf[r] # None /\ Earned(r) => Earned(r)'
<1> SUFFICES ASSUME NEW r \in Trainings, nameOf[r] # None, NEW q \in {r} \cup Others(r), outcome[q] = "completed"
             PROVE  q \in ({r} \cup Others(r))' /\ outcome'[q] = "completed"
  BY DEF Earned
<1>1. q \in Trainings /\ nameOf[q] # None /\ nameOf[q] = nameOf[r] /\ q \in Runs /\ r \in Runs
  BY DEF Others, Trainings
<1>2. Started(q) /\ Started(r)
  BY <1>1 DEF RunsInv, RunsTyped, RunTyped
<1>3. nameOf'[q] = nameOf[q] /\ nameOf'[r] = nameOf[r] /\ outcome'[q] = outcome[q]
  BY <1>1, <1>2, NoneIsNothing DEF RunsGoOn, RunsKept, RunKept, Statuses
<1> QED BY <1>1, <1>3 DEF Others

(* A completed status, live or recorded, is that of a training in the       *)
(* directory.                                                               *)
Completed(n) == \E q \in Trainings : nameOf[q] = n /\ outcome[q] = "completed"

LEMMA RecordIsOfTraining ==
  ASSUME RunsInv, HistoryInv, NEW n \in 1..MaxName, n \in HistoryNames, HistoryIndex[n].status = "completed"
  PROVE  Completed(n)
<1>1. hist \in Seq(Facts) /\ OneName(hist)
  BY DEF HistoryInv, HistoryTrue, OneName
<1>2. PICK i \in DOMAIN hist : hist[i].name = n
  BY DEF HistoryNames
<1>3. HistoryIndex[n] = hist[i]
  BY <1>1, <1>2, HistoryIndexMeans
<1>4. PICK q : q = hist[i].run
  OBVIOUS
<1>5. q \in Runs /\ Started(q) /\ nameOf[q] = n /\ outcome[q] = "completed"
  BY <1>2, <1>3, <1>4 DEF HistoryInv, HistoryTrue, FactTrue, Facts, Started, Recorded
<1>6. q \in Trainings
  BY <1>5, RoundOfName, IndexConstants DEF Trainings
<1> QED BY <1>5, <1>6 DEF Completed

LEMMA StatusSeenMeans ==
  ASSUME NEW n, NEW recorded, StatusSeen(n, recorded) = "completed", recorded = "completed" => Completed(n)
  PROVE  Completed(n)
<1>1. CASE LiveOn(n) # {}
  <2>1. PICK r \in LiveOn(n) : LiveStatus(r) = "completed"
    BY <1>1 DEF StatusSeen
  <2> QED BY <2>1 DEF LiveOn, LiveStatus, Completed
<1>2. CASE LiveOn(n) = {}
  BY <1>2 DEF StatusSeen
<1> QED BY <1>1, <1>2

LEMMA SourceEarns ==
  ASSUME RunsInv, NEW n \in 1..MaxName, dirs[n] # None, dirs[n].mode = "formal"
  PROVE  \E r \in Trainings : dirs[n] = Source(r) /\ dirs[n].run = r /\ nameOf[r] = n /\ (Completed(n) => Earned(r))
<1>1. dirs[n] # Bare
  BY NoneIsNothing DEF Bare
<1>2. PICK r \in Trainings : dirs[n] = Source(r) /\ nameOf[r] = n
  BY <1>1 DEF RunsInv, DirsAreOwn
<1>3. Completed(n) => Earned(r)
  <2> SUFFICES ASSUME NEW q \in Trainings, nameOf[q] = n, outcome[q] = "completed" PROVE Earned(r)
    BY DEF Completed
  <2>1. n # None
    BY NoneIsNothing DEF Names
  <2> QED BY <1>2, <2>1 DEF Earned, Others
<1> QED BY <1>2, <1>3 DEF Source

LEMMA ReaderActs ==
  [Next]_vars => UNCHANGED reader \/ reader' = NoScan \/ ScanDir \/ ScanControllers \/ \E n \in 1..MaxName : ScanHistory(n)
BY DEF Next, MakeDir, Launch, LaunchFails, StartRound, EndRun, EndUnrecorded, FinalizeHistory, FinalizeIndex, EndSession,
       ScanIndex, RemoveDir, Maintain, Rebuild, Crash, Restart, vars, runVars

LEMMA CompletedStays ==
  ASSUME RunsInv, RunsGoOn
  PROVE  \A n \in 1..MaxName : Completed(n) => Completed(n)'
<1> SUFFICES ASSUME NEW n \in 1..MaxName, NEW q \in Trainings, nameOf[q] = n, outcome[q] = "completed"
             PROVE  nameOf'[q] = n /\ outcome'[q] = "completed"
  BY DEF Completed
<1>1. q \in Runs /\ n # None /\ outcome[q] # None
  BY NoneIsNothing DEF Trainings, Names, Statuses
<1>2. Started(q)
  BY <1>1 DEF RunsInv, RunsTyped, RunTyped
<1> QED BY <1>1, <1>2 DEF RunsGoOn, RunsKept, RunKept

LEMMA ReaderStep == RunsInv /\ HistoryInv /\ ReaderInv /\ [Next]_vars /\ RunsGoOn => ReaderInv'
<1> SUFFICES ASSUME RunsInv, HistoryInv, ReaderInv, [Next]_vars, RunsGoOn PROVE ReaderInv'
  OBVIOUS
<1>1. CASE UNCHANGED reader
  <2>1. PICK n, r : n = reader.name /\ r = reader.run
    OBVIOUS
  <2>2. /\ reader.pc \in {"idle", "dir", "controllers", "index"} /\ (reader.pc # "idle" => n \in 1..MaxName)
        /\ reader.record = "completed" => reader.pc \in {"dir", "controllers"} /\ Completed(n)
        /\ reader.pc \in {"controllers", "index"} => r \in Trainings /\ nameOf[r] = n
        /\ reader.status = "completed" => reader.pc = "index" /\ Earned(r)
    BY <2>1 DEF ReaderInv, Completed
  <2>3. reader.record = "completed" => Completed(n)'
    BY <2>2, CompletedStays
  <2>4. reader.pc \in {"controllers", "index"} => nameOf[r] # None /\ nameOf'[r] = n /\ (Earned(r) => Earned(r)')
    <3> SUFFICES ASSUME reader.pc \in {"controllers", "index"}
                 PROVE  nameOf[r] # None /\ nameOf'[r] = n /\ (Earned(r) => Earned(r)')
      OBVIOUS
    <3>1. r \in Trainings /\ nameOf[r] = n /\ n # None /\ r \in Runs
      BY <2>2, NoneIsNothing DEF Names, Trainings
    <3>2. Started(r)
      BY <3>1 DEF RunsInv, RunsTyped, RunTyped
    <3> QED BY <3>1, <3>2, EarnedStays DEF RunsGoOn, RunsKept, RunKept
  <2> QED BY <1>1, <2>1, <2>2, <2>3, <2>4 DEF ReaderInv, Completed, Earned, Others
<1>2. CASE reader' = NoScan
  BY <1>2, NoneIsNothing DEF ReaderInv, NoScan, Statuses
<1>3. ASSUME NEW n \in 1..MaxName, ScanHistory(n) PROVE ReaderInv'
  <2>1. PICK rec : rec = IF n \in HistoryNames THEN HistoryIndex[n].status ELSE None
    OBVIOUS
  <2>2. reader' = [NoScan EXCEPT !.pc = "dir", !.name = n, !.record = rec]
    BY <1>3, <2>1 DEF ScanHistory
  <2>3. reader'.pc = "dir" /\ reader'.name = n /\ reader'.record = rec /\ reader'.status = None
    BY <2>2 DEF NoScan
  <2>4. rec = "completed" => Completed(n)
    BY <2>1, RecordIsOfTraining, NoneIsNothing DEF Statuses
  <2>5. rec = "completed" => Completed(n)'
    BY <2>4, CompletedStays
  <2> QED BY <2>3, <2>5, NoneIsNothing DEF ReaderInv, Completed, Statuses
<1>4. CASE ScanDir
  <2>1. PICK n, rec : n = reader.name /\ rec = reader.record
    OBVIOUS
  <2>2. reader.pc = "dir" /\ n \in 1..MaxName /\ (rec = "completed" => Completed(n))
    BY <1>4, <2>1 DEF ReaderInv, ScanDir, Completed
  <2>3. CASE dirs[n] = None \/ dirs[n].mode # "formal"
    BY <1>2, <1>4, <2>1, <2>3 DEF ScanDir
  <2>4. CASE dirs[n] # None /\ dirs[n].mode = "formal"
    <3>1. PICK r \in Trainings : dirs[n].run = r /\ nameOf[r] = n
      BY <2>2, <2>4, SourceEarns
    <3>2. reader' = [NoScan EXCEPT !.pc = "controllers", !.name = n, !.record = rec, !.run = r]
      BY <1>4, <2>1, <2>4, <3>1 DEF ScanDir
    <3>3. reader'.pc = "controllers" /\ reader'.name = n /\ reader'.run = r /\ reader'.status = None /\ reader'.record = rec
      BY <3>2 DEF NoScan
    <3>4. rec = "completed" => Completed(n)'
      BY <2>2, CompletedStays
    <3>5. nameOf' = nameOf
      BY <1>4 DEF ScanDir
    <3> QED BY <2>2, <3>1, <3>3, <3>4, <3>5, NoneIsNothing DEF ReaderInv, Statuses, Completed
  <2> QED BY <2>3, <2>4
<1>5. CASE ScanControllers
  <2>1. PICK n, rec, r, s : n = reader.name /\ rec = reader.record /\ r = reader.run /\ s = StatusSeen(n, rec)
    OBVIOUS
  <2>2. n \in 1..MaxName /\ (rec = "completed" => Completed(n)) /\ r \in Trainings /\ nameOf[r] = n
    BY <1>5, <2>1 DEF ReaderInv, ScanControllers, Completed
  <2>3. reader' = [NoScan EXCEPT !.pc = "index", !.name = n, !.run = r, !.status = s]
    BY <1>5, <2>1 DEF ScanControllers
  <2>4. reader'.pc = "index" /\ reader'.name = n /\ reader'.run = r /\ reader'.status = s /\ reader'.record = None
    BY <2>3 DEF NoScan
  <2>5. n # None
    BY <2>2, NoneIsNothing DEF Names
  <2>6. s = "completed" => Earned(r)
    <3> SUFFICES ASSUME s = "completed" PROVE Earned(r)
      OBVIOUS
    <3>1. StatusSeen(n, rec) = "completed"
      BY <2>1
    <3>2. PICK q \in Trainings : nameOf[q] = n /\ outcome[q] = "completed"
      BY <2>2, <3>1, StatusSeenMeans DEF Completed
    <3> QED BY <2>2, <2>5, <3>2 DEF Earned, Others
  <2>7. s = "completed" => Earned(r)'
    BY <2>2, <2>5, <2>6, EarnedStays
  <2>8. nameOf' = nameOf
    BY <1>5 DEF ScanControllers
  <2> QED BY <2>2, <2>4, <2>7, <2>8, NoneIsNothing DEF ReaderInv, Statuses, Earned, Others
<1> QED BY <1>1, <1>2, <1>3, <1>4, <1>5, ReaderActs

-----------------------------------------------------------------------------
(* The properties *)

ReadInv == RunsInv /\ HistoryInv /\ IndexInv /\ ReaderInv

LEMMA FormalRunsRead == Spec => []ReadInv
<1>1. Init => ReadInv
  BY RunsStart, HistoryStart, IndexStart, ReaderStart DEF ReadInv
<1>2. ReadInv /\ [Next]_vars => ReadInv'
  BY RunsStep, HistoryStep, IndexStep, ReaderStep DEF ReadInv, RunsGoOn
<1> QED BY <1>1, <1>2, PTL DEF Spec

LEMMA CompletedFollows == ReadInv => CompletedIsEarned
<1> SUFFICES ASSUME ReadInv PROVE CompletedIsEarned
  OBVIOUS
<1>1. reader.status = "completed" => Earned(reader.run)
  BY DEF ReadInv, ReaderInv
<1>2. ASSUME NEW n \in 1..MaxName, MayOpenFolder(n) PROVE Earned(dirs[n].run)
  <2>1. PICK rec : rec = IF n \in HistoryNames THEN HistoryIndex[n].status ELSE None
    OBVIOUS
  <2>2. dirs[n] # None /\ dirs[n].mode = "formal" /\ StatusSeen(n, rec) = "completed"
    BY <1>2, <2>1 DEF MayOpenFolder
  <2>3. rec = "completed" => Completed(n)
    BY <2>1, RecordIsOfTraining, NoneIsNothing DEF ReadInv, Statuses
  <2>4. Completed(n)
    BY <2>2, <2>3, StatusSeenMeans
  <2> QED BY <2>2, <2>4, SourceEarns DEF ReadInv
<1> QED BY <1>1, <1>2 DEF CompletedIsEarned

LEMMA DetailFollows == ReadInv => DetailIsOwn
<1> SUFFICES ASSUME ReadInv, reader.pc = "index", DetailOf(reader.run, reader.name) # None
             PROVE  LET r == reader.run IN
                    \/ RowOf(rows, DetailOf(r, reader.name)).run = r
                    \/ stage[r] = "over" /\ \A i \in DOMAIN hist : hist[i].run # r
  BY DEF DetailIsOwn
<1>1. PICK r : r = reader.run
  OBVIOUS
<1>2. r \in Trainings /\ r \in IdsOf(rows) /\ DetailOf(r, reader.name) = r
  BY <1>1 DEF ReadInv, ReaderInv, DetailOf
<1>3. OneId(rows) /\ \A i \in DOMAIN rows : RowTrue(rows[i])
  BY DEF ReadInv, IndexInv, RowsTrue, OneId
<1>4. PICK i \in DOMAIN rows : rows[i].id = r /\ RowOf(rows, r) = rows[i]
  BY <1>2, <1>3, RowOfIsRow
<1>5. rows[i].run = r \/ (stage[r] = "over" /\ ~InHistory(r))
  BY <1>2, <1>3, <1>4 DEF RowTrue
<1> QED BY <1>1, <1>2, <1>4, <1>5 DEF InHistory

(* What the page shows of a formal run, and where its row leads, is of that *)
(* run.                                                                     *)
THEOREM ProjectionStaysTrue == Spec => []ProjectionIsTrue
BY FormalRunsRead, CompletedFollows, DetailFollows, PTL DEF ProjectionIsTrue

LEMMA CompleteFollows == ReadInv => RebuildIsComplete
<1> SUFFICES ASSUME ReadInv, Built PROVE RebuildIsComplete
  BY DEF RebuildIsComplete
<1>1. PICK t : t = rebuild.table
  OBVIOUS
<1>2. /\ rebuild.pc = "index" /\ rebuild.next > Len(rebuild.facts)
      /\ rebuild.facts \in Seq(Facts) /\ Len(rebuild.facts) \in Nat
      /\ rebuild.next \in 1..Len(rebuild.facts) + 1
  BY DEF Built, ReadInv, HistoryInv, ReadTrue, HistoryTrue
<1>3. /\ t \in Seq(Table) /\ Len(t) = rebuild.next - 1
  BY <1>1 DEF ReadInv, IndexInv, TableFollows
<1>4. DOMAIN t = DOMAIN rebuild.facts
  BY <1>2, <1>3
<1>5. \A i \in DOMAIN t : t[i] = RebuiltRow(i)
  BY <1>1, TableMeans DEF ReadInv
<1>6. ASSUME NEW i \in DOMAIN t, NEW j \in DOMAIN t, i # j PROVE t[i].key # t[j].key /\ t[i].id # t[j].id
  BY <1>4, <1>5, <1>6, RebuiltRowsApart DEF ReadInv
<1>7. ASSUME NEW f \in Range(hist), f.run \in Trainings
      PROVE  \E i \in DOMAIN t : t[i].run = f.run /\ t[i].status = f.status
  <2>1. PICK k \in DOMAIN hist : f = hist[k]
    BY DEF Range
  <2>2. PICK i \in DOMAIN rebuild.facts : rebuild.facts[i] = f
    BY <1>2, <1>7, <2>1 DEF ReadInv, IndexInv, FactsRead
  <2>3. t[i].run = f.run /\ t[i].status = f.status
    BY <1>4, <1>5, <2>2, RebuiltRowMeans DEF ReadInv
  <2> QED BY <1>4, <2>3
<1>8. ASSUME NEW i \in DOMAIN t, t[i].id \in Trainings PROVE t[i].name = nameOf[t[i].id]
  BY <1>2, <1>4, <1>5, <1>8, RebuiltRowIsTrue DEF ReadInv, RowTrue
<1> QED BY <1>1, <1>6, <1>7, <1>8 DEF RebuildIsComplete

(* What a rebuild is about to publish holds every record of a training, each *)
(* once, and none under the id of a training of another directory.           *)
THEOREM RebuildsStayComplete == Spec => []RebuildIsComplete
BY FormalRunsRead, CompleteFollows, PTL

LEMMA IdentityKept ==
  ASSUME ReadInv, [Next]_vars, NEW r \in Trainings, r \in IdsOf(rows), r \notin IdsOf(rows')
  PROVE  RowOf(rows, r).key \notin FactKeys \/ Others(r) # {} \/ rebuild.blind
<1>1. RunsInv /\ HistoryInv /\ IndexInv /\ RunsGoOn
  BY RunsStep DEF ReadInv
<1>2. ASSUME NEW q \in Runs, FinalizeIndex(q), rows' = UpsertRow(rows, Row(FactOfRun(q), RuntimeId(q), datasets))
      PROVE  FALSE
  <2>1. PICK row : row = Row(FactOfRun(q), RuntimeId(q), datasets)
    OBVIOUS
  <2>2. RowTrue(row)' /\ rows' = UpsertRow(rows, row)
    BY <1>1, <1>2, <2>1, RowOfEnd
  <2>3. /\ rows \in Seq(Table) /\ OneId(rows) /\ row \in Table
    BY <1>1, <2>2 DEF IndexInv, RowsTrue, RowTrue, OneId
  <2>4. PICK t : t = rows'
    OBVIOUS
  <2>5. IdsOf(t) = IdsOf(rows) \cup {row.id}
    BY <2>2, <2>3, <2>4, UpsertRowMeans
  <2> QED BY <2>4, <2>5
<1>3. ~(BatchIndexes /\ UNCHANGED <<hist, runVars>>)
  <2> SUFFICES ASSUME BatchIndexes, UNCHANGED <<hist, runVars>> PROVE FALSE
    OBVIOUS
  <2>1. PICK row : row = Row(batch.facts[batch.next], FactKey(batch.facts[batch.next]), datasets)
    OBVIOUS
  <2>2. RowTrue(row)' /\ (rows' = rows \/ rows' = UpsertRow(rows, row))
    BY <1>1, <2>1, RowOfBatch DEF BatchIndexes
  <2>3. /\ rows \in Seq(Table) /\ OneId(rows) /\ row \in Table
    BY <1>1, <2>2 DEF IndexInv, RowsTrue, RowTrue, OneId
  <2>4. PICK t : t = rows'
    OBVIOUS
  <2>5. ASSUME t = UpsertRow(rows, row) PROVE IdsOf(t) = IdsOf(rows) \cup {row.id}
    BY <2>3, <2>5, UpsertRowMeans
  <2> QED BY <2>2, <2>4, <2>5
<1>4. RebuildPublishes
  BY <1>2, <1>3, IndexActs
<1> SUFFICES ASSUME RowOf(rows, r).key \in FactKeys, Others(r) = {}, ~rebuild.blind PROVE FALSE
  OBVIOUS
<1>5. PICK t : t = rebuild.table
  OBVIOUS
<1>6. /\ rebuild.pc = "index" /\ rebuild.next > Len(rebuild.facts) /\ rows' = t
      /\ rebuild.facts \in Seq(Facts) /\ Len(rebuild.facts) \in Nat
      /\ rebuild.next \in 1..Len(rebuild.facts) + 1
  BY <1>1, <1>4, <1>5 DEF RebuildPublishes, Built, HistoryInv, ReadTrue, HistoryTrue
<1>7. DOMAIN t = DOMAIN rebuild.facts
  <2>1. t \in Seq(Table) /\ Len(t) = rebuild.next - 1
    BY <1>1, <1>5 DEF IndexInv, TableFollows
  <2> QED BY <2>1, <1>6
<1>8. \A i \in DOMAIN t : t[i] = RebuiltRow(i)
  BY <1>1, <1>5, TableMeans
<1>9. PICK i \in DOMAIN rows : rows[i].id = r /\ RowOf(rows, r) = rows[i]
  BY <1>1, RowOfIsRow DEF IndexInv, RowsTrue, OneId
<1>10. rows[i].key = JsonId(nameOf[r]) /\ Started(r) /\ r \in Runs
  BY <1>1, <1>9 DEF IndexInv, RowsTrue, RowTrue, Started, Trainings
<1>11. PICK k \in DOMAIN hist : FactKey(hist[k]) = JsonId(nameOf[r])
  BY <1>9, <1>10 DEF FactKeys
<1>12. hist[k].name = nameOf[r]
  BY <1>11, JsonIdIsOwn DEF FactKey
<1>13. hist[k].run = r
  <2>1. hist[k].run \in Runs /\ Started(hist[k].run) /\ nameOf[hist[k].run] = nameOf[r]
    BY <1>1, <1>12 DEF HistoryInv, HistoryTrue, FactTrue, Facts, Started, Recorded
  <2> QED BY <2>1, <1>1, <1>10, NamesakesSame
<1>14. PICK j \in DOMAIN rebuild.facts : rebuild.facts[j] = hist[k]
  BY <1>1, <1>6, <1>13 DEF IndexInv, FactsRead
<1>15. t[j].id = IdFor(JsonId(nameOf[r]), rebuild.keys)
  BY <1>1, <1>7, <1>8, <1>12, <1>14, RebuiltRowMeans
<1>16. IdFor(JsonId(nameOf[r]), rebuild.keys) = r
  BY <1>1, <1>6 DEF IdFor, IndexInv, KeysKnown
<1> QED BY <1>6, <1>7, <1>14, <1>15, <1>16 DEF IdsOf

LEMMA LinksKept ==
  ASSUME ReadInv, Built, rows' = rebuild.table, NEW i \in DOMAIN rows', rows'[i].ds = None
  PROVE  DataOf[rows'[i].run] \in Snapshots \ rebuild.whole
<1>1. PICK f : f = rebuild.facts[i]
  OBVIOUS
<1>2. i \in DOMAIN rebuild.facts /\ rows'[i] = RebuiltRow(i)
  BY TableMeans DEF ReadInv
<1>3. /\ FactTrue(f) /\ rows'[i].run = f.run
      /\ rows'[i].ds = IF f.data \in rebuild.known THEN f.data ELSE None
  BY <1>1, <1>2, RebuiltRowMeans DEF ReadInv
<1>4. f.data = DataOf[f.run] /\ f.data \in Data
  BY <1>3 DEF FactTrue, Facts
<1>5. f.data \notin rebuild.known
  BY <1>3, <1>4, IndexConstants
<1>6. f.data \in Snapshots \ rebuild.whole
  BY <1>1, <1>2, <1>5 DEF ReadInv, IndexInv, FactsRead, Built
<1> QED BY <1>3, <1>4, <1>6

(* The publication of a rebuilt index takes neither a runtime id nor a      *)
(* dataset from a row whose record, manifest and earlier row it could read. *)
THEOREM RebuildsKeep == Spec => RebuildKeeps
<1>1. ReadInv /\ [Next]_vars =>
        [\A r \in Trainings \cap IdsOf(rows) :
           r \notin IdsOf(rows') =>
             RowOf(rows, r).key \notin FactKeys \/ Others(r) # {} \/ rebuild.blind]_vars
  BY IdentityKept
<1>2. ReadInv /\ [Next]_vars =>
        [Built /\ rows' = rebuild.table =>
           \A i \in DOMAIN rows' :
             rows'[i].ds = None => DataOf[rows'[i].run] \in Snapshots \ rebuild.whole]_vars
  BY LinksKept
<1>3. Spec => IdentitySurvivesRebuild
  BY <1>1, FormalRunsRead, PTL DEF Spec, IdentitySurvivesRebuild
<1>4. Spec => LinksSurviveRebuild
  BY <1>2, FormalRunsRead, PTL DEF Spec, LinksSurviveRebuild
<1> QED BY <1>3, <1>4 DEF RebuildKeeps

-----------------------------------------------------------------------------
(* As long as no write has failed *)

LEMMA FaultsGrow == RunsInv /\ [Next]_vars /\ faults' = 0 => faults = 0
<1> SUFFICES ASSUME RunsInv, [Next]_vars, faults # 0, faults # 0 => faults + 1 # 0 PROVE faults' # 0
  BY DEF RunsInv
<1>1. CASE UNCHANGED faults
  BY <1>1
<1>2. CASE faults' = faults + 1
  BY <1>2
<1> QED BY <1>1, <1>2
   DEF Next, MakeDir, Launch, LaunchFails, StartRound, EndRun, EndUnrecorded, FinalizeHistory, FinalizeIndex, EndSession,
       ScanHistory, RemoveDir, ScanDir, ScanControllers, ScanIndex, Maintain, Rebuild, Crash, Restart, vars, indexVars, runVars,
       NoteHistory, NoteIndex, BreakManifest, BatchFails, RebuildReadsKeys, RebuildFails, BackfillBegins

LEMMA WhoIsNoted ==
  ASSUME RunsInv, [Next]_vars, NEW r \in Runs, stage'[r] = "noted"
  PROVE  stage[r] = "noted" \/ FinalizeHistory(r)
BY ZenonT(40) DEF Next, MakeDir, Launch, LaunchFails, StartRound, EndRun, EndUnrecorded, FinalizeHistory, FinalizeIndex, EndSession,
       ScanHistory, RemoveDir, ScanDir, ScanControllers, ScanIndex, Maintain, Rebuild, Crash, Restart, vars, runVars,
       RunsInv, RunsTyped

LEMMA NotedMoves ==
  ASSUME RunsInv, [Next]_vars, NEW r \in Runs, stage[r] = "noted"
  PROVE  \/ stage'[r] = "noted" \/ FinalizeIndex(r)
         \/ up' = FALSE /\ batch' = NoBatch /\ UNCHANGED hist
BY ZenonT(40) DEF Next, MakeDir, Launch, LaunchFails, StartRound, EndRun, EndUnrecorded, FinalizeHistory, FinalizeIndex, EndSession,
       ScanHistory, RemoveDir, ScanDir, ScanControllers, ScanIndex, Maintain, Rebuild, Crash, Restart, vars, runVars,
       RunsInv, RunsTyped

LEMMA DownActs ==
  ASSUME RunsInv, [Next]_vars, ~up, faults = 0, faults' = 0
  PROVE  \/ UNCHANGED <<up, batch>>
         \/ BatchIndexes /\ UNCHANGED <<hist, runVars>>
         \/ BackfillEnds
         \/ BackfillBegins /\ UNCHANGED up
         \/ up' = FALSE /\ batch' = NoBatch
<1>1. 0 # 0 + 1
  OBVIOUS
<1>2. ~ImportEnds
  BY DEF ImportEnds, RunsInv, LoopIsAlone
<1> QED BY <1>1, <1>2
   DEF Next, MakeDir, Launch, LaunchFails, StartRound, EndRun, EndUnrecorded, FinalizeHistory, FinalizeIndex, EndSession,
       ScanHistory, RemoveDir, ScanDir, ScanControllers, ScanIndex, Maintain, Rebuild, Crash, Restart, vars, indexVars, runVars,
       BatchFails, LoopFree

LEMMA KeysLast ==
  ASSUME RunsInv, IndexInv, RunsGoOn, NEW row, RowTrue(row)', rows' = UpsertRow(rows, row)
  PROVE  /\ HasKey(row.key)'
         /\ \A k : HasKey(k) => HasKey(k)' \/ (row.id = Session /\ \E r \in Rounds : k = JsonId(r))
<1>1. PICK t : t = rows'
  OBVIOUS
<1>2. rows \in Seq(Table) /\ OneId(rows) /\ row \in Table
  BY DEF IndexInv, RowsTrue, RowTrue, OneId
<1>3. t = UpsertRow(rows, row)
  BY <1>1
<1>4. DOMAIN rows \subseteq DOMAIN t
  BY <1>2, <1>3, UpsertRowMeans
<1>5. \A i \in DOMAIN rows : t[i] = IF rows[i].id = row.id THEN row ELSE rows[i]
  BY <1>2, <1>3, UpsertRowMeans
<1>6. \E i \in DOMAIN t : t[i] = row
  BY <1>2, <1>3, UpsertRowMeans
<1>7. HasKey(row.key)'
  BY <1>1, <1>6 DEF HasKey
<1>8. ASSUME NEW k, HasKey(k)
      PROVE  HasKey(k)' \/ (row.id = Session /\ \E r \in Rounds : k = JsonId(r))
  <2>0. PICK j \in DOMAIN rows : rows[j].key = k
    BY <1>8 DEF HasKey
  <2>1. PICK old : old = rows[j] /\ old.key = k
    BY <2>0
  <2>2. RowTrue(old)
    BY <2>1 DEF IndexInv, RowsTrue
  <2>3. CASE old.id # row.id
    BY <2>1, <2>3, <1>1, <1>4, <1>5 DEF HasKey
  <2>4. CASE old.id = row.id /\ row.id = Session
    <3>1. old.run \in Rounds /\ old.name = nameOf[old.run] /\ Started(old.run) /\ old.run \in Runs
      BY <2>2, <2>4 DEF RowTrue, Table, Started, Recorded
    <3>2. old.name \in Rounds
      BY <3>1, RoundOfName
    <3> QED BY <2>1, <2>2, <2>4, <3>2 DEF RowTrue
  <2>5. CASE old.id = row.id /\ row.id # Session
    <3>1. CASE row.id \in JsonIds
      <4>1. old.key = row.key
        BY <2>2, <2>5, <3>1 DEF RowTrue
      <4> QED BY <4>1, <2>1, <1>7
    <3>2. CASE row.id \in Trainings
      <4>1. old.key = JsonId(nameOf[row.id]) /\ row.key = JsonId(nameOf'[row.id]) /\ stage[row.id] = "over"
        BY <2>2, <2>5, <3>2 DEF RowTrue
      <4>2. nameOf'[row.id] = nameOf[row.id]
        BY <3>2, <4>1 DEF RunsGoOn, RunsKept, RunKept, Started, Trainings
      <4> QED BY <4>1, <4>2, <2>1, <1>7
    <3>3. row.id \in Ids
      BY <1>2 DEF Table
    <3> QED BY <2>5, <3>1, <3>2, <3>3 DEF Ids
  <2> QED BY <2>3, <2>4, <2>5
<1> QED BY <1>7, <1>8

(* What the history write of a run leaves when it succeeds.                 *)
LEMMA HistoryWritten ==
  ASSUME RunsInv, HistoryInv, NEW r \in Runs, FinalizeHistory(r), faults = 0, faults' = 0
  PROVE  1 \in DOMAIN hist' /\ hist'[1] = FactOfRun(r)
<1>1. PICK f : f = FactOfRun(r)
  OBVIOUS
<1>2. PICK h : h = hist'
  OBVIOUS
<1>3. faults' # faults + 1
  OBVIOUS
<1>4. h = Upserted(hist, f)
  BY <1>1, <1>2, <1>3 DEF FinalizeHistory, NoteHistory
<1>5. hist \in Seq(Facts) /\ OneName(hist)
  BY DEF HistoryInv, HistoryTrue, OneName
<1>6. nameOf[r] \in Names /\ outcome[r] \in Statuses /\ DataOf[r] \in Data
  BY IndexConstants DEF FinalizeHistory, RunsInv, RunsTyped, RunTyped, Started, Names
<1>7. f \in Facts
  BY <1>1, <1>6 DEF FactOfRun, Fact, Facts
<1>8. 1 \in DOMAIN h
  BY <1>4, <1>5, <1>7, UpsertedMeans
<1>9. h[1] = f
  BY <1>4, <1>5, <1>7, UpsertedMeans
<1> QED BY <1>1, <1>2, <1>8, <1>9

LEMMA NotedStays ==
  ASSUME RunsInv, HistoryInv, QuietInv, [Next]_vars, faults = 0, faults' = 0
  PROVE  NotedIsFirst'
<1> SUFFICES ASSUME NEW r \in Runs, stage'[r] = "noted" PROVE 1 \in DOMAIN hist' /\ hist'[1].run = r
  BY DEF NotedIsFirst
<1>1. CASE FinalizeHistory(r)
  <2>1. 1 \in DOMAIN hist' /\ hist'[1] = FactOfRun(r)
    BY <1>1, HistoryWritten
  <2>2. FactOfRun(r).run = r
    BY DEF FactOfRun, Fact
  <2> QED BY <2>1, <2>2
<1>2. CASE stage[r] = "noted" /\ ~FinalizeHistory(r)
  <2>1. ASSUME NEW q \in Runs, FinalizeHistory(q) PROVE FALSE
    BY <1>2, <2>1 DEF FinalizeHistory, RunsInv, Alone, Active
  <2>2. UNCHANGED hist
    BY <2>1, OnlyRunsWriteHistory
  <2> QED BY <1>2, <2>2 DEF QuietInv, NotedIsFirst
<1> QED BY <1>1, <1>2, WhoIsNoted

LEMMA NotedName ==
  ASSUME HistoryInv, QuietInv, faults = 0, NEW r \in Runs, stage[r] = "noted"
  PROVE  nameOf[r] \in HistoryNames
<1>1. 1 \in DOMAIN hist /\ hist[1].run = r
  BY DEF QuietInv, NotedIsFirst
<1>2. hist[1].name = nameOf[r]
  BY <1>1 DEF HistoryInv, HistoryTrue, FactTrue
<1> QED BY <1>1, <1>2 DEF HistoryNames

LEMMA RecordedUpserts ==
  ASSUME RowsRecorded, IndexInv, NEW row, row.name \in HistoryNames', HistoryNames \subseteq HistoryNames',
         row \in Table, rows' = UpsertRow(rows, row)
  PROVE  RowsRecorded'
<1>1. PICK t : t = rows'
  OBVIOUS
<1>2. rows \in Seq(Table) /\ OneId(rows) /\ t = UpsertRow(rows, row)
  BY <1>1 DEF IndexInv, RowsTrue, OneId
<1>3. \A i \in DOMAIN rows : t[i] = IF rows[i].id = row.id THEN row ELSE rows[i]
  BY <1>2, UpsertRowMeans
<1>4. \A i \in DOMAIN t \ DOMAIN rows : t[i] = row /\ row.id \notin IdsOf(rows) /\ \A j \in DOMAIN t : j <= i
  BY <1>2, UpsertRowMeans
<1>5. \A i \in DOMAIN t : t[i] = row \/ \E j \in DOMAIN rows : t[i] = rows[j]
  BY <1>3, <1>4
<1> QED BY <1>1, <1>5 DEF RowsRecorded

LEMMA RecordedStays ==
  ASSUME RunsInv, HistoryInv, IndexInv, QuietInv, [Next]_vars, RunsGoOn, faults = 0, faults' = 0
  PROVE  RowsRecorded'
<1>0. RowsRecorded /\ HistoryNames \subseteq HistoryNames'
  BY HistoryGrows DEF QuietInv, HistoryInv
<1>1. CASE UNCHANGED rows
  BY <1>0, <1>1 DEF RowsRecorded
<1>2. ASSUME NEW r \in Runs, FinalizeIndex(r), rows' = UpsertRow(rows, Row(FactOfRun(r), RuntimeId(r), datasets))
      PROVE  RowsRecorded'
  <2>1. PICK row : row = Row(FactOfRun(r), RuntimeId(r), datasets)
    OBVIOUS
  <2>2. RowTrue(row)' /\ rows' = UpsertRow(rows, row)
    BY <1>2, <2>1, RowOfEnd
  <2>3. row \in Table
    BY <2>2 DEF RowTrue
  <2>4. row.name = nameOf[r] /\ nameOf[r] \in HistoryNames
    BY <1>2, <2>1, NotedName DEF Row, FactOfRun, Fact, FinalizeIndex
  <2> QED BY <1>0, <2>2, <2>3, <2>4, RecordedUpserts
<1>3. CASE BatchIndexes /\ UNCHANGED <<hist, runVars>> /\ ~UNCHANGED rows
  <2>1. PICK row : row = Row(batch.facts[batch.next], FactKey(batch.facts[batch.next]), datasets)
    OBVIOUS
  <2>2. RowTrue(row)' /\ rows' = UpsertRow(rows, row)
    BY <1>3, <2>1, RowOfBatch DEF BatchIndexes
  <2>3. row \in Table /\ row.name = batch.facts[batch.next].name
    BY <2>1, <2>2 DEF RowTrue, Row
  <2>4. batch.next \in DOMAIN batch.facts
    BY <1>3 DEF HistoryInv, ReadTrue, HistoryTrue, BatchIndexes
  <2>5. row.name \in HistoryNames
    BY <2>3, <2>4 DEF HistoryInv, ReadTrue
  <2> QED BY <1>0, <2>2, <2>3, <2>5, RecordedUpserts
<1>4. CASE RebuildPublishes
  <2>1. PICK t : t = rebuild.table
    OBVIOUS
  <2>2. rows' = t /\ \A i \in DOMAIN t : i \in DOMAIN rebuild.facts /\ t[i] = RebuiltRow(i)
    BY <1>4, <2>1, TableMeans DEF RebuildPublishes
  <2>3. \A i \in DOMAIN t : t[i].name = rebuild.facts[i].name
    BY <2>2, RebuiltRowMeans
  <2>4. \A i \in DOMAIN t : t[i].name \in HistoryNames
    BY <2>2, <2>3 DEF HistoryInv, ReadTrue
  <2> QED BY <1>0, <2>2, <2>4 DEF RowsRecorded
<1> QED BY <1>1, <1>2, <1>3, <1>4, IndexActs

(* What a backfill has looked at is still so.                               *)
LEMMA LooksStay ==
  ASSUME RunsInv, HistoryInv, IndexInv, QuietInv, [Next]_vars, RunsGoOn, faults = 0, faults' = 0
  PROVE  BackfillLooks'
<1>0. DOMAIN batch = {"pc", "facts", "next", "keys"} /\ BackfillLooks
  BY DEF RunsInv, BatchTyped, QuietInv
<1>1. CASE batch'.pc = "idle"
  BY <1>1 DEF BackfillLooks
<1>2. CASE UNCHANGED <<batch.pc, batch.facts, batch.keys>> /\ batch.pc # "idle"
  <2>1. CASE batch.pc = "import"
    BY <1>0, <1>2, <2>1 DEF BackfillLooks
  <2>2. CASE batch.pc = "backfill"
    <3>1. ~up
      BY <2>2 DEF RunsInv, LoopIsAlone
    <3>2. hist' = hist
      BY <3>1, OnlyRunsWriteHistory DEF FinalizeHistory
    <3>3. ASSUME NEW k \in batch.keys PROVE HasKey(k)'
      <4>1. HasKey(k)
        BY <1>0, <2>2 DEF BackfillLooks
      <4>2. CASE UNCHANGED rows
        BY <4>1, <4>2 DEF HasKey
      <4>3. CASE BatchIndexes /\ UNCHANGED <<hist, runVars>> /\ ~UNCHANGED rows
        <5>1. PICK row : row = Row(batch.facts[batch.next], FactKey(batch.facts[batch.next]), datasets)
          OBVIOUS
        <5>2. RowTrue(row)' /\ rows' = UpsertRow(rows, row)
          BY <4>3, <5>1, RowOfBatch DEF BatchIndexes
        <5>3. row.id # Session
          <6>1. batch.next \in DOMAIN batch.facts
            BY <4>3 DEF HistoryInv, ReadTrue, HistoryTrue, BatchIndexes
          <6>2. batch.facts[batch.next].name \in Names
            BY <6>1 DEF HistoryInv, ReadTrue, HistoryTrue, FactTrue, Facts
          <6> QED BY <5>1, <6>2, IdsApart DEF Row, FactKey
        <5> QED BY <4>1, <5>2, <5>3, KeysLast
      <4>4. ~RebuildPublishes
        BY <2>2 DEF RebuildPublishes, Built, RunsInv, LoopIsAlone
      <4>5. \A r \in Runs : ~FinalizeIndex(r)
        BY <3>1 DEF FinalizeIndex
      <4> QED BY <4>2, <4>3, <4>4, <4>5, IndexActs
    <3>4. PICK K : K = batch.keys
      OBVIOUS
    <3>5. \A k \in K : HasKey(k)'
      BY <3>3, <3>4
    <3> QED BY <1>0, <1>2, <2>2, <3>2, <3>4, <3>5 DEF BackfillLooks
  <2> QED BY <1>2, <2>1, <2>2 DEF RunsInv, BatchTyped
<1>3. CASE ImportBegins
  <2>1. batch'.pc = "import" /\ batch'.keys = {}
    BY <1>3 DEF ImportBegins, NoBatch
  <2> QED BY <2>1 DEF BackfillLooks
<1>4. CASE BackfillBegins /\ UNCHANGED <<hist, stage>> /\ ~up
  <2>1. PICK n : n = Min({Len(hist), MaxBackfill})
    OBVIOUS
  <2>2. PICK keys \in {DOMAIN KeyMap(rows), {}} :
          batch' = [pc |-> "backfill", next |-> 1, keys |-> keys, facts |-> SubSeq(hist, 1, n)]
    BY <1>4, <2>1 DEF BackfillBegins
  <2>3. batch'.pc = "backfill" /\ batch'.keys = keys /\ batch'.facts = SubSeq(hist, 1, n)
    BY <2>2
  <2>4. hist \in Seq(Facts) /\ Len(hist) \in Nat
    BY DEF HistoryInv, HistoryTrue
  <2>5. ASSUME 1 \in DOMAIN hist PROVE 1 \in DOMAIN SubSeq(hist, 1, n) /\ SubSeq(hist, 1, n)[1] = hist[1]
    <3>1. {Len(hist), MaxBackfill} \in SUBSET Nat /\ {Len(hist), MaxBackfill} # {}
      BY <2>4, IndexConstants
    <3>2. n \in {Len(hist), MaxBackfill} /\ n <= Len(hist)
      BY <2>1, <3>1, LeastOfNats
    <3>3. n \in 1..Len(hist)
      BY <2>4, <2>5, <3>2, IndexConstants
    <3> QED BY <2>4, <3>3
  <2>6. rows' = rows
    <3>1. ~BatchIndexes
      BY <1>4 DEF BatchIndexes, BackfillBegins
    <3>2. ~RebuildPublishes
      BY <1>4 DEF RebuildPublishes, Built, RunsInv, LoopIsAlone
    <3>3. \A r \in Runs : ~FinalizeIndex(r)
      BY <1>4 DEF FinalizeIndex
    <3> QED BY <3>1, <3>2, <3>3, IndexActs
  <2>7. ASSUME NEW k \in keys PROVE \E j \in DOMAIN rows : rows[j].key = k
    <3>1. rows \in Seq(Table)
      BY DEF IndexInv, RowsTrue
    <3>2. k \in DOMAIN KeyMap(rows)
      BY <2>2
    <3>3. DOMAIN KeyMap(rows) = {rows[j].key : j \in DOMAIN rows}
      BY <3>1, KeyMapMeans
    <3> QED BY <3>2, <3>3
  <2> QED BY <1>4, <2>3, <2>5, <2>6, <2>7 DEF BackfillLooks, HasKey
<1>5. CASE BatchIndexes
  <2>1. batch' = [batch EXCEPT !.next = @ + 1] /\ batch.pc # "idle"
    BY <1>5 DEF BatchIndexes
  <2> QED BY <1>0, <1>2, <2>1
<1>6. ~BatchFails
  BY DEF BatchFails
<1>7. CASE batch' = NoBatch
  BY <1>1, <1>7 DEF NoBatch
<1>8. CASE UNCHANGED batch
  BY <1>1, <1>2, <1>8
<1> QED BY <1>3, <1>4, <1>5, <1>6, <1>7, <1>8, BatchActs

LEMMA TrainingKey ==
  ASSUME RunsInv, NEW f, FactTrue(f), f.run \in Trainings
  PROVE  ~\E r \in Rounds : FactKey(f) = JsonId(r)
<1>1. f.run \in Runs /\ Started(f.run) /\ f.name = nameOf[f.run]
  BY DEF FactTrue, Facts, Started, Recorded
<1> QED BY <1>1, RoundOfName, JsonIdIsOwn DEF FactKey

(* A row once there stays, under whatever id.                               *)
LEMMA KeyStays ==
  ASSUME RunsInv, HistoryInv, IndexInv, [Next]_vars, RunsGoOn, NEW f, NEW i \in DOMAIN hist, f = hist[i],
         f.run \in Trainings, HasKey(FactKey(f))
  PROVE  HasKey(FactKey(f))'
<1>1. PICK k : k = FactKey(f)
  OBVIOUS
<1>2. FactTrue(f) /\ HasKey(k) /\ ~\E r \in Rounds : k = JsonId(r)
  BY <1>1, TrainingKey DEF HistoryInv, HistoryTrue
<1>3. ASSUME UNCHANGED rows PROVE HasKey(k)'
  BY <1>2, <1>3, <1>1 DEF HasKey
<1>4. ASSUME NEW r \in Runs, FinalizeIndex(r), rows' = UpsertRow(rows, Row(FactOfRun(r), RuntimeId(r), datasets))
      PROVE  HasKey(k)'
  <2>1. PICK row : row = Row(FactOfRun(r), RuntimeId(r), datasets)
    OBVIOUS
  <2>2. RowTrue(row)' /\ rows' = UpsertRow(rows, row)
    BY <1>4, <2>1, RowOfEnd
  <2>3. HasKey(k)' \/ \E q \in Rounds : k = JsonId(q)
    BY <1>2, <2>2, KeysLast
  <2> QED BY <1>2, <2>3
<1>5. ASSUME BatchIndexes, UNCHANGED <<hist, runVars>>, ~UNCHANGED rows PROVE HasKey(k)'
  <2>1. PICK row : row = Row(batch.facts[batch.next], FactKey(batch.facts[batch.next]), datasets)
    OBVIOUS
  <2>2. RowTrue(row)' /\ rows' = UpsertRow(rows, row)
    BY <1>5, <2>1, RowOfBatch DEF BatchIndexes
  <2>3. row.id # Session
    <3>1. batch.next \in DOMAIN batch.facts
      BY <1>5 DEF HistoryInv, ReadTrue, HistoryTrue, BatchIndexes
    <3>2. batch.facts[batch.next].name \in Names
      BY <3>1 DEF HistoryInv, ReadTrue, HistoryTrue, FactTrue, Facts
    <3> QED BY <2>1, <3>2, IdsApart DEF Row, FactKey
  <2> QED BY <1>2, <2>2, <2>3, KeysLast
<1>6. ASSUME RebuildPublishes PROVE HasKey(k)'
  <2>1. PICK t : t = rebuild.table
    OBVIOUS
  <2>2. /\ rebuild.pc = "index" /\ rebuild.next > Len(rebuild.facts) /\ rows' = t
        /\ rebuild.facts \in Seq(Facts) /\ Len(rebuild.facts) \in Nat
        /\ rebuild.next \in 1..Len(rebuild.facts) + 1
    BY <1>6, <2>1 DEF RebuildPublishes, Built, HistoryInv, ReadTrue, HistoryTrue
  <2>3. t \in Seq(Table) /\ Len(t) = rebuild.next - 1
    BY <2>1 DEF IndexInv, TableFollows
  <2>4. DOMAIN t = DOMAIN rebuild.facts
    BY <2>2, <2>3
  <2>5. PICK j \in DOMAIN rebuild.facts : rebuild.facts[j] = f
    BY <2>2 DEF IndexInv, FactsRead
  <2>6. t[j] = RebuiltRow(j)
    BY <2>1, <2>4, <2>5, TableMeans
  <2>7. RebuiltRow(j).key = JsonId(f.name)
    BY <2>5, RebuiltRowMeans
  <2> QED BY <1>1, <2>2, <2>4, <2>5, <2>6, <2>7 DEF HasKey, FactKey
<1>7. HasKey(k)'
  <2>1. CASE \E r \in Runs : FinalizeIndex(r) /\ rows' = UpsertRow(rows, Row(FactOfRun(r), RuntimeId(r), datasets))
    BY <2>1, <1>4
  <2> QED BY <2>1, <1>3, <1>5, <1>6, IndexActs
<1> QED BY <1>1, <1>7 DEF FactKey

(* The run that is between its two writes gets its row, or is found by the  *)
(* backfill after a crash.                                                  *)
LEMMA NotedGetsRow ==
  ASSUME RunsInv, HistoryInv, IndexInv, QuietInv, [Next]_vars, RunsGoOn, faults = 0, faults' = 0,
         NEW i \in DOMAIN hist, NEW r \in Trainings, hist[i].run = r, stage[r] = "noted", NEW k, k = FactKey(hist[i])
  PROVE  \/ HasKey(k)'
         \/ stage'[r] = "noted"
         \/ ~up' /\ i = 1 /\ ~(batch'.pc = "backfill" /\ batch'.next > 1)
<1>0. r \in Runs /\ k = JsonId(nameOf[r]) /\ hist[i].name = nameOf[r]
  BY DEF Trainings, FactKey, HistoryInv, HistoryTrue, FactTrue
<1>1. CASE FinalizeIndex(r)
  <2>1. PICK row : row = Row(FactOfRun(r), RuntimeId(r), datasets)
    OBVIOUS
  <2>2. faults' # faults + 1 /\ r \notin Rounds
    BY DEF Trainings
  <2>3. rows' = UpsertRow(rows, row)
    BY <1>1, <2>1, <2>2 DEF FinalizeIndex, NoteIndex, FactOfRun, Fact
  <2>4. RowTrue(row)'
    BY <1>0, <1>1, <2>1, RowOfEnd
  <2>5. HasKey(row.key)'
    BY <2>3, <2>4, KeysLast
  <2>6. row.key = k
    BY <1>0, <2>1 DEF Row, FactOfRun, Fact, FactKey
  <2> QED BY <2>5, <2>6
<1>2. CASE up' = FALSE /\ batch' = NoBatch /\ UNCHANGED hist
  <2>1. 1 \in DOMAIN hist /\ hist[1].run = r
    BY <1>0 DEF QuietInv, NotedIsFirst
  <2>2. hist[1].name = nameOf[r]
    BY <2>1 DEF HistoryInv, HistoryTrue, FactTrue
  <2>3. i = 1
    BY <1>0, <2>1, <2>2 DEF HistoryInv, HistoryTrue
  <2> QED BY <1>2, <2>3 DEF NoBatch
<1> QED BY <1>0, <1>1, <1>2, NotedMoves

(* The record a crash left without a row is the newest, and the first the   *)
(* backfill looks at.                                                       *)
LEMMA BackfillGivesRow ==
  ASSUME RunsInv, HistoryInv, IndexInv, QuietInv, [Next]_vars, RunsGoOn, faults = 0, faults' = 0,
         1 \in DOMAIN hist, NEW k, k = FactKey(hist[1]),
         ~up, ~(batch.pc = "backfill" /\ batch.next > 1)
  PROVE  \/ HasKey(k)'
         \/ ~up' /\ ~(batch'.pc = "backfill" /\ batch'.next > 1)
<1>0. /\ batch.pc # "idle" => batch.pc = "backfill"
      /\ batch.facts \in Seq(Facts) /\ Len(batch.facts) \in Nat /\ batch.next \in 1..Len(batch.facts) + 1
  BY DEF RunsInv, BatchTyped, LoopIsAlone, HistoryInv, ReadTrue, HistoryTrue
<1>1. CASE UNCHANGED <<up, batch>>
  BY <1>1
<1>2. CASE BatchIndexes /\ UNCHANGED <<hist, runVars>>
  <2>1. batch.pc = "backfill" /\ batch.next = 1 /\ batch.facts[1] = hist[1]
    BY <1>0, <1>2 DEF BatchIndexes, QuietInv, BackfillLooks
  <2>2. PICK row : row = Row(batch.facts[batch.next], FactKey(batch.facts[batch.next]), datasets)
    OBVIOUS
  <2>3. row.key = k
    BY <2>1, <2>2 DEF Row, FactKey
  <2>4. CASE k \in batch.keys
    <3>1. HasKey(k)
      BY <2>1, <2>4 DEF QuietInv, BackfillLooks
    <3>2. rows' = rows
      BY <1>2, <2>1, <2>4 DEF BatchIndexes
    <3> QED BY <3>1, <3>2 DEF HasKey
  <2>5. CASE k \notin batch.keys
    <3>1. rows' = UpsertRow(rows, row)
      BY <1>2, <2>1, <2>2, <2>5 DEF BatchIndexes
    <3>2. RowTrue(row)'
      BY <1>2, <2>2, RowOfBatch
    <3>3. HasKey(row.key)'
      BY <3>1, <3>2, KeysLast
    <3> QED BY <2>3, <3>3
  <2> QED BY <2>4, <2>5
<1>3. ~BackfillEnds
  <2>1. ASSUME BackfillEnds PROVE FALSE
    <3>1. batch.pc = "backfill" /\ batch.next = 1 /\ batch.next > Len(batch.facts)
      BY <1>0, <2>1 DEF BackfillEnds
    <3>2. 1 \in DOMAIN batch.facts
      BY <3>1 DEF QuietInv, BackfillLooks
    <3> QED BY <1>0, <3>1, <3>2
  <2> QED BY <2>1
<1>4. CASE BackfillBegins /\ UNCHANGED up
  <2>1. \E keys, facts : batch' = [pc |-> "backfill", next |-> 1, keys |-> keys, facts |-> facts]
    BY <1>4 DEF BackfillBegins
  <2>2. batch'.next = 1
    BY <2>1
  <2> QED BY <1>4, <2>2
<1>5. CASE up' = FALSE /\ batch' = NoBatch
  BY <1>5 DEF NoBatch
<1> QED BY <1>1, <1>2, <1>3, <1>4, <1>5, DownActs

LEMMA RowsFollow ==
  ASSUME RunsInv, HistoryInv, IndexInv, QuietInv, [Next]_vars, RunsGoOn, faults = 0, faults' = 0
  PROVE  RecordsHaveRows'
<1> SUFFICES ASSUME NEW i \in DOMAIN hist', NEW f, f = hist'[i], f.run \in Trainings, NEW k, k = FactKey(f)
             PROVE  \/ HasKey(k)'
                    \/ stage'[f.run] = "noted"
                    \/ ~up' /\ i = 1 /\ ~(batch'.pc = "backfill" /\ batch'.next > 1)
  BY DEF RecordsHaveRows, HasKey
<1>1. ASSUME NEW r \in Runs, FinalizeHistory(r), f = FactOfRun(r)
      PROVE  stage'[f.run] = "noted"
  BY <1>1 DEF FinalizeHistory, FactOfRun, Fact, RunsInv, RunsTyped
<1>2. ASSUME NEW r \in Runs, FinalizeHistory(r), f # FactOfRun(r)
      PROVE  HasKey(k)'
  <2>1. PICK j \in DOMAIN hist : f = hist[j]
    <3>1. ASSUME NEW q \in Runs, stage[q] = "ended" PROVE q = r
      BY <1>2, <3>1 DEF FinalizeHistory, RunsInv, Alone, Active
    <3> QED BY <1>2, <3>1, RecordIsNew
  <2>2. up /\ stage[r] = "ended"
    BY <1>2 DEF FinalizeHistory
  <2>3. stage[f.run] # "noted"
    <3>1. f.run \in Runs /\ (stage[f.run] = "noted" => f.run = r)
      BY <2>2 DEF RunsInv, Alone, Active, Trainings
    <3> QED BY <2>2, <3>1
  <2>4. HasKey(k)
    BY <2>1, <2>2, <2>3 DEF QuietInv, RecordsHaveRows
  <2> QED BY <2>1, <2>4, KeyStays
<1>3. CASE UNCHANGED hist
  <2>1. i \in DOMAIN hist /\ f = hist[i]
    BY <1>3
  <2>2. CASE HasKey(k)
    BY <2>1, <2>2, KeyStays
  <2>3. CASE stage[f.run] = "noted"
    BY <2>1, <2>3, NotedGetsRow
  <2>4. CASE ~up /\ i = 1 /\ ~(batch.pc = "backfill" /\ batch.next > 1)
    BY <2>1, <2>4, BackfillGivesRow
  <2> QED BY <2>1, <2>2, <2>3, <2>4 DEF QuietInv, RecordsHaveRows
<1> QED BY <1>1, <1>2, <1>3, OnlyRunsWriteHistory

LEMMA QuietStart == Init => QuietInv
<1> SUFFICES ASSUME Init PROVE QuietInv
  OBVIOUS
<1>1. hist = <<>> /\ rows = <<>> /\ DOMAIN hist = {} /\ DOMAIN rows = {}
  BY DEF Init, IndexInit
<1>2. batch.pc = "idle" /\ \A r \in Runs : stage[r] = "new"
  BY DEF Init, IndexInit, NoBatch
<1> QED BY <1>1, <1>2 DEF QuietInv, RowsRecorded, NotedIsFirst, BackfillLooks, RecordsHaveRows

LEMMA QuietStep ==
  RunsInv /\ HistoryInv /\ IndexInv /\ QuietInv /\ [Next]_vars /\ RunsGoOn => QuietInv'
BY FaultsGrow, NotedStays, RecordedStays, LooksStay, RowsFollow DEF QuietInv

(* The inductive invariant, whole.                                          *)
THEOREM FormalRunsInvariant == Spec => []IInv
<1>1. Init => IInv
  BY RunsStart, HistoryStart, IndexStart, ReaderStart, QuietStart DEF IInv
<1>2. IInv /\ [Next]_vars => IInv'
  BY RunsStep, HistoryStep, IndexStep, ReaderStep, QuietStep DEF IInv, RunsGoOn
<1> QED BY <1>1, <1>2, PTL DEF Spec

LEMMA AuditFollows == IInv => AuditIsQuiet
<1> SUFFICES ASSUME IInv, up, faults = 0, \A r \in Runs : stage[r] # "noted", \A r \in Trainings : Others(r) = {}
             PROVE  /\ StatusMismatch = {} /\ ExtraInIndex = {}
                    /\ \A k \in MissingInIndex : FactOf(k).run \in Rounds
  BY DEF AuditIsQuiet
<1>1. /\ rows \in Seq(Table) /\ OneId(rows) /\ \A i \in DOMAIN rows : RowTrue(rows[i])
      /\ OneName(hist) /\ \A i \in DOMAIN hist : FactTrue(hist[i])
      /\ RowsRecorded /\ RecordsHaveRows
  BY DEF IInv, IndexInv, RowsTrue, HistoryInv, HistoryTrue, QuietInv, OneId, OneName
<1>2. DOMAIN KeyMap(rows) = {rows[i].key : i \in DOMAIN rows}
  BY <1>1, KeyMapMeans
<1>3. \A k \in DOMAIN KeyMap(rows) :
        \E i \in DOMAIN rows :
          /\ rows[i].key = k /\ KeyMap(rows)[k] = rows[i].id
          /\ \A j \in DOMAIN rows : rows[j].key = k => i <= j
  BY <1>1, KeyMapMeans
<1>4. ASSUME NEW k \in StatusMismatch PROVE FALSE
  <2>1. k \in FactKeys /\ k \in DOMAIN KeyMap(rows)
        /\ RowOf(rows, KeyMap(rows)[k]).status # FactOf(k).status
    BY DEF StatusMismatch, MissingInIndex
  <2>2. PICK f \in DOMAIN hist : k = JsonId(hist[f].name) /\ FactOf(k) = hist[f]
    BY <1>1, <2>1, FactOfMeans DEF FactKeys, FactKey
  <2>3. PICK i \in DOMAIN rows : rows[i].key = k /\ RowOf(rows, KeyMap(rows)[k]) = rows[i]
    BY <1>1, <1>3, <2>1, RowOfMeans
  <2>4. PICK q, r : q = hist[f].run /\ r = rows[i].run
    OBVIOUS
  <2>5. /\ q \in Runs /\ Started(q) /\ nameOf[q] = hist[f].name /\ outcome[q] = hist[f].status
        /\ r \in Runs /\ Started(r) /\ nameOf[r] = rows[i].name /\ outcome[r] = rows[i].status
        /\ k = JsonId(rows[i].name)
    BY <1>1, <2>3, <2>4 DEF FactTrue, Facts, RowTrue, Table, Started, Recorded
  <2>6. nameOf[q] = nameOf[r]
    BY <2>2, <2>5, JsonIdIsOwn
  <2>7. q = r
    <3>1. CASE r \in Trainings
      BY <3>1, <2>5, <2>6, NamesakesSame DEF IInv
    <3>2. CASE r \notin Trainings
      <4>1. r \in Rounds
        BY <2>5, <3>2 DEF Trainings
      <4> QED BY <4>1, <2>5, <2>6, RoundOfName DEF IInv
    <3> QED BY <3>1, <3>2
  <2> QED BY <2>1, <2>2, <2>3, <2>5, <2>7
<1>5. ASSUME NEW k \in ExtraInIndex PROVE FALSE
  <2>1. PICK i \in DOMAIN rows : rows[i].key = k
    BY <1>2 DEF ExtraInIndex
  <2>2. k = JsonId(rows[i].name) /\ rows[i].name \in HistoryNames
    BY <1>1, <2>1 DEF RowTrue, RowsRecorded
  <2> QED BY <2>2 DEF ExtraInIndex, HistoryNames, FactKeys, FactKey
<1>6. ASSUME NEW k \in MissingInIndex PROVE FactOf(k).run \in Rounds
  <2>1. k \in FactKeys /\ ~HasKey(k)
    BY <1>2 DEF MissingInIndex, HasKey
  <2>2. PICK i \in DOMAIN hist : k = FactKey(hist[i]) /\ FactOf(k) = hist[i]
    BY <1>1, <2>1, FactOfMeans DEF FactKeys, FactKey
  <2>3. hist[i].run \notin Trainings /\ hist[i].run \in Runs
    BY <1>1, <2>1, <2>2 DEF RecordsHaveRows, FactTrue, Facts, Trainings
  <2> QED BY <2>2, <2>3 DEF Trainings
<1> QED BY <1>4, <1>5, <1>6

(* Between two writes of a training, and as long as no write failed and no  *)
(* directory name was used twice, the comparison of the history and the     *)
(* index reports nothing about a training, after a crash as well.           *)
THEOREM AuditStaysQuiet == Spec => []AuditIsQuiet
BY FormalRunsInvariant, AuditFollows, PTL
=============================================================================
