----------------------- MODULE ReferenceDatasetProofs -----------------------
(* What a snapshot holds, who makes it and who trains on it, for any       *)
(* number of directories, files, requests, trainings, edits and faults.    *)
EXTENDS ReferenceDataset, WellFoundedInduction, FiniteSetTheorems, TLAPS

Values == Contents \cup {0}
Partial == UNION {[S -> Values] : S \in SUBSET Files}

Making == {"lock", "locked", "copy", "copied"}
Holders == {"locked", "copy", "copied", "published"}
Made == {"published", "register", "index"}
Phases == {"new", "plan", "answered"} \cup Making \cup Made

(* What a request q is at every phase.  Ids are left untyped: the argument *)
(* needs two fields of them, and those only of a request past its plan.    *)
ReqFields == {"pc", "root", "seed", "plan", "id", "temp", "file"}

Requested(q) ==
  /\ DOMAIN q = ReqFields /\ q.pc \in Phases
  /\ q.pc \notin {"new", "answered"} => q.root \in Roots
  /\ q.plan \in Partial /\ q.temp \in Partial
  /\ q.pc = "copied" => q.file \in Files \ DOMAIN q.temp

(* A request copies what it planned, under the identity of the plan.       *)
CopyFollowsPlan(q) ==
  /\ q.pc = "plan" => DOMAIN q.temp = {}
  /\ q.pc \in Making =>
       /\ DOMAIN q.plan = Files /\ q.id.samples = q.plan
       /\ \A f \in DOMAIN q.temp : q.temp[f] = q.plan[f]

LayoutIsOfRoot(q) ==
  q.pc \in Making \cup Made => (q.id.layout = "presplit") = (q.root \in Presplit)

Whole(q) == Requested(q) /\ CopyFollowsPlan(q) /\ LayoutIsOfRoot(q)

(* Snapshots are numbered in the order they were published.                *)
Stored(id) ==
  /\ final[id] \in [files : [Files -> Values \cup {None}], root : Roots, born : Nat]
  /\ final[id].born < Cardinality(DOMAIN final)

SourceInv ==
  /\ source \in [Roots -> [Files -> Values]]
  /\ latest # None => latest.root \in Roots

ReqInv == DOMAIN req = Requests /\ \A r \in Requests : Whole(req[r])

MadeInv == \A r \in Requests : req[r].pc \in Made => req[r].id \in DOMAIN final

FinalInv == IsFiniteSet(DOMAIN final) /\ \A id \in DOMAIN final : Stored(id)

SnapshotInv ==
  /\ SourceInv /\ ReqInv /\ MadeInv /\ FinalInv
  /\ PublishedIsPlanned /\ OneMaker /\ LatestIsPublished

-----------------------------------------------------------------------------
(* A file copied into a partial directory.                                 *)
LEMMA PartialFields ==
  ASSUME NEW h \in Partial
  PROVE  DOMAIN h \subseteq Files /\ h \in [DOMAIN h -> Values]
BY DEF Partial

LEMMA PartialAdded ==
  ASSUME NEW h \in Partial, NEW f \in Files, NEW v \in Values
  PROVE  [g \in DOMAIN h \union {f} |-> IF g = f THEN v ELSE h[g]] \in Partial
<1> DEFINE k == [g \in DOMAIN h \union {f} |-> IF g = f THEN v ELSE h[g]]
<1>1. k \in [DOMAIN h \union {f} -> Values]
  BY PartialFields
<1> QED BY <1>1, PartialFields DEF Partial

LEMMA NothingCopied == <<>> \in Partial /\ DOMAIN <<>> = {}
<1>1. <<>> \in [{} -> Values]
  OBVIOUS
<1> QED BY <1>1 DEF Partial

LEMMA WalkedFields ==
  ASSUME NEW done, done \subseteq Files, done # Files
  PROVE  Walked(done) \in Files /\ Walked(done) \notin done
<1>1. \E f \in Files : f \notin done
  OBVIOUS
<1> QED BY <1>1 DEF Walked

(* The records a request moves to.                                         *)
LEMMA NewIsWhole == Whole(New) /\ New.pc = "new" /\ Whole(Answered) /\ Answered.pc = "answered"
BY NothingCopied DEF Whole, Requested, CopyFollowsPlan, LayoutIsOfRoot, New, Answered,
   ReqFields, Phases, Making, Made

LEMMA HoldingIsWhole ==
  ASSUME NEW r \in Requests, NEW pc \in Made, NEW id, req[r].root \in Roots,
         (id.layout = "presplit") = (req[r].root \in Presplit)
  PROVE  /\ Whole(Holding(r, pc, id))
         /\ Holding(r, pc, id).pc = pc /\ Holding(r, pc, id).id = id
         /\ Holding(r, pc, id).root = req[r].root
BY NothingCopied DEF Whole, Requested, CopyFollowsPlan, LayoutIsOfRoot, New, Holding,
   ReqFields, Phases, Making, Made

LEMMA FoundIsWhole ==
  ASSUME NEW r \in Requests, NEW id, req[r].root \in Roots,
         (id.layout = "presplit") = (req[r].root \in Presplit), id \in DOMAIN final
  PROVE  /\ Whole(Found(r, id)) /\ Found(r, id).pc \notin Holders
         /\ Found(r, id).pc \in Made => Found(r, id).id \in DOMAIN final
<1>1. CASE Valid(id)
  <2>1. "register" \in Made /\ Found(r, id) = Holding(r, "register", id)
    BY <1>1 DEF Found, Made
  <2> QED BY <2>1, HoldingIsWhole DEF Holders
<1>2. CASE ~Valid(id)
  BY <1>2, NewIsWhole DEF Found, Holders, Made
<1> QED BY <1>1, <1>2

(* A move of one request that publishes nothing and takes no lock.         *)
LEMMA RequestMoves ==
  ASSUME SnapshotInv, NEW r \in Requests, NEW q, Whole(q), req' = [req EXCEPT ![r] = q],
         UNCHANGED <<source, latest, final>>,
         q.pc \in Made => q.id \in DOMAIN final,
         \/ locks' = Unlocked(r) /\ q.pc \notin Holders
         \/ locks' = locks /\ (q.pc \in Holders => req[r].pc \in Holders /\ q.id = req[r].id),
         q.pc \in {"copy", "copied"} => q.id \notin DOMAIN final
  PROVE  SnapshotInv'
<1>1. /\ DOMAIN req = Requests /\ DOMAIN req' = Requests /\ req'[r] = q
      /\ \A s \in Requests \ {r} : req'[s] = req[s]
  BY DEF SnapshotInv, ReqInv
<1>2. ReqInv'
  BY <1>1 DEF SnapshotInv, ReqInv
<1>3. MadeInv'
  BY <1>1 DEF SnapshotInv, MadeInv
<1>4. SourceInv' /\ FinalInv' /\ PublishedIsPlanned' /\ LatestIsPublished'
  BY DEF SnapshotInv, SourceInv, FinalInv, Stored, PublishedIsPlanned, LatestIsPublished
<1>5. ASSUME NEW s \in Requests, req'[s].pc \in Holders
      PROVE  /\ req'[s].id \in DOMAIN locks' /\ locks'[req'[s].id] = s
             /\ req'[s].pc \in {"copy", "copied"} => req'[s].id \notin DOMAIN final'
  <2>1. req[s].pc \in Holders /\ req'[s].id = req[s].id /\ (s = r => locks' = locks)
    BY <1>1, <1>5
  <2>2. /\ req[s].id \in DOMAIN locks /\ locks[req[s].id] = s
        /\ req[s].pc \in {"copy", "copied"} => req[s].id \notin DOMAIN final
    BY <2>1 DEF SnapshotInv, OneMaker, Holders
  <2>3. req'[s].id \in DOMAIN locks' /\ locks'[req'[s].id] = s
    BY <2>1, <2>2 DEF Unlocked
  <2> QED BY <1>1, <2>1, <2>2, <2>3
<1>6. OneMaker'
  BY <1>5 DEF OneMaker, Holders
<1> QED BY <1>2, <1>3, <1>4, <1>6 DEF SnapshotInv
-----------------------------------------------------------------------------
(* One lemma per action.                                                   *)
LEMMA SnapshotStart == Init => SnapshotInv
<1> SUFFICES ASSUME Init PROVE SnapshotInv
  OBVIOUS
<1>1. DOMAIN final = {} /\ IsFiniteSet(DOMAIN final)
  BY NothingCopied, FS_EmptySet DEF Init, SnapInit
<1>2. SourceInv
  BY DEF Init, SnapInit, SourceInv, Values
<1>3. ReqInv /\ MadeInv /\ OneMaker
  BY NewIsWhole DEF Init, SnapInit, ReqInv, MadeInv, OneMaker, Made
<1>4. FinalInv /\ PublishedIsPlanned /\ LatestIsPublished
  BY <1>1 DEF FinalInv, PublishedIsPlanned, LatestIsPublished, Init, SnapInit
<1> QED BY <1>2, <1>3, <1>4 DEF SnapshotInv

LEMMA SplitBeginsKeeps ==
  ASSUME SnapshotInv, NEW r \in Requests, SplitBegins(r) PROVE SnapshotInv'
<1>1. PICK s \in Seeds :
        req' = [req EXCEPT ![r] = [New EXCEPT !.pc = "plan", !.root = latest.root, !.seed = s]]
  BY DEF SplitBegins
<1> DEFINE q == [New EXCEPT !.pc = "plan", !.root = latest.root, !.seed = s]
<1>2. latest.root \in Roots
  BY DEF SplitBegins, SnapshotInv, SourceInv
<1>3. Whole(q) /\ q.pc \notin Made \cup Holders
  BY <1>2, NewIsWhole, NothingCopied DEF Whole, Requested, CopyFollowsPlan, LayoutIsOfRoot, New,
     ReqFields, Phases, Making, Made, Holders
<1>4. req' = [req EXCEPT ![r] = q]
  BY <1>1
<1> HIDE DEF q
<1> QED BY <1>3, <1>4, RequestMoves DEF SplitBegins, OtherVars, Holders

LEMMA PlanFileKeeps ==
  ASSUME SnapshotInv, NEW r \in Requests, PlanFile(r) PROVE SnapshotInv'
<1> DEFINE f == Walked(DOMAIN req[r].plan)
           v == source[req[r].root][f]
           plan == [g \in DOMAIN req[r].plan \union {f} |-> IF g = f THEN v ELSE req[r].plan[g]]
           q == [req[r] EXCEPT !.plan = plan]
<1>1. Whole(req[r]) /\ req[r].pc = "plan" /\ req[r].root \in Roots
  BY DEF SnapshotInv, ReqInv, Whole, Requested, PlanFile
<1>2. f \in Files
  BY <1>1, PartialFields, WalkedFields DEF PlanFile, Whole, Requested
<1>3. v \in Values
  BY <1>1, <1>2 DEF SnapshotInv, SourceInv
<1>4. plan \in Partial
  BY <1>1, <1>2, <1>3, PartialAdded DEF Whole, Requested
<1>5. req' = [req EXCEPT ![r] = q]
  BY DEF PlanFile
<1> HIDE DEF plan, f, v
<1>6. Whole(q) /\ q.pc \notin Made \cup Holders
  BY <1>1, <1>4 DEF Whole, Requested, CopyFollowsPlan, LayoutIsOfRoot,
     ReqFields, Phases, Making, Made, Holders
<1> HIDE DEF q
<1> QED BY <1>5, <1>6, RequestMoves DEF PlanFile, OtherVars, Holders

LEMMA IdFields ==
  ASSUME NEW root, NEW seed, NEW plan
  PROVE  /\ SnapshotId(root, seed, plan).samples = plan
         /\ (SnapshotId(root, seed, plan).layout = "presplit") = (root \in Presplit)
BY DEF SnapshotId

LEMMA PlanBuiltKeeps ==
  ASSUME SnapshotInv, NEW r \in Requests, PlanBuilt(r) PROVE SnapshotInv'
<1> DEFINE id == SnapshotId(req[r].root, req[r].seed, req[r].plan)
           locking == [req[r] EXCEPT !.pc = "lock", !.seed = None, !.id = id]
           q == IF ~BothSplits(id.split) THEN Answered
                ELSE IF id \in DOMAIN final THEN Found(r, id) ELSE locking
<1>1. Whole(req[r]) /\ req[r].pc = "plan" /\ DOMAIN req[r].plan = Files /\ req[r].root \in Roots
  BY DEF SnapshotInv, ReqInv, Whole, Requested, PlanBuilt
<1>2. id.samples = req[r].plan /\ (id.layout = "presplit") = (req[r].root \in Presplit)
  BY IdFields
<1>3. req' = [req EXCEPT ![r] = q]
  BY DEF PlanBuilt
<1> HIDE DEF id
<1>4. Whole(locking) /\ locking.pc = "lock"
  <2>1. DOMAIN req[r].temp = {}
    BY <1>1 DEF Whole, CopyFollowsPlan
  <2> QED BY <1>1, <1>2, <2>1 DEF Whole, Requested, CopyFollowsPlan, LayoutIsOfRoot,
     ReqFields, Phases, Making, Made
<1> HIDE DEF locking
<1>5. Whole(q) /\ q.pc \notin Holders /\ (q.pc \in Made => q.id \in DOMAIN final)
  <2>1. CASE q = Answered
    BY <2>1, NewIsWhole DEF Made, Holders
  <2>2. CASE id \in DOMAIN final /\ q = Found(r, id)
    BY <2>2, <1>1, <1>2, FoundIsWhole
  <2>3. CASE q = locking
    BY <2>3, <1>4 DEF Made, Holders
  <2> QED BY <2>1, <2>2, <2>3
<1> HIDE DEF q
<1> QED BY <1>3, <1>5, RequestMoves DEF PlanBuilt, OtherVars, Holders

LEMMA FailsKeeps ==
  ASSUME SnapshotInv, NEW r \in Requests, Fails(r) PROVE SnapshotInv'
BY NewIsWhole, RequestMoves DEF Fails, Ends, OtherVars, Holders, Made

LEMMA LockTakenKeeps ==
  ASSUME SnapshotInv, NEW r \in Requests, LockTaken(r) PROVE SnapshotInv'
<1> DEFINE q == [req[r] EXCEPT !.pc = "locked"]
<1>1. Whole(req[r]) /\ req[r].pc = "lock" /\ req[r].id \notin DOMAIN locks /\ DOMAIN req = Requests
  BY DEF SnapshotInv, ReqInv, LockTaken
<1>2. Whole(q) /\ q.pc = "locked" /\ q.id = req[r].id
  BY <1>1 DEF Whole, Requested, CopyFollowsPlan, LayoutIsOfRoot, ReqFields, Phases, Making, Made
<1>3. /\ DOMAIN req' = Requests /\ req'[r] = q
      /\ \A s \in Requests \ {r} : req'[s] = req[s]
  BY <1>1 DEF LockTaken, Go
<1> HIDE DEF q
<1>4. ReqInv' /\ MadeInv'
  BY <1>2, <1>3 DEF SnapshotInv, ReqInv, MadeInv, LockTaken, Made
<1>5. SourceInv' /\ FinalInv' /\ PublishedIsPlanned' /\ LatestIsPublished'
  BY DEF LockTaken, OtherVars, SnapshotInv, SourceInv, FinalInv, Stored, PublishedIsPlanned, LatestIsPublished
<1>6. OneMaker'
  <2>1. /\ DOMAIN locks' = DOMAIN locks \union {req[r].id} /\ locks'[req[r].id] = r
        /\ \A i \in DOMAIN locks : locks'[i] = locks[i]
    BY <1>1 DEF LockTaken
  <2>2. ASSUME NEW s \in Requests \ {r}, req[s].pc \in Holders
        PROVE  /\ req[s].id \in DOMAIN locks' /\ locks'[req[s].id] = s
               /\ req[s].pc \in {"copy", "copied"} => req[s].id \notin DOMAIN final'
    BY <2>1, <2>2 DEF SnapshotInv, OneMaker, Holders, LockTaken
  <2> QED BY <1>2, <1>3, <2>1, <2>2 DEF OneMaker, Holders
<1> QED BY <1>4, <1>5, <1>6 DEF SnapshotInv

LEMMA LockTornKeeps ==
  ASSUME SnapshotInv, NEW r \in Requests, LockTorn(r) PROVE SnapshotInv'
<1>1. DOMAIN req = Requests /\ req[r].id \notin DOMAIN locks
  BY DEF SnapshotInv, ReqInv, LockTorn
<1>2. /\ DOMAIN req' = Requests /\ req'[r] = Answered
      /\ \A s \in Requests \ {r} : req'[s] = req[s]
  BY <1>1 DEF LockTorn, Ends
<1>3. ReqInv' /\ MadeInv'
  BY <1>2, NewIsWhole DEF SnapshotInv, ReqInv, MadeInv, LockTorn, Made
<1>4. SourceInv' /\ FinalInv' /\ PublishedIsPlanned' /\ LatestIsPublished'
  BY DEF LockTorn, OtherVars, SnapshotInv, SourceInv, FinalInv, Stored, PublishedIsPlanned, LatestIsPublished
<1>5. OneMaker'
  <2>1. \A i \in DOMAIN locks : i \in DOMAIN locks' /\ locks'[i] = locks[i]
    BY <1>1 DEF LockTorn
  <2> QED BY <1>2, <2>1, NewIsWhole DEF SnapshotInv, OneMaker, LockTorn
<1> QED BY <1>3, <1>4, <1>5 DEF SnapshotInv

LEMMA LockBusyKeeps ==
  ASSUME SnapshotInv, NEW r \in Requests, LockBusy(r) PROVE SnapshotInv'
<1> DEFINE id == req[r].id
           q == IF id \in DOMAIN final THEN Found(r, id) ELSE Answered
<1>1. Whole(req[r]) /\ req[r].pc = "lock" /\ req' = [req EXCEPT ![r] = q]
  BY DEF SnapshotInv, ReqInv, LockBusy
<1>2. req[r].root \in Roots /\ (id.layout = "presplit") = (req[r].root \in Presplit)
  BY <1>1 DEF Whole, Requested, LayoutIsOfRoot, Making
<1>3. Whole(q) /\ q.pc \notin Holders /\ (q.pc \in Made => q.id \in DOMAIN final)
  BY <1>2, FoundIsWhole, NewIsWhole DEF Made, Holders
<1> HIDE DEF q
<1> QED BY <1>1, <1>3, RequestMoves DEF LockBusy, OtherVars, Holders

LEMMA RecheckKeeps ==
  ASSUME SnapshotInv, NEW r \in Requests, Recheck(r) PROVE SnapshotInv'
<1>1. Whole(req[r]) /\ req[r].pc = "locked"
  BY DEF SnapshotInv, ReqInv, Recheck
<1>2. req[r].root \in Roots /\ (req[r].id.layout = "presplit") = (req[r].root \in Presplit)
  BY <1>1 DEF Whole, Requested, LayoutIsOfRoot, Making
<1>3. CASE req[r].id \in DOMAIN final
  <2> DEFINE q == Found(r, req[r].id)
  <2>1. Whole(q) /\ q.pc \notin Holders /\ (q.pc \in Made => q.id \in DOMAIN final)
    BY <1>2, <1>3, FoundIsWhole
  <2>2. req' = [req EXCEPT ![r] = q] /\ locks' = Unlocked(r)
    BY <1>3 DEF Recheck
  <2> HIDE DEF q
  <2> QED BY <2>1, <2>2, RequestMoves DEF Recheck, OtherVars, Holders
<1>4. CASE req[r].id \notin DOMAIN final
  <2> DEFINE q == [req[r] EXCEPT !.pc = "copy"]
  <2>1. Whole(q) /\ q.pc = "copy" /\ q.id = req[r].id
    BY <1>1 DEF Whole, Requested, CopyFollowsPlan, LayoutIsOfRoot, ReqFields, Phases, Making, Made
  <2>2. req' = [req EXCEPT ![r] = q] /\ locks' = locks
    BY <1>4 DEF Recheck, Go
  <2> HIDE DEF q
  <2> QED BY <1>1, <1>4, <2>1, <2>2, RequestMoves DEF Recheck, OtherVars, Holders, Made
<1> QED BY <1>3, <1>4

LEMMA HashSourceKeeps ==
  ASSUME SnapshotInv, NEW r \in Requests, HashSource(r) PROVE SnapshotInv'
<1> DEFINE f == Walked(DOMAIN req[r].temp)
           q == [req[r] EXCEPT !.pc = "copied", !.file = f]
<1>1. Whole(req[r]) /\ req[r].pc = "copy"
  BY DEF SnapshotInv, ReqInv, HashSource
<1>2. f \in Files /\ f \notin DOMAIN req[r].temp
  BY <1>1, PartialFields, WalkedFields DEF HashSource, Whole, Requested
<1>3. \/ req' = [req EXCEPT ![r] = q] /\ locks' = locks
      \/ req' = [req EXCEPT ![r] = Answered] /\ locks' = Unlocked(r)
  BY DEF HashSource, Ends
<1> HIDE DEF f
<1>4. Whole(q) /\ q.pc = "copied" /\ q.id = req[r].id
  BY <1>1, <1>2 DEF Whole, Requested, CopyFollowsPlan, LayoutIsOfRoot, ReqFields, Phases, Making, Made
<1>5. req[r].id \notin DOMAIN final
  BY <1>1 DEF SnapshotInv, OneMaker
<1> HIDE DEF q
<1>6. CASE req' = [req EXCEPT ![r] = q] /\ locks' = locks
  BY <1>1, <1>4, <1>5, <1>6, RequestMoves DEF HashSource, OtherVars, Holders, Made
<1>7. CASE req' = [req EXCEPT ![r] = Answered] /\ locks' = Unlocked(r)
  BY <1>7, NewIsWhole, RequestMoves DEF HashSource, OtherVars, Holders, Made
<1> QED BY <1>3, <1>6, <1>7

LEMMA CopySourceKeeps ==
  ASSUME SnapshotInv, NEW r \in Requests, CopySource(r) PROVE SnapshotInv'
<1> DEFINE f == req[r].file
           now == source[req[r].root][f]
           temp == [g \in DOMAIN req[r].temp \union {f} |-> IF g = f THEN now ELSE req[r].temp[g]]
           q == [req[r] EXCEPT !.pc = "copy", !.file = None, !.temp = temp]
<1>1. Whole(req[r]) /\ req[r].pc = "copied" /\ f \in Files /\ req[r].root \in Roots
  BY DEF SnapshotInv, ReqInv, CopySource, Whole, Requested
<1>2. now \in Values
  BY <1>1 DEF SnapshotInv, SourceInv
<1>3. temp \in Partial
  BY <1>1, <1>2, PartialAdded DEF Whole, Requested
<1>4. \/ now = req[r].plan[f] /\ req' = [req EXCEPT ![r] = q] /\ locks' = locks
      \/ req' = [req EXCEPT ![r] = Answered] /\ locks' = Unlocked(r)
  BY DEF CopySource, CopyAccepted, Ends
<1>5. req[r].id \notin DOMAIN final
  BY <1>1 DEF SnapshotInv, OneMaker
<1>6. CASE now = req[r].plan[f] /\ req' = [req EXCEPT ![r] = q] /\ locks' = locks
  <2>1. \A g \in DOMAIN temp : temp[g] = req[r].plan[g]
    BY <1>1, <1>6 DEF Whole, CopyFollowsPlan, Making
  <2> HIDE DEF temp, f, now
  <2>2. Whole(q) /\ q.pc = "copy" /\ q.id = req[r].id
    BY <1>1, <1>3, <2>1 DEF Whole, Requested, CopyFollowsPlan, LayoutIsOfRoot,
       ReqFields, Phases, Making, Made
  <2> HIDE DEF q
  <2> QED BY <1>1, <1>5, <1>6, <2>2, RequestMoves DEF CopySource, OtherVars, Holders, Made
<1>7. CASE req' = [req EXCEPT ![r] = Answered] /\ locks' = Unlocked(r)
  BY <1>7, NewIsWhole, RequestMoves DEF CopySource, OtherVars, Holders, Made
<1> QED BY <1>4, <1>6, <1>7

LEMMA PublishKeeps ==
  ASSUME SnapshotInv, NEW r \in Requests, Publish(r) PROVE SnapshotInv'
<1> DEFINE id == req[r].id
<1>1. /\ Whole(req[r]) /\ req[r].pc = "copy" /\ DOMAIN req[r].temp = Files /\ DOMAIN req = Requests
      /\ req[r].root \in Roots /\ (id.layout = "presplit") = (req[r].root \in Presplit)
      /\ id \notin DOMAIN final /\ id \in DOMAIN locks /\ locks[id] = r
  BY DEF SnapshotInv, ReqInv, OneMaker, Publish, Whole, Requested, LayoutIsOfRoot, Making
<1>2. req[r].temp \in [Files -> Values] /\ \A f \in Files : req[r].temp[f] = id.samples[f]
  BY <1>1, PartialFields DEF Whole, Requested, CopyFollowsPlan, Making
<1> DEFINE q == Holding(r, "published", id)
           new == [files |-> req[r].temp, root |-> req[r].root, born |-> Cardinality(DOMAIN final)]
<1>3. Whole(q) /\ q.pc = "published" /\ q.id = id
  BY <1>1, HoldingIsWhole DEF Made
<1>4. /\ req' = [req EXCEPT ![r] = q] /\ UNCHANGED <<source, latest, locks>>
      /\ DOMAIN final' = DOMAIN final \union {id} /\ final'[id] = new
      /\ \A i \in DOMAIN final : final'[i] = final[i]
  BY <1>1 DEF Publish, OtherVars
<1>5. DOMAIN req' = Requests /\ req'[r] = q /\ \A s \in Requests \ {r} : req'[s] = req[s]
  BY <1>1, <1>4
<1> HIDE DEF q
<1>6. /\ IsFiniteSet(DOMAIN final') /\ Cardinality(DOMAIN final') = Cardinality(DOMAIN final) + 1
      /\ Cardinality(DOMAIN final) \in Nat
  BY <1>1, <1>4, FS_AddElement, FS_CardinalityType DEF SnapshotInv, FinalInv
<1>7. /\ new \in [files : [Files -> Values \cup {None}], root : Roots, born : Nat]
      /\ new.born = Cardinality(DOMAIN final) /\ new.files = req[r].temp
  BY <1>1, <1>2, <1>6
<1> HIDE DEF new
<1>8. FinalInv'
  <2>1. ASSUME NEW i \in DOMAIN final' PROVE Stored(i)'
    <3>1. CASE i = id
      BY <3>1, <1>4, <1>6, <1>7 DEF Stored
    <3>2. CASE i \in DOMAIN final
      BY <3>2, <1>4, <1>6 DEF SnapshotInv, FinalInv, Stored
    <3> QED BY <3>1, <3>2, <1>4
  <2> QED BY <2>1, <1>6 DEF FinalInv
<1>9. PublishedIsPlanned'
  BY <1>2, <1>4, <1>7 DEF SnapshotInv, PublishedIsPlanned
<1>10. SourceInv' /\ LatestIsPublished'
  BY <1>4 DEF SnapshotInv, SourceInv, LatestIsPublished
<1>11. ReqInv' /\ MadeInv'
  BY <1>3, <1>4, <1>5 DEF SnapshotInv, ReqInv, MadeInv
<1>12. OneMaker'
  <2>1. ASSUME NEW s \in Requests, req'[s].pc \in Holders
        PROVE  /\ req'[s].id \in DOMAIN locks' /\ locks'[req'[s].id] = s
               /\ req'[s].pc \in {"copy", "copied"} => req'[s].id \notin DOMAIN final'
    <3>1. CASE s = r
      BY <3>1, <1>1, <1>3, <1>4, <1>5
    <3>2. CASE s # r
      <4>1. /\ req[s].id \in DOMAIN locks /\ locks[req[s].id] = s
            /\ req[s].pc \in {"copy", "copied"} => req[s].id \notin DOMAIN final
        BY <2>1, <3>2, <1>5 DEF SnapshotInv, OneMaker, Holders
      <4> QED BY <4>1, <3>2, <1>1, <1>4, <1>5
    <3> QED BY <3>1, <3>2
  <2> QED BY <2>1 DEF OneMaker, Holders
<1> QED BY <1>8, <1>9, <1>10, <1>11, <1>12 DEF SnapshotInv

LEMMA ReleaseKeeps ==
  ASSUME SnapshotInv, NEW r \in Requests, Release(r) PROVE SnapshotInv'
<1> DEFINE q == Found(r, req[r].id)
<1>1. Whole(req[r]) /\ req[r].pc = "published" /\ req[r].id \in DOMAIN final
  BY DEF SnapshotInv, ReqInv, MadeInv, Made, Release
<1>2. req[r].root \in Roots /\ (req[r].id.layout = "presplit") = (req[r].root \in Presplit)
  BY <1>1 DEF Whole, Requested, LayoutIsOfRoot, Made
<1>3. Whole(q) /\ q.pc \notin Holders /\ (q.pc \in Made => q.id \in DOMAIN final)
  BY <1>1, <1>2, FoundIsWhole
<1>4. req' = [req EXCEPT ![r] = q] /\ locks' = Unlocked(r)
  BY DEF Release
<1> HIDE DEF q
<1> QED BY <1>3, <1>4, RequestMoves DEF Release, OtherVars, Holders

LEMMA RegisterKeeps ==
  ASSUME SnapshotInv, NEW r \in Requests, Register(r) PROVE SnapshotInv'
<1>1. /\ Whole(req[r]) /\ req[r].pc = "register" /\ req[r].id \in DOMAIN final
      /\ req[r].root \in Roots /\ (req[r].id.layout = "presplit") = (req[r].root \in Presplit)
      /\ DOMAIN req = Requests
  BY DEF SnapshotInv, ReqInv, MadeInv, Made, Register, Whole, Requested, LayoutIsOfRoot
<1>2. CASE req' = [req EXCEPT ![r] = Answered] /\ UNCHANGED latest
  BY <1>2, NewIsWhole, RequestMoves DEF Register, OtherVars, Holders, Made
<1>3. CASE latest' = [root |-> req[r].root, snap |-> req[r].id] /\ Go(r, "index")
  <2> DEFINE q == [req[r] EXCEPT !.pc = "index"]
  <2>1. Whole(q) /\ q.pc = "index" /\ q.id = req[r].id
    BY <1>1 DEF Whole, Requested, CopyFollowsPlan, LayoutIsOfRoot, ReqFields, Phases, Making, Made
  <2>2. DOMAIN req' = Requests /\ req'[r] = q /\ \A s \in Requests \ {r} : req'[s] = req[s]
    BY <1>1, <1>3 DEF Go
  <2> HIDE DEF q
  <2>3. ReqInv' /\ MadeInv' /\ OneMaker'
    BY <1>1, <2>1, <2>2 DEF SnapshotInv, ReqInv, MadeInv, OneMaker, Register, Made
  <2>4. latest'.root = req[r].root /\ latest'.snap = req[r].id
    BY <1>3
  <2>5. SourceInv' /\ LatestIsPublished'
    BY <1>1, <2>4 DEF SnapshotInv, SourceInv, LatestIsPublished, Register, OtherVars
  <2>6. FinalInv' /\ PublishedIsPlanned'
    BY DEF SnapshotInv, FinalInv, Stored, PublishedIsPlanned, Register
  <2> QED BY <2>3, <2>5, <2>6 DEF SnapshotInv
<1> QED BY <1>2, <1>3 DEF Register, Ends

LEMMA IndexKeeps ==
  ASSUME SnapshotInv, NEW r \in Requests, Index(r) PROVE SnapshotInv'
BY NewIsWhole, RequestMoves DEF Index, Ends, OtherVars, Holders, Made

LEMMA StepKeeps ==
  ASSUME SnapshotInv, NEW r \in Requests, Step(r) PROVE SnapshotInv'
BY SplitBeginsKeeps, PlanFileKeeps, PlanBuiltKeeps, FailsKeeps, LockTakenKeeps, LockTornKeeps, LockBusyKeeps,
   RecheckKeeps, HashSourceKeeps, CopySourceKeeps, PublishKeeps, ReleaseKeeps, RegisterKeeps,
   IndexKeeps DEF Step

(* The environment: an analyzed folder, an edit, damage, a crash.          *)
LEMMA AnalyzeFolderKeeps ==
  ASSUME SnapshotInv, NEW root \in Roots, AnalyzeFolder(root) PROVE SnapshotInv'
<1>1. SourceInv' /\ LatestIsPublished'
  BY DEF SnapshotInv, SourceInv, LatestIsPublished, AnalyzeFolder
<1> QED BY <1>1 DEF SnapshotInv, ReqInv, MadeInv, FinalInv, Stored, PublishedIsPlanned, OneMaker,
   AnalyzeFolder

LEMMA StoppedIsWhole ==
  ASSUME SnapshotInv, req' = Stopped, UNCHANGED <<final, locks>>
  PROVE  ReqInv' /\ MadeInv' /\ OneMaker'
BY NewIsWhole DEF Stopped, ReqInv, MadeInv, OneMaker, Made

LEMMA TornAnalyzeKeeps == ASSUME SnapshotInv, TornAnalyze PROVE SnapshotInv'
BY StoppedIsWhole DEF TornAnalyze, SnapshotInv, SourceInv, FinalInv, Stored, PublishedIsPlanned,
   LatestIsPublished

LEMMA CrashKeeps == ASSUME SnapshotInv, Crash PROVE SnapshotInv'
BY StoppedIsWhole DEF Crash, SnapshotInv, SourceInv, FinalInv, Stored, PublishedIsPlanned,
   LatestIsPublished

LEMMA EditKeeps ==
  ASSUME SnapshotInv, NEW root \in Roots, NEW f \in Files, NEW c \in Contents, Edit(root, f, c)
  PROVE  SnapshotInv'
<1>1. SourceInv'
  BY DEF SnapshotInv, SourceInv, Edit, Values
<1> QED BY <1>1 DEF SnapshotInv, ReqInv, MadeInv, FinalInv, Stored, PublishedIsPlanned, OneMaker,
   LatestIsPublished, Edit

LEMMA DamageKeeps ==
  ASSUME SnapshotInv, NEW id \in DOMAIN final, Damage(id) PROVE SnapshotInv'
<1>1. PICK f \in Files : final' = [final EXCEPT ![id].files[f] = None]
  BY DEF Damage
<1>2. final[id] \in [files : [Files -> Values \cup {None}], root : Roots, born : Nat]
  BY DEF SnapshotInv, FinalInv, Stored
<1>3. /\ DOMAIN final' = DOMAIN final /\ \A i \in DOMAIN final \ {id} : final'[i] = final[i]
      /\ final'[id] = [final[id] EXCEPT !.files = [final[id].files EXCEPT ![f] = None]]
  BY <1>1
<1>4. final'[id] \in [files : [Files -> Values \cup {None}], root : Roots, born : Nat]
  BY <1>2, <1>3
<1>5. /\ final'[id].born = final[id].born
      /\ \A g \in Files : final'[id].files[g] = final[id].files[g] \/ final'[id].files[g] = None
  BY <1>2, <1>3
<1>6. FinalInv'
  BY <1>3, <1>4, <1>5 DEF SnapshotInv, FinalInv, Stored
<1>7. PublishedIsPlanned'
  BY <1>3, <1>5 DEF SnapshotInv, PublishedIsPlanned
<1> QED BY <1>3, <1>6, <1>7 DEF SnapshotInv, SourceInv, ReqInv, MadeInv, OneMaker,
   LatestIsPublished, Damage

(* Trainings, tuning sessions and the index leave the snapshots alone.     *)
LEMMA TrainingKeeps ==
  ASSUME SnapshotInv, UNCHANGED <<source, latest, final, locks, req>>
  PROVE  SnapshotInv'
BY DEF SnapshotInv, SourceInv, ReqInv, MadeInv, FinalInv, Stored, PublishedIsPlanned, OneMaker,
   LatestIsPublished

LEMMA SnapshotStep == SnapshotInv /\ [Next]_vars => SnapshotInv'
<1> SUFFICES ASSUME SnapshotInv, [Next]_vars PROVE SnapshotInv'
  OBVIOUS
<1>1. CASE \E r \in Requests : Step(r)
  BY <1>1, StepKeeps
<1>2. CASE Outside
  BY <1>2, AnalyzeFolderKeeps, EditKeeps, DamageKeeps, TornAnalyzeKeeps, CrashKeeps DEF Outside
<1>3. CASE \E t \in Trainings, n \in Names : StartTraining(t, n)
  BY <1>3, TrainingKeeps DEF StartTraining, snapVars
<1>4. CASE \E t \in Trainings, n \in Names, ref \in Names : StartTuning(t, n, ref)
  BY <1>4, TrainingKeeps DEF StartTuning
<1>5. CASE \E t \in Trainings : IndexTraining(t)
  BY <1>5, TrainingKeeps DEF IndexTraining, snapVars
<1>6. CASE \E n \in Names : RemoveDir(n)
  BY <1>6, TrainingKeeps DEF RemoveDir, snapVars
<1>7. CASE UNCHANGED vars
  BY <1>7, TrainingKeeps DEF vars, snapVars
<1> QED BY <1>1, <1>2, <1>3, <1>4, <1>5, <1>6, <1>7 DEF Next

LEMMA SnapshotInvariant == Spec => []SnapshotInv
BY SnapshotStart, SnapshotStep, PTL DEF Spec

-----------------------------------------------------------------------------
(* The newest of some published snapshots: a set of natural numbers below a *)
(* bound has a greatest one.                                               *)
LEMMA LeastOfSet ==
  ASSUME NEW T \in SUBSET Nat, T # {}
  PROVE  \E x \in T : \A y \in T : x <= y
<1>1. PICK x \in T : \A y \in T : ~ (<<y, x>> \in OpToRel(<, Nat))
  BY WFMin, NatLessThanWellFounded
<1>2. \A y \in T : ~ (y < x)
  BY <1>1 DEF OpToRel
<1>3. ASSUME NEW y \in T PROVE x <= y
  <2>1. x \in Nat /\ y \in Nat /\ ~ (y < x)
    BY <1>2
  <2> QED BY <2>1
<1> QED BY <1>3

LEMMA NewestExists ==
  ASSUME FinalInv, NEW own \in SUBSET DOMAIN final, own # {}
  PROVE  \E id \in own : \A other \in own : final[other].born <= final[id].born
<1> DEFINE N == Cardinality(DOMAIN final)
           T == {N - final[i].born : i \in own}
<1>1. N \in Nat /\ \A i \in own : final[i].born \in Nat /\ final[i].born < N
  BY FS_CardinalityType DEF FinalInv, Stored
<1> HIDE DEF N
<1>2. T \in SUBSET Nat /\ T # {}
  BY <1>1
<1> HIDE DEF T
<1>3. PICK x \in T : \A y \in T : x <= y
  BY <1>2, LeastOfSet
<1>4. PICK id \in own : x = N - final[id].born
  BY DEF T
<1>5. ASSUME NEW other \in own PROVE final[other].born <= final[id].born
  <2>1. N - final[id].born <= N - final[other].born
    BY <1>3, <1>4 DEF T
  <2> QED BY <2>1, <1>1
<1> QED BY <1>5

LEMMA ReferenceFollows == SnapshotInv => ReferenceIsItsOwn
BY DEF ReferenceIsItsOwn, Resolved, FromIndex, FromArgs, ControlledArgs, CrossChecked

LEMMA DefaultFollows == SnapshotInv => DefaultIsOwn
<1> SUFFICES ASSUME SnapshotInv, DefaultBinding # None, DefaultBinding # latest.snap
             PROVE  final[DefaultBinding].root = latest.root
  BY DEF DefaultIsOwn
<1> DEFINE own == {id \in DOMAIN final : SameRoot(id)}
<1>1. own # {} /\ DefaultBinding = CHOOSE id \in own : \A other \in own : final[other].born <= final[id].born
  BY DEF DefaultBinding
<1>2. \E id \in own : \A other \in own : final[other].born <= final[id].born
  BY <1>1, NewestExists DEF SnapshotInv
<1>3. DefaultBinding \in own
  BY <1>1, <1>2
<1> QED BY <1>3 DEF SameRoot

(* A published snapshot holds exactly the samples its identity was computed *)
(* from (_copy_verified and the self-check), whatever the user edits while  *)
(* it is copied.                                                            *)
THEOREM SnapshotsStayPlanned == Spec => []PublishedIsPlanned
<1>1. SnapshotInv => PublishedIsPlanned
  BY DEF SnapshotInv
<1> QED BY <1>1, SnapshotInvariant, PTL

(* The request that materializes a snapshot holds its lock file, and no     *)
(* other does (_acquire_snapshot_lock, _release_snapshot_lock).             *)
THEOREM MakersStayAlone == Spec => []OneMaker
<1>1. SnapshotInv => OneMaker
  BY DEF SnapshotInv
<1> QED BY <1>1, SnapshotInvariant, PTL

(* latest_dataset.json names only published snapshots of its own directory  *)
(* (split_dataset, _snapshot_to_latest_info).                               *)
THEOREM LatestStaysPublished == Spec => []LatestIsPublished
<1>1. SnapshotInv => LatestIsPublished
  BY DEF SnapshotInv
<1> QED BY <1>1, SnapshotInvariant, PTL

(* A registered dataset is a published snapshot of its directory, a         *)
(* reference run gives its own intact snapshot, and the default of a study  *)
(* is the registered one or the newest of the registered directory          *)
(* (split_dataset, resolve_reference_dataset, _default_snapshot_binding).   *)
THEOREM DatasetStaysMeant == Spec => []DatasetIsMeant
<1>1. SnapshotInv => DatasetIsMeant
  BY ReferenceFollows, DefaultFollows DEF DatasetIsMeant, SnapshotInv
<1> QED BY <1>1, SnapshotInvariant, PTL

-----------------------------------------------------------------------------
(* A request comes closer to its answer with every step it takes.          *)

Advanced(r) ==
  req'[r] # req[r] =>
    \/ req'[r] = Answered
    \/ Ahead(req[r], req'[r]) /\ SameDataset(req[r], req'[r])

(* A request that found its snapshot goes on with it, or is answered.      *)
LEMMA FoundGoesOn ==
  ASSUME NEW r, NEW id
  PROVE  \/ Found(r, id) = Answered
         \/ /\ Found(r, id).pc = "register" /\ Found(r, id).root = req[r].root
            /\ Found(r, id).id = id
BY DEF Found, Holding, New

(* What a step of a request does to itself.                                *)
LEMMA StepAdvances ==
  ASSUME SnapshotInv, NEW r \in Requests, Step(r)
  PROVE  Advanced(r)
<1>1. Whole(req[r]) /\ DOMAIN req = Requests /\ DOMAIN req[r] = ReqFields
  BY DEF SnapshotInv, ReqInv, Whole, Requested
<1> USE DEF Stage
<1>2. CASE SplitBegins(r)
  <2>1. req[r].pc = "new" /\ req'[r].pc = "plan"
    BY <1>1, <1>2 DEF SplitBegins, New
  <2> QED BY <2>1 DEF Advanced, Ahead, SameDataset
<1>3. CASE PlanFile(r)
  <2> DEFINE f == Walked(DOMAIN req[r].plan)
             plan == [g \in DOMAIN req[r].plan \union {f} |->
                        IF g = f THEN source[req[r].root][f] ELSE req[r].plan[g]]
  <2>1. req[r].pc = "plan" /\ f \notin DOMAIN req[r].plan
    BY <1>1, <1>3, PartialFields, WalkedFields DEF PlanFile, Whole, Requested
  <2>2. req'[r] = [req[r] EXCEPT !.plan = plan]
    BY <1>1, <1>3 DEF PlanFile
  <2>3. Grows(req[r].plan, plan)
    BY <2>1 DEF Grows
  <2> HIDE DEF plan, f
  <2>4. req'[r].pc = "plan" /\ req'[r].plan = plan /\ req'[r].root = req[r].root
    BY <1>1, <2>1, <2>2 DEF ReqFields
  <2> QED BY <2>1, <2>3, <2>4 DEF Advanced, Ahead, SameDataset
<1>4. CASE PlanBuilt(r)
  <2> DEFINE id == SnapshotId(req[r].root, req[r].seed, req[r].plan)
             locking == [req[r] EXCEPT !.pc = "lock", !.seed = None, !.id = id]
  <2>1. /\ req[r].pc = "plan"
        /\ req'[r] = Answered \/ req'[r] = Found(r, id) \/ req'[r] = locking
    BY <1>1, <1>4 DEF PlanBuilt
  <2> HIDE DEF id
  <2>2. locking.pc = "lock" /\ locking.root = req[r].root
    BY <1>1 DEF ReqFields
  <2> HIDE DEF locking
  <2> QED BY <2>1, <2>2, FoundGoesOn DEF Advanced, Ahead, SameDataset
<1>5. CASE Fails(r) \/ LockTorn(r) \/ Index(r)
  BY <1>1, <1>5 DEF Fails, LockTorn, Index, Ends, Advanced
<1>6. CASE LockTaken(r)
  <2>1. /\ req[r].pc = "lock" /\ req'[r].pc = "locked"
        /\ req'[r].root = req[r].root /\ req'[r].id = req[r].id
    BY <1>1, <1>6 DEF LockTaken, Go, ReqFields
  <2> QED BY <2>1 DEF Advanced, Ahead, SameDataset
<1>7. CASE LockBusy(r)
  <2>1. /\ req[r].pc = "lock"
        /\ req'[r] = Answered \/ req'[r] = Found(r, req[r].id)
    BY <1>1, <1>7 DEF LockBusy
  <2> QED BY <2>1, FoundGoesOn DEF Advanced, Ahead, SameDataset
<1>8. CASE Recheck(r)
  <2>1. /\ req[r].pc = "locked"
        /\ \/ req'[r] = Found(r, req[r].id)
           \/ /\ req'[r].pc = "copy"
              /\ req'[r].root = req[r].root /\ req'[r].id = req[r].id
    BY <1>1, <1>8 DEF Recheck, Go, ReqFields
  <2> QED BY <2>1, FoundGoesOn DEF Advanced, Ahead, SameDataset
<1>9. CASE HashSource(r)
  <2>1. /\ req[r].pc = "copy"
        /\ \/ req'[r] = Answered
           \/ /\ req'[r].pc = "copied" /\ req'[r].temp = req[r].temp
              /\ req'[r].root = req[r].root /\ req'[r].id = req[r].id
    BY <1>1, <1>9 DEF HashSource, Ends, ReqFields
  <2> QED BY <2>1 DEF Advanced, Ahead, SameDataset
<1>10. CASE CopySource(r)
  <2> DEFINE f == req[r].file
             temp == [g \in DOMAIN req[r].temp \union {f} |->
                        IF g = f THEN source[req[r].root][f] ELSE req[r].temp[g]]
  <2>1. req[r].pc = "copied" /\ f \notin DOMAIN req[r].temp
    BY <1>1, <1>10 DEF CopySource, Whole, Requested
  <2>2. \/ req'[r] = Answered
        \/ req'[r] = [req[r] EXCEPT !.pc = "copy", !.file = None, !.temp = temp]
    BY <1>1, <1>10 DEF CopySource, Ends
  <2>3. Grows(req[r].temp, temp)
    BY <2>1 DEF Grows
  <2> HIDE DEF temp, f
  <2>4. \/ req'[r] = Answered
        \/ /\ req'[r].pc = "copy" /\ req'[r].temp = temp
           /\ req'[r].root = req[r].root /\ req'[r].id = req[r].id
    BY <1>1, <2>2 DEF ReqFields
  <2> QED BY <2>1, <2>3, <2>4 DEF Advanced, Ahead, SameDataset
<1>11. CASE Publish(r)
  <2>1. /\ req[r].pc = "copy"
        /\ \/ req'[r] = Answered
           \/ req'[r] = Holding(r, "published", req[r].id)
    BY <1>1, <1>11 DEF Publish, Ends
  <2>2. /\ Holding(r, "published", req[r].id).pc = "published"
        /\ Holding(r, "published", req[r].id).root = req[r].root
        /\ Holding(r, "published", req[r].id).id = req[r].id
    BY DEF Holding, New
  <2> QED BY <2>1, <2>2 DEF Advanced, Ahead, SameDataset
<1>12. CASE Release(r)
  <2>1. req[r].pc = "published" /\ req'[r] = Found(r, req[r].id)
    BY <1>1, <1>12 DEF Release
  <2> QED BY <2>1, FoundGoesOn DEF Advanced, Ahead, SameDataset
<1>13. CASE Register(r)
  <2>1. /\ req[r].pc = "register"
        /\ \/ req'[r] = Answered
           \/ /\ req'[r].pc = "index"
              /\ req'[r].root = req[r].root /\ req'[r].id = req[r].id
    BY <1>1, <1>13 DEF Register, Go, Ends, ReqFields
  <2> QED BY <2>1 DEF Advanced, Ahead, SameDataset
<1> QED BY <1>2, <1>3, <1>4, <1>5, <1>6, <1>7, <1>8, <1>9, <1>10, <1>11, <1>12, <1>13
        DEF Step

(* A step of one request is none of another.                               *)
LEMMA StepIsOfOne ==
  ASSUME SnapshotInv, NEW r \in Requests, Step(r), NEW s \in Requests, s # r
  PROVE  req'[s] = req[s]
BY DEF SnapshotInv, ReqInv, Step, SplitBegins, PlanFile, PlanBuilt, Fails, LockTaken, LockTorn,
   LockBusy, Recheck, HashSource, CopySource, Publish, Release, Register, Index, Ends, Go

LEMMA NextAdvances ==
  ASSUME SnapshotInv, [Next]_vars, NEW r \in Requests
  PROVE  Advanced(r)
<1>1. CASE \E s \in Requests : Step(s)
  BY <1>1, StepAdvances, StepIsOfOne DEF Advanced
<1>2. CASE Outside
  BY <1>2 DEF Outside, AnalyzeFolder, Edit, Damage, TornAnalyze, Crash, Stopped, Advanced,
     SnapshotInv, ReqInv
<1>3. CASE UNCHANGED req
  BY <1>3 DEF Advanced
<1> QED BY <1>1, <1>2, <1>3 DEF Next, StartTraining, StartTuning, IndexTraining, RemoveDir,
        snapVars, vars

(* No split request repeats a step or turns to another dataset, for any     *)
(* number of files: with RequestsGoOn each comes to its answer              *)
(* (create_dataset_snapshot, split_dataset).                                *)
THEOREM RequestsStayOnTheirWay == Spec => RequestsAdvance
<1>1. SnapshotInv /\ [Next]_vars =>
        [\A r \in Requests : req'[r] # req[r] =>
           \/ req'[r] = Answered
           \/ Ahead(req[r], req'[r]) /\ SameDataset(req[r], req'[r])]_vars
  BY NextAdvances DEF Advanced
<1> QED BY <1>1, SnapshotInvariant, PTL DEF Spec, RequestsAdvance
=============================================================================
