-------------------------- MODULE DatasetSnapshot --------------------------
(***************************************************************************)
(* Immutable dataset snapshots: the split request of ui/app.py, the plan,  *)
(* lock, copy, self-check and publication of                               *)
(* modules/dataset_snapshot/service.py, and latest_dataset.json.           *)
(*                                                                         *)
(* A sample (image and label) is a file, its bytes and digest a content    *)
(* number.  A snapshot id stands for the digest of what it is computed     *)
(* from: layout, split of every sample, their contents and, for a flat     *)
(* source, the seed.  The contents are read one file at a time while the   *)
(* user may edit the source; requests run on threads of one server.        *)
(***************************************************************************)
EXTENDS Naturals, FiniteSets

CONSTANTS Roots,      \* original dataset directories
          Presplit,   \* those with images/train and images/val
          Files,      \* relative paths of the samples of every root
          ValFiles,   \* those under images/val
          Seeds,      \* seeds a request may carry
          Shuffled,   \* [Seeds -> [Files -> position after random.Random(seed)]]
          ValPercent, \* val_ratio * 100
          Requests,   \* split requests in flight
          Contents,   \* what a file may hold; 0 to begin with
          MaxEdits,   \* edits of source files
          MaxFaults,  \* damaged snapshots, crashes and failed writes
          None

ASSUME SourcesAssumption ==
  /\ Presplit \subseteq Roots /\ ValFiles \subseteq Files
  /\ IsFiniteSet(Files) /\ Cardinality(Files) >= 2
  /\ Shuffled \in [Seeds -> [Files -> 1..Cardinality(Files)]]
  /\ ValPercent \in 1..99

VARIABLES
  source,   \* [Roots -> [Files -> content]]
  latest,   \* latest_dataset.json: [root, snap] or None (absent or torn)
  final,    \* published directories: [id -> [files, root, born]]
  locks,    \* .locks/<id>.lock: [id -> request whose token it holds, or None]
  req,      \* [Requests -> the handler's local state]
  tables,   \* dataset rows of the local index: snapshot ids
  edits, faults

snapVars == <<source, latest, final, locks, req, tables, edits, faults>>

New == [pc |-> "new", root |-> None, seed |-> None, plan |-> <<>>, id |-> None,
         temp |-> <<>>, file |-> None]
Answered == [New EXCEPT !.pc = "answered"]
Fault == faults < MaxFaults /\ faults' = faults + 1
Calm == UNCHANGED faults

----------------------------------------------------------------------------
(* The plan.                                                               *)

(* round() of Python: halves to the even neighbour. *)
Rounded(n, d) ==
  LET q == n \div d  r == 2 * (n % d) IN
  IF r > d \/ (r = d /\ q % 2 = 1) THEN q + 1 ELSE q

ValCount ==
  LET total == Cardinality(Files)
      wanted == Rounded(total * ValPercent, 100)
      some == IF wanted < 1 THEN 1 ELSE wanted
  IN IF some < total - 1 THEN some ELSE total - 1

Splits(root, seed) ==
  [f \in Files |->
     IF root \in Presplit THEN IF f \in ValFiles THEN "val" ELSE "train"
     ELSE IF Shuffled[seed][f] <= Cardinality(Files) - ValCount THEN "train" ELSE "val"]

BothSplits(split) == \A s \in {"train", "val"} : \E f \in Files : split[f] = s

SnapshotId(root, seed, plan) ==
  [layout |-> IF root \in Presplit THEN "presplit" ELSE "flat",
   seed |-> IF root \in Presplit THEN None ELSE seed,
   split |-> Splits(root, seed), samples |-> plan]

(* validate_dataset_snapshot: every file of the manifest has its digest.   *)
Valid(id) == id \in DOMAIN final /\ final[id].files = id.samples

Go(r, pc) == req' = [req EXCEPT ![r].pc = pc]
Ends(r) == req' = [req EXCEPT ![r] = Answered]
Stopped == [r \in Requests |-> IF req[r] = New THEN New ELSE Answered]
OtherVars == UNCHANGED <<source, edits>>

(* Mutant of Unlocked: the token is not compared. *)
UnlockedByAnyone(r) == [i \in DOMAIN locks \ {req[r].id} |-> locks[i]]

(* The end of a request that holds the lock: its own token is removed.     *)
Unlocked(r) ==
  LET id == req[r].id IN
  IF id \in DOMAIN locks /\ locks[id] = r
  THEN [i \in DOMAIN locks \ {id} |-> locks[i]] ELSE locks

----------------------------------------------------------------------------
(* A folder is analyzed and becomes the latest dataset; the file is not    *)
(* replaced atomically, so a crash during the write leaves it unreadable.  *)
AnalyzeFolder(root) ==
  /\ latest' = [root |-> root, snap |-> None]
  /\ UNCHANGED <<source, final, locks, req, tables, edits, faults>>

TornAnalyze ==
  /\ Fault /\ latest' = None /\ req' = Stopped
  /\ UNCHANGED <<source, final, locks, tables, edits>>

(* The handler reads latest_dataset.json before its thread starts.         *)
SplitBegins(r) ==
  /\ req[r] = New /\ latest # None
  /\ \E s \in Seeds :
       req' = [req EXCEPT ![r] = [New EXCEPT !.pc = "plan", !.root = latest.root, !.seed = s]]
  /\ Calm /\ OtherVars /\ UNCHANGED <<latest, final, locks, tables>>

(* The walk of the source directory has one order.                         *)
Walked(done) == CHOOSE f \in Files : f \notin done

PlanFile(r) ==
  LET f == Walked(DOMAIN req[r].plan) IN
  /\ req[r].pc = "plan" /\ DOMAIN req[r].plan # Files
  /\ req' = [req EXCEPT ![r].plan = [g \in DOMAIN @ \union {f} |->
                                       IF g = f THEN source[req[r].root][f] ELSE @[g]]]
  /\ Calm /\ OtherVars /\ UNCHANGED <<latest, final, locks, tables>>

(* Where a request goes that finds its final directory: a valid one is     *)
(* reused, a corrupt one is an error and is never overwritten.             *)
Holding(r, pc, id) == [New EXCEPT !.pc = pc, !.root = req[r].root, !.id = id]
Found(r, id) == IF Valid(id) THEN Holding(r, "register", id) ELSE Answered

PlanBuilt(r) ==
  LET id == SnapshotId(req[r].root, req[r].seed, req[r].plan) IN
  /\ req[r].pc = "plan" /\ DOMAIN req[r].plan = Files
  /\ req' = [req EXCEPT ![r] =
               IF ~BothSplits(id.split) THEN Answered
               ELSE IF id \in DOMAIN final THEN Found(r, id)
               ELSE [@ EXCEPT !.pc = "lock", !.seed = None, !.id = id]]
  /\ Calm /\ OtherVars /\ UNCHANGED <<latest, final, locks, tables>>

(* Not enough disk space, an unreadable source file, a failed write: the   *)
(* request fails where it stands and its temporary directory stays.        *)
Fails(r) ==
  /\ req[r].pc \in {"plan", "lock", "copy", "copied"}
  /\ Fault /\ locks' = Unlocked(r) /\ Ends(r)
  /\ OtherVars /\ UNCHANGED <<latest, final, tables>>

LockTaken(r) ==
  /\ req[r].pc = "lock" /\ req[r].id \notin DOMAIN locks
  /\ locks' = [i \in DOMAIN locks \union {req[r].id} |-> IF i = req[r].id THEN r ELSE locks[i]]
  /\ Go(r, "locked")
  /\ Calm /\ OtherVars /\ UNCHANGED <<latest, final, tables>>

(* The lock file is made but its token cannot be written: nobody's lock.   *)
LockTorn(r) ==
  /\ req[r].pc = "lock" /\ req[r].id \notin DOMAIN locks
  /\ locks' = [i \in DOMAIN locks \union {req[r].id} |-> IF i = req[r].id THEN None ELSE locks[i]]
  /\ Fault /\ Ends(r)
  /\ OtherVars /\ UNCHANGED <<latest, final, tables>>

(* Mutant of LockBusy: no LOCK_TIMEOUT_SECONDS. *)
WaitsForEver(r) ==
  /\ req[r].pc = "lock" /\ req[r].id \in DOMAIN locks \intersect DOMAIN final
  /\ req' = [req EXCEPT ![r] = Found(r, @.id)]
  /\ Calm /\ OtherVars /\ UNCHANGED <<latest, final, locks, tables>>

(* The lock file exists: the snapshot may have been published meanwhile,   *)
(* else the request polls until LOCK_TIMEOUT_SECONDS have passed.          *)
LockBusy(r) ==
  /\ req[r].pc = "lock" /\ req[r].id \in DOMAIN locks
  /\ req' = [req EXCEPT ![r] = IF @.id \in DOMAIN final THEN Found(r, @.id) ELSE Answered]
  /\ Calm /\ OtherVars /\ UNCHANGED <<latest, final, locks, tables>>

Recheck(r) ==
  LET id == req[r].id IN
  /\ req[r].pc = "locked"
  /\ IF id \in DOMAIN final
     THEN req' = [req EXCEPT ![r] = Found(r, id)] /\ locks' = Unlocked(r)
     ELSE Go(r, "copy") /\ UNCHANGED locks
  /\ Calm /\ OtherVars /\ UNCHANGED <<latest, final, tables>>

(* _copy_verified: the source is hashed, copied, and the copy is hashed.   *)
HashSource(r) ==
  LET f == Walked(DOMAIN req[r].temp) IN
  /\ req[r].pc = "copy" /\ DOMAIN req[r].temp # Files
  /\ IF source[req[r].root][f] = req[r].plan[f]
     THEN /\ req' = [req EXCEPT ![r].pc = "copied", ![r].file = f] /\ UNCHANGED locks
     ELSE Ends(r) /\ locks' = Unlocked(r)
  /\ Calm /\ OtherVars /\ UNCHANGED <<latest, final, tables>>

(* Mutant of CopyAccepted: the copy is not hashed again. *)
CopyUnchecked(r, content) == TRUE

CopyAccepted(r, content) == content = req[r].plan[req[r].file]

(* Mutant of CopySource: a file that changed is copied again. *)
CopyRetried(r) ==
  LET f == req[r].file  now == source[req[r].root][f] IN
  /\ req[r].pc = "copied"
  /\ req' = [req EXCEPT ![r].pc = "copy", ![r].file = None,
               ![r].temp = IF CopyAccepted(r, now)
                           THEN [g \in DOMAIN @ \union {f} |-> IF g = f THEN now ELSE @[g]]
                           ELSE @]
  /\ Calm /\ OtherVars /\ UNCHANGED <<latest, final, locks, tables>>

CopySource(r) ==
  LET f == req[r].file  now == source[req[r].root][f] IN
  /\ req[r].pc = "copied"
  /\ IF CopyAccepted(r, now)
     THEN /\ req' = [req EXCEPT ![r].pc = "copy", ![r].file = None,
                       ![r].temp = [g \in DOMAIN @ \union {f} |-> IF g = f THEN now ELSE @[g]]]
          /\ UNCHANGED locks
     ELSE Ends(r) /\ locks' = Unlocked(r)
  /\ Calm /\ OtherVars /\ UNCHANGED <<latest, final, tables>>

(* data.yaml, manifest, the self-check of the temporary directory and its  *)
(* rename to the final one; a directory that exists is not replaced.       *)
Publish(r) ==
  LET id == req[r].id IN
  /\ req[r].pc = "copy" /\ DOMAIN req[r].temp = Files
  /\ IF id \in DOMAIN final
     THEN Ends(r) /\ locks' = Unlocked(r) /\ UNCHANGED final
     ELSE /\ final' = [i \in DOMAIN final \union {id} |-> IF i = id
                        THEN [files |-> req[r].temp, root |-> req[r].root,
                              born |-> Cardinality(DOMAIN final)]
                        ELSE final[i]]
          /\ req' = [req EXCEPT ![r] = Holding(r, "published", id)] /\ UNCHANGED locks
  /\ Calm /\ OtherVars /\ UNCHANGED <<latest, tables>>

(* The lock is released and the published directory validated once more.   *)
Release(r) ==
  /\ req[r].pc = "published" /\ locks' = Unlocked(r)
  /\ req' = [req EXCEPT ![r] = Found(r, @.id)]
  /\ Calm /\ OtherVars /\ UNCHANGED <<latest, final, tables>>

(* The snapshot is merged into what the handler read at its start and      *)
(* latest_dataset.json replaced; a failed write leaves the old file.       *)
Register(r) ==
  /\ req[r].pc = "register"
  /\ \/ Calm /\ latest' = [root |-> req[r].root, snap |-> req[r].id] /\ Go(r, "index")
     \/ Fault /\ UNCHANGED latest /\ Ends(r)
  /\ OtherVars /\ UNCHANGED <<final, locks, tables>>

(* Best effort: an index failure is only a warning in the answer.          *)
Index(r) ==
  /\ req[r].pc = "index" /\ Ends(r)
  /\ \/ Calm /\ tables' = tables \union {req[r].id}
     \/ Fault /\ UNCHANGED tables
  /\ OtherVars /\ UNCHANGED <<latest, final, locks>>

----------------------------------------------------------------------------
(* The environment: the user edits a source file; a published file is      *)
(* changed on disk; the server crashes, its lock files stay.               *)
Edit(root, f, c) ==
  /\ edits < MaxEdits /\ source[root][f] # c
  /\ source' = [source EXCEPT ![root][f] = c] /\ edits' = edits + 1
  /\ UNCHANGED <<latest, final, locks, req, tables, faults>>

Damage(id) ==
  /\ Valid(id) /\ Fault
  /\ \E f \in Files : final' = [final EXCEPT ![id].files[f] = None]
  /\ UNCHANGED <<source, latest, locks, req, tables, edits>>

Crash ==
  /\ Fault /\ \E r \in Requests : req[r] \notin {New, Answered}
  /\ req' = Stopped
  /\ UNCHANGED <<source, latest, final, locks, tables, edits>>

SnapInit ==
  /\ source = [d \in Roots |-> [f \in Files |-> 0]]
  /\ latest = None /\ final = <<>> /\ locks = <<>>
  /\ req = [r \in Requests |-> New]
  /\ tables = {} /\ edits = 0 /\ faults = 0

Step(r) ==
  \/ SplitBegins(r) \/ PlanFile(r) \/ PlanBuilt(r) \/ Fails(r) \/ LockTaken(r) \/ LockTorn(r)
  \/ LockBusy(r) \/ Recheck(r) \/ HashSource(r) \/ CopySource(r) \/ Publish(r)
  \/ Release(r) \/ Register(r) \/ Index(r)

Outside ==
  \/ \E d \in Roots : AnalyzeFolder(d) \/ \E f \in Files, c \in Contents : Edit(d, f, c)
  \/ \E id \in DOMAIN final : Damage(id)
  \/ TornAnalyze \/ Crash
=============================================================================
