-------------------------- MODULE StoreAndKeysProofs -------------------------
(***************************************************************************)
(* What the server keeps beside the trainings: the exports of the weight   *)
(* library (ModelStore) and the keys of the AI services (Credentials).     *)
(* They share no state; the first half is about the one, the second about  *)
(* the other.                                                              *)
(***************************************************************************)
EXTENDS ModelStore, Credentials, TLAPS

-----------------------------------------------------------------------------
(* The exports, for any weights, names, requests and faults: what is       *)
(* offered is of its weight, what ended is clean, and no file is           *)
(* overwritten.                                                            *)
USE StoreAssumption

-----------------------------------------------------------------------------
MaybePath == Paths \cup {None}

(* The domains the argument needs: an uploaded file and a known one lie    *)
(* somewhere, and what is exported goes to a target.                       *)
StoreTyped ==
  /\ disk = [p \in Paths |-> disk[p]]
  /\ known \in [Contents -> MaybePath]
  /\ scan # None => scan \in [Contents -> MaybePath]
  /\ up \in [Uploads -> [pc : {"new", "named", "renamed", "known", "answered"},
                         name : Uploaded \cup {None}, bytes : Contents \cup {None}, path : MaybePath]]
  /\ \A u \in Uploads : up[u].pc \in {"named", "renamed"} => up[u].name \in Uploaded /\ up[u].bytes \in Contents

ExportTyped ==
  /\ ex \in [Exports -> [pc : {"new", "stage", "child", "produced", "publish", "record", "answered"},
                         id : Contents \cup {None}, source : MaybePath, target : Targets \cup {None}]]
  /\ \A e \in Exports : Exporting(e) => ex[e].id \in Contents /\ ex[e].target \in Targets
  /\ onnx \in [Targets -> Contents \cup {Foreign, None}]
  /\ facts = [t \in Targets |-> facts[t]]

Linked(e) == ex[e].pc = "record" /\ ex[e].target \notin touched

(* Between its link and its fact a file nobody touched is this export's.   *)
LinkIsOwn ==
  /\ \A e \in Exports : Linked(e) => onnx[ex[e].target] = ex[e].id
  /\ \A e, f \in Exports : Linked(e) /\ Linked(f) /\ ex[e].target = ex[f].target => e = f

(* A fact speaks of the bytes of its weight.                               *)
FactIsOfWeight ==
  \A t \in Targets \ touched : facts[t] # None => facts[t].bytes = facts[t].id

ExportInv ==
  /\ ExportTyped
  /\ LinkIsOwn
  /\ FactIsOfWeight
  /\ ExportsEndClean

StoreInv == StoreTyped /\ ExportInv

-----------------------------------------------------------------------------
(* An export goes to a target.                                             *)
LEMMA TargetMeans == \A p \in Paths : Target(p) \in Targets
BY DEF Target, Targets, Paths, Names

LEMMA CandidateMeans ==
  ASSUME StoreTyped, NEW u \in Uploads, up[u].pc \in {"named", "renamed"}
  PROVE  Candidate(u) \in Paths
BY DEF StoreTyped, Candidate, Paths, Roots, Names

LEMMA StoreInit == Init => StoreInv
BY DEF Init, StoreInv, StoreTyped, ExportInv, ExportTyped, LinkIsOwn, Linked, FactIsOfWeight, ExportsEndClean,
   BusyIsExporting, NoHalfExport, Exporting, NoUpload, NoExport, MaybePath

(* What changes nothing of the exports keeps what is known of them.        *)
LEMMA ExportStays == ExportInv /\ UNCHANGED exported => ExportInv'
BY DEF exported, ExportInv, ExportTyped, LinkIsOwn, Linked, FactIsOfWeight, ExportsEndClean,
   BusyIsExporting, NoHalfExport, Exporting

(* Listings, uploads and the operator's weights.                           *)
LEMMA LibraryKeeps ==
  ASSUME StoreTyped,
         \/ ListScans \/ ListEnds
         \/ \E u \in Uploads : UploadBegins(u) \/ UploadCommits(u) \/ UploadKnown(u)
         \/ \E p \in Roots \X Uploaded, b \in Contents \union {None} : WeightByHand(p, b)
  PROVE  StoreTyped' /\ UNCHANGED exported
<1> USE DEF StoreTyped, MaybePath
<1>1. CASE ListScans
  <2>1. \A c \in Contents : (\E p \in Shown : disk[p] = c) => (CHOOSE p \in Shown : disk[p] = c) \in Paths
    BY DEF Shown, Winners, Rows
  <2> QED BY <1>1, <2>1 DEF ListScans
<1>2. CASE ListEnds
  BY <1>2 DEF ListEnds
<1>3. ASSUME NEW u \in Uploads, UploadBegins(u) PROVE StoreTyped' /\ UNCHANGED exported
  BY <1>3 DEF UploadBegins, NoUpload
<1>4. ASSUME NEW u \in Uploads, UploadCommits(u) PROVE StoreTyped' /\ UNCHANGED exported
  <2>0. Candidate(u) \in Paths /\ up[u].pc \in {"named", "renamed"} /\ UNCHANGED <<known, scan>>
        /\ UNCHANGED exported
    BY <1>4, CandidateMeans DEF UploadCommits
  <2>1. CASE Linkable(Candidate(u)) \/ disk[Candidate(u)] = up[u].bytes
    BY <1>4, <2>0, <2>1 DEF UploadCommits
  <2>2. CASE ~(Linkable(Candidate(u)) \/ disk[Candidate(u)] = up[u].bytes)
    BY <1>4, <2>0, <2>2 DEF UploadCommits, NoUpload
  <2> QED BY <2>1, <2>2
<1>5. ASSUME NEW u \in Uploads, UploadKnown(u) PROVE StoreTyped' /\ UNCHANGED exported
  BY <1>5 DEF UploadKnown, NoUpload
<1>6. ASSUME NEW p, NEW b, WeightByHand(p, b) PROVE StoreTyped' /\ UNCHANGED exported
  BY <1>6 DEF WeightByHand
<1> QED BY <1>1, <1>2, <1>3, <1>4, <1>5, <1>6

-----------------------------------------------------------------------------
(* An export.                                                              *)

USE DEF ExportTyped, LinkIsOwn, Linked, FactIsOfWeight, BusyIsExporting, NoHalfExport, Exporting

LEMMA EndMeans ==
  ASSUME ExportTyped, BusyIsExporting, NEW e \in Exports, Exporting(e), ExportEnds(e)
  PROVE  /\ BusyIsExporting'
         /\ ex' \in [Exports -> [pc : {"new", "stage", "child", "produced", "publish", "record", "answered"},
                         id : Contents \cup {None}, source : MaybePath, target : Targets \cup {None}]]
         /\ ex'[e].pc = "answered" /\ \A f \in Exports \ {e} : ex'[f] = ex[f]
<1>1. ex'[e].pc = "answered" /\ \A f \in Exports \ {e} : ex'[f] = ex[f]
  BY DEF ExportEnds, NoExport
<1>2. BusyIsExporting'
  BY <1>1 DEF ExportEnds
<1> QED BY <1>1, <1>2 DEF ExportEnds, NoExport, MaybePath

(* A step of an export that has not linked its file.                       *)
LEMMA BeforeTheLink ==
  ASSUME StoreInv, NEW e \in Exports,
         \/ \E c \in Contents : ExportBegins(e, c)
         \/ Stage(e) \/ ChildEnds(e) \/ SourceVerified(e)
  PROVE  ExportInv'
<1> USE DEF StoreInv, ExportInv, ExportsEndClean
<1>1. ASSUME NEW c \in Contents, ExportBegins(e, c) PROVE ExportInv'
  <2>1. known[c] \in Paths
    BY <1>1 DEF ExportBegins, ResolvesManaged, Resolves, StoreTyped, MaybePath
  <2>2. Target(known[c]) \in Targets
    BY <2>1, TargetMeans
  <2> QED BY <1>1, <2>1, <2>2 DEF ExportBegins, NoExport, MaybePath
<1>2. ASSUME Exporting(e), ex[e].pc # "record", ExportEnds(e), UNCHANGED <<onnx, facts, touched, left>>
      PROVE  ExportInv'
  <2>0. ExportTyped' /\ BusyIsExporting'
    BY <1>2, EndMeans
  <2>1. LinkIsOwn'
    BY <1>2, EndMeans, SMTT(20)
  <2>2. FactIsOfWeight'
    BY <1>2, EndMeans
  <2>3. NoHalfExport'
    BY <1>2, EndMeans
  <2> QED BY <2>0, <2>1, <2>2, <2>3
<1>3. ASSUME NEW next \in {"child", "produced", "publish"}, Exporting(e), ex[e].pc # "record",
             ex' = [ex EXCEPT ![e].pc = next], UNCHANGED <<active, onnx, facts, touched, left>>
      PROVE  ExportInv'
  BY <1>3
<1>4. CASE Stage(e)
  BY <1>2, <1>3, <1>4 DEF Stage
<1>5. CASE ChildEnds(e)
  BY <1>2, <1>3, <1>5 DEF ChildEnds
<1>6. CASE SourceVerified(e)
  BY <1>2, <1>3, <1>6 DEF SourceVerified
<1> QED BY <1>1, <1>4, <1>5, <1>6

(* The link is made where nothing was, so nobody else's fact is to come.   *)
LEMMA PublishKeeps ==
  ASSUME StoreInv, NEW e \in Exports, Publish(e)
  PROVE  ExportInv'
<1> USE DEF StoreInv, ExportInv, ExportsEndClean
<1>1. CASE onnx[ex[e].target] = None
  <2> DEFINE t == ex[e].target
  <2>0. /\ UNCHANGED <<active, facts, touched>> /\ ex[e].pc = "publish" /\ t \in Targets /\ ex[e].id \in Contents
        /\ ex' = [ex EXCEPT ![e].pc = "record"] /\ onnx' = [onnx EXCEPT ![t] = ex[e].id]
        /\ left' = left \ {t}
    BY <1>1 DEF Publish
  <2>1. ExportTyped' /\ BusyIsExporting'
    BY <2>0
  <2>2. LinkIsOwn'
    BY <1>1, <2>0
  <2>3. FactIsOfWeight'
    BY <2>0
  <2>4. NoHalfExport'
    BY <2>0
  <2> QED BY <2>1, <2>2, <2>3, <2>4
<1>2. CASE onnx[ex[e].target] # None
  BY <1>2, EndMeans DEF Publish
<1> QED BY <1>1, <1>2

(* The fact completes the export, or its failure takes the file away, or   *)
(* the file is left.                                                       *)
LEMMA RecordKeeps ==
  ASSUME StoreInv, NEW e \in Exports, Record(e) \/ RecordFails(e)
  PROVE  ExportInv'
<1> USE DEF StoreInv, ExportInv, ExportsEndClean
<1>1. CASE Record(e)
  <2> DEFINE t == ex[e].target
  <2>0. /\ UNCHANGED <<onnx, touched, left>> /\ ExportEnds(e) /\ ex[e].pc = "record" /\ t \in Targets
        /\ facts' = [facts EXCEPT ![t] = [id |-> ex[e].id, bytes |-> onnx[t]]]
        /\ onnx[t] # None
    BY <1>1 DEF Record
  <2>1. /\ ExportTyped' /\ BusyIsExporting'
        /\ ex'[e].pc = "answered" /\ \A f \in Exports \ {e} : ex'[f] = ex[f]
    BY <2>0, EndMeans
  <2>2. LinkIsOwn'
    <3>1. \A f \in Exports : Linked(f)' => Linked(f) /\ ex'[f] = ex[f]
      BY <2>0, <2>1
    <3> QED BY <2>0, <3>1
  <2>3. FactIsOfWeight'
    BY <2>0
  <2>4. NoHalfExport'
    <3>1. facts'[t] = [id |-> ex[e].id, bytes |-> onnx[t]]
          /\ facts'[t] \in [id : Contents, bytes : Contents \cup {Foreign}]
      BY <2>0
    <3>2. \A u \in Targets : u # t => facts'[u] = facts[u]
      BY <2>0
    <3>3. \A f \in Exports : ex[f].pc = "record" /\ ex[f].target # t =>
            ex'[f].pc = "record" /\ ex'[f].target = ex[f].target
      BY <2>1
    <3> QED BY <2>0, <3>1, <3>2, <3>3
  <2> QED BY <2>1, <2>2, <2>3, <2>4
<1>2. CASE RecordFails(e)
  <2> DEFINE t == ex[e].target
  <2>0. /\ UNCHANGED <<facts, touched>> /\ ExportEnds(e) /\ ex[e].pc = "record" /\ t \in Targets
        /\ \/ onnx' = [onnx EXCEPT ![t] = None] /\ left' = left
           \/ onnx' = onnx /\ (left' = left \cup {t} \/ (onnx[t] = None /\ left' = left))
    BY <1>2 DEF RecordFails
  <2>4. /\ ExportTyped' /\ BusyIsExporting'
        /\ ex'[e].pc = "answered" /\ \A f \in Exports \ {e} : ex'[f] = ex[f]
    <3>1. onnx' \in [Targets -> Contents \cup {Foreign, None}]
      BY <2>0
    <3> QED BY <2>0, <3>1, EndMeans
  <2>1. LinkIsOwn'
    <3>1. \A f \in Exports : Linked(f)' => f # e /\ Linked(f) /\ ex'[f] = ex[f]
      BY <2>0, <2>4
    <3>2. \A f \in Exports : Linked(f)' => ex[f].target # t /\ ex[f].target \in Targets
      BY <2>0, <3>1
    <3>3. \A u \in Targets : u # t => onnx'[u] = onnx[u]
      BY <2>0
    <3> QED BY <3>1, <3>2, <3>3
  <2>2. FactIsOfWeight'
    BY <2>0
  <2>3. NoHalfExport'
    BY <2>0, <2>4
  <2> QED BY <2>4, <2>1, <2>2, <2>3
<1> QED BY <1>1, <1>2

(* The operator and the end of the server.                                 *)
LEMMA OutsideKeeps ==
  ASSUME StoreInv, Restart \/ \E t \in Targets, b \in {Foreign, None} : OnnxByHand(t, b)
  PROVE  StoreInv'
<1> USE DEF StoreInv, ExportInv, ExportsEndClean
<1>1. CASE Restart
  BY <1>1 DEF Restart, StoreTyped, NoUpload, NoExport, MaybePath
<1>2. ASSUME NEW t \in Targets, NEW b \in {Foreign, None}, OnnxByHand(t, b) PROVE StoreInv'
  <2>0. StoreTyped'
    BY <1>2 DEF OnnxByHand, store, StoreTyped
  <2>1. ExportTyped' /\ BusyIsExporting' /\ FactIsOfWeight'
    BY <1>2 DEF OnnxByHand
  <2>2. LinkIsOwn'
    BY <1>2 DEF OnnxByHand
  <2>3. NoHalfExport'
    BY <1>2 DEF OnnxByHand
  <2> QED BY <2>0, <2>1, <2>2, <2>3
<1> QED BY <1>1, <1>2

-----------------------------------------------------------------------------
LEMMA StoreStep == StoreInv /\ [Next]_vars => StoreInv'
<1>1. StoreInv /\ UNCHANGED vars => StoreInv'
  BY ExportStays DEF vars, store, exported, StoreInv, StoreTyped
<1>2. ASSUME StoreInv, NEW e \in Exports, ExportStep(e) PROVE StoreInv'
  <2>1. UNCHANGED store
    BY <1>2 DEF ExportStep, ExportBegins, Stage, ChildEnds, SourceVerified, Publish, Record, RecordFails
  <2>2. StoreTyped'
    BY <1>2, <2>1 DEF store, StoreInv, StoreTyped
  <2>3. ExportInv'
    BY <1>2, BeforeTheLink, PublishKeeps, RecordKeeps DEF ExportStep
  <2> QED BY <2>2, <2>3 DEF StoreInv
<1>3. StoreInv /\ Outside => StoreInv'
  BY OutsideKeeps, LibraryKeeps, ExportStays DEF Outside, StoreInv
<1>4. StoreInv /\ Service => StoreInv'
  BY <1>2, LibraryKeeps, ExportStays DEF Service, StoreInv
<1> QED BY <1>1, <1>3, <1>4 DEF Next

(* The inductive invariant of the library.                                 *)
THEOREM StoreInvariant == Spec => []StoreInv
BY StoreInit, StoreStep, PTL DEF Spec

(* What is offered for a weight is an export of its very bytes.            *)
THEOREM OffersAreTrue == Spec => []OfferedIsOfItsWeight
<1>1. StoreInv => OfferedIsOfItsWeight
  BY TargetMeans DEF StoreInv, ExportInv, StoreTyped, MaybePath, OfferedIsOfItsWeight, Offered,
     ResolvesManaged, Resolves, Vouched
<1> QED BY <1>1, StoreInvariant, PTL

(* An ended export leaves no busy id, whichever path it took, and no file  *)
(* without its fact but one whose removal failed or that a crash has left. *)
THEOREM ExportsAreClean == Spec => []ExportsEndClean
<1>1. StoreInv => ExportsEndClean
  BY DEF StoreInv, ExportInv
<1> QED BY <1>1, StoreInvariant, PTL

(* No upload or export changes the bytes of a file that exists.            *)
THEOREM FilesAreKept == Spec => NothingIsOverwritten
<1> DEFINE Kept == <<ex, up>>' # <<ex, up>> =>
       /\ \A p \in Paths : disk[p] # None => disk'[p] = disk[p]
       /\ \A t \in Targets : onnx[t] # None =>
            \/ onnx'[t] = onnx[t]
            \/ onnx'[t] = None /\ \E e \in Exports : ex[e].pc = "record" /\ ex[e].target = t
<1>1. StoreInv /\ [Next]_vars => [Kept]_vars
  <2> SUFFICES ASSUME StoreInv, Next PROVE Kept
    OBVIOUS
  <2>1. CASE UNCHANGED <<disk, onnx>>
    BY <2>1
  <2>2. ASSUME NEW u \in Uploads, UploadCommits(u) PROVE Kept
    BY <2>2 DEF UploadCommits, Linkable, exported, StoreInv, StoreTyped
  <2>3. ASSUME NEW e \in Exports, Publish(e) PROVE Kept
    BY <2>3 DEF Publish, store, StoreInv, ExportInv
  <2>4. ASSUME NEW e \in Exports, RecordFails(e) PROVE Kept
    BY <2>4 DEF RecordFails, store, StoreInv, ExportInv
  <2>5. ASSUME NEW p, NEW b, WeightByHand(p, b) PROVE Kept
    BY <2>5 DEF WeightByHand, exported
  <2>6. ASSUME NEW t, NEW b, OnnxByHand(t, b) PROVE Kept
    BY <2>6 DEF OnnxByHand, store
  <2>7. ListScans \/ ListEnds \/ Restart => UNCHANGED disk
    BY DEF ListScans, ListEnds, Restart
  <2>8. CASE ListScans \/ ListEnds
    BY <2>8 DEF ListScans, ListEnds, exported
  <2>9. CASE Restart
    BY <2>9, <2>1 DEF Restart
  <2>10. ASSUME NEW u \in Uploads, UploadBegins(u) \/ UploadKnown(u) PROVE UNCHANGED <<disk, onnx>>
    BY <2>10 DEF UploadBegins, UploadKnown, exported
  <2>11. ASSUME NEW e \in Exports,
                (\E c \in Contents : ExportBegins(e, c)) \/ Stage(e) \/ ChildEnds(e) \/ SourceVerified(e) \/ Record(e)
         PROVE  UNCHANGED <<disk, onnx>>
    BY <2>11 DEF ExportBegins, Stage, ChildEnds, SourceVerified, Record, store
  <2> QED BY <2>1, <2>2, <2>3, <2>4, <2>5, <2>6, <2>8, <2>9, <2>10, <2>11 DEF Next, Service, Outside, ExportStep
<1> QED BY <1>1, StoreInvariant, PTL DEF Spec, NothingIsOverwritten

HIDE StoreAssumption

-----------------------------------------------------------------------------
(* What the process remembers of the keys, and that it loses none, for any *)
(* number of purposes, keys, threads, saves and mishaps.                   *)
USE CredentialsAssumption, ValuesAssumption

Slots == Keys \cup {Nothing}

(* The domains the argument needs.                                         *)
KeysTyped ==
  /\ file \in [Purposes -> Slots] \cup {Damaged}
  /\ legacy \in [Purposes -> Slots]
  /\ cache \in [Purposes -> Slots]
  /\ env \in [Purposes -> Slots \cup {Junk}]
  /\ test \in [Purposes -> {Nothing} \cup [key : Slots, result : {"success", "failed", "rejected", "untested"}]]
  /\ reader \in [Readers -> {Nothing} \cup [purpose : Purposes, value : Slots]]
  /\ mishaps \in Nat

(* What a thread holds is the key of the file unless it was overtaken.     *)
ReadersAreCurrent ==
  \A r \in Readers : reader[r] # Nothing /\ reader[r].purpose \notin overtaken =>
    file # Damaged /\ file[reader[r].purpose] = reader[r].value

MemoryInv == KeysTyped /\ ReadersAreCurrent /\ MemoryIsCurrent

-----------------------------------------------------------------------------
LEMMA MemoryInit == KeysInit => MemoryInv
BY SMTT(30) DEF KeysInit, MemoryInv, KeysTyped, ReadersAreCurrent, MemoryIsCurrent,
   CacheIsCurrent, TestIsOfTheKey, RestartKeepsSettings, Empty, Slots

(* A value put under one key leaves an intact file with the other keys.    *)
LEMMA WithMeans ==
  ASSUME KeysTyped, NEW p \in Purposes, NEW k \in Slots, file' \in With(p, k)
  PROVE  /\ file # Damaged /\ file \in [Purposes -> Slots]
         /\ file' \in [Purposes -> Slots] /\ file' # Damaged
         /\ file'[p] = k /\ \A q \in Purposes \ {p} : file'[q] = file[q]
<1>1. file # Damaged /\ file' = [file EXCEPT ![p] = k]
  BY DEF With, Stored
<1>2. file \in [Purposes -> Slots]
  BY <1>1 DEF KeysTyped
<1>3. file' \in [Purposes -> Slots]
  BY <1>1, <1>2
<1>4. file' # Damaged
  BY <1>3 DEF Slots
<1> QED BY <1>1, <1>2, <1>3, <1>4

(* One lemma per action.                                                   *)
LEMMA PutCredentialKeeps ==
  ASSUME MemoryInv, NEW p \in Purposes, NEW k \in Keys, NEW tested \in BOOLEAN, PutCredential(p, k, tested)
  PROVE  MemoryInv'
<1>1. k \in Slots /\ file' \in With(p, k)
  BY DEF PutCredential, MemoryInv, KeysTyped, Slots
<1>2. /\ file # Damaged /\ file \in [Purposes -> Slots]
      /\ file' \in [Purposes -> Slots] /\ file' # Damaged
      /\ file'[p] = k /\ \A q \in Purposes \ {p} : file'[q] = file[q]
  BY <1>1, WithMeans DEF MemoryInv
<1> QED BY <1>2, SMTT(30) DEF PutCredential, Overtakes, Refused, FromEnv,
   MemoryInv, KeysTyped, ReadersAreCurrent, MemoryIsCurrent,
   CacheIsCurrent, TestIsOfTheKey, RestartKeepsSettings, settings, Slots

LEMMA DeleteCredentialKeeps ==
  ASSUME MemoryInv, NEW p \in Purposes, DeleteCredential(p)
  PROVE  MemoryInv'
<1>1. Nothing \in Slots /\ file' \in With(p, Nothing)
  BY DEF DeleteCredential, MemoryInv, KeysTyped, Slots
<1>2. /\ file # Damaged /\ file \in [Purposes -> Slots]
      /\ file' \in [Purposes -> Slots] /\ file' # Damaged
      /\ file'[p] = Nothing /\ \A q \in Purposes \ {p} : file'[q] = file[q]
  BY <1>1, WithMeans DEF MemoryInv
<1> QED BY <1>2, SMTT(30) DEF DeleteCredential, Overtakes, Forgets, Refused, FromEnv,
   MemoryInv, KeysTyped, ReadersAreCurrent, MemoryIsCurrent,
   CacheIsCurrent, TestIsOfTheKey, RestartKeepsSettings, settings, Slots

LEMMA TestCredentialKeeps ==
  ASSUME MemoryInv, NEW p \in Purposes, TestCredential(p)
  PROVE  MemoryInv'
BY SMTT(30) DEF TestCredential, Resolved, Cached, FromEnv,
   MemoryInv, KeysTyped, ReadersAreCurrent, MemoryIsCurrent,
   CacheIsCurrent, TestIsOfTheKey, RestartKeepsSettings, settings, Slots

LEMMA UpdateAiSettingsKeeps ==
  ASSUME MemoryInv, NEW p \in Purposes, UpdateAiSettings(p)
  PROVE  MemoryInv'
<1>1. PICK s \in Requested(p) : config' = [config EXCEPT ![p] = s] /\ app' = [app EXCEPT ![p] = s]
  BY DEF UpdateAiSettings
<1>2. UNCHANGED <<env, file, test, legacy, reader, overtaken, torn, mishaps>>
      /\ cache' = [cache EXCEPT ![p] = Nothing]
  BY DEF UpdateAiSettings
<1>3. RestartKeepsSettings'
  BY <1>1, <1>2 DEF MemoryInv, MemoryIsCurrent, RestartKeepsSettings
<1>4. KeysTyped' /\ ReadersAreCurrent' /\ CacheIsCurrent' /\ TestIsOfTheKey'
  BY <1>2 DEF MemoryInv, KeysTyped, ReadersAreCurrent, MemoryIsCurrent,
     CacheIsCurrent, TestIsOfTheKey, FromEnv, Slots
<1> QED BY <1>3, <1>4 DEF MemoryInv, MemoryIsCurrent

LEMMA MigrateStoresKeeps ==
  ASSUME MemoryInv, NEW p \in Purposes, MigrateStores(p)
  PROVE  MemoryInv'
<1>1. legacy[p] \in Slots /\ file' \in With(p, legacy[p])
  BY DEF MigrateStores, MemoryInv, KeysTyped, Slots
<1>2. /\ file # Damaged /\ file \in [Purposes -> Slots]
      /\ file' \in [Purposes -> Slots] /\ file' # Damaged
      /\ file'[p] = legacy[p] /\ \A q \in Purposes \ {p} : file'[q] = file[q]
  BY <1>1, WithMeans DEF MemoryInv
<1> QED BY <1>2, SMTT(30) DEF MigrateStores, Migratable, Overtakes, Forgets, Refused, FromEnv,
   MemoryInv, KeysTyped, ReadersAreCurrent, MemoryIsCurrent,
   CacheIsCurrent, TestIsOfTheKey, RestartKeepsSettings, settings, Slots

LEMMA MigrateRefusedKeeps ==
  ASSUME MemoryInv, NEW p \in Purposes, MigrateRefused(p)
  PROVE  MemoryInv'
BY SMTT(30) DEF MigrateRefused, FromEnv,
   MemoryInv, KeysTyped, ReadersAreCurrent, MemoryIsCurrent,
   CacheIsCurrent, TestIsOfTheKey, RestartKeepsSettings, settings, Slots

LEMMA MigrateForgetsLegacyKeeps ==
  ASSUME MemoryInv, NEW p \in Purposes, MigrateForgetsLegacy(p)
  PROVE  MemoryInv'
BY SMTT(30) DEF MigrateForgetsLegacy, FromEnv, Forgets,
   MemoryInv, KeysTyped, ReadersAreCurrent, MemoryIsCurrent,
   CacheIsCurrent, TestIsOfTheKey, RestartKeepsSettings, settings, Slots

LEMMA MigrateFailsKeeps ==
  ASSUME MemoryInv, NEW p \in Purposes, MigrateFails(p)
  PROVE  MemoryInv'
BY SMTT(30) DEF MigrateFails, FromEnv, Mishap,
   MemoryInv, KeysTyped, ReadersAreCurrent, MemoryIsCurrent,
   CacheIsCurrent, TestIsOfTheKey, RestartKeepsSettings, settings, Slots

LEMMA ExpireKeeps ==
  ASSUME MemoryInv, NEW p \in Purposes, Expire(p)
  PROVE  MemoryInv'
BY SMTT(30) DEF Expire, FromEnv,
   MemoryInv, KeysTyped, ReadersAreCurrent, MemoryIsCurrent,
   CacheIsCurrent, TestIsOfTheKey, RestartKeepsSettings, settings, Slots

LEMMA ReaderFillsKeeps ==
  ASSUME MemoryInv, NEW r \in Readers, ReaderFills(r)
  PROVE  MemoryInv'
BY SMTT(30) DEF ReaderFills, FromEnv,
   MemoryInv, KeysTyped, ReadersAreCurrent, MemoryIsCurrent,
   CacheIsCurrent, TestIsOfTheKey, RestartKeepsSettings, settings, Slots

LEMMA ReaderReadsKeeps ==
  ASSUME MemoryInv, NEW p \in Purposes, NEW r \in Readers, ReaderReads(r, p)
  PROVE  MemoryInv'
BY SMTT(30) DEF ReaderReads, FromEnv,
   MemoryInv, KeysTyped, ReadersAreCurrent, MemoryIsCurrent,
   CacheIsCurrent, TestIsOfTheKey, RestartKeepsSettings, settings, Slots

LEMMA UpdateConfigTornKeeps ==
  ASSUME MemoryInv, UpdateConfigTorn
  PROVE  MemoryInv'
BY SMTT(30) DEF UpdateConfigTorn, FromEnv, Mishap, Empty,
   MemoryInv, KeysTyped, ReadersAreCurrent, MemoryIsCurrent,
   CacheIsCurrent, TestIsOfTheKey, RestartKeepsSettings, settings, Slots

LEMMA FileByHandKeeps ==
  ASSUME MemoryInv, FileByHand
  PROVE  MemoryInv'
BY SMTT(30) DEF FileByHand, FromEnv, Mishap, Empty,
   MemoryInv, KeysTyped, ReadersAreCurrent, MemoryIsCurrent,
   CacheIsCurrent, TestIsOfTheKey, RestartKeepsSettings, settings, Slots

LEMMA RestartKeeps ==
  ASSUME MemoryInv, ServerRestarts
  PROVE  MemoryInv'
BY SMTT(30) DEF ServerRestarts, FromEnv, Mishap, Empty,
   MemoryInv, KeysTyped, ReadersAreCurrent, MemoryIsCurrent,
   CacheIsCurrent, TestIsOfTheKey, RestartKeepsSettings, settings, Slots

LEMMA MemoryStep == MemoryInv /\ [KeysNext]_keyVars => MemoryInv'
<1>1. MemoryInv /\ UNCHANGED keyVars => MemoryInv'
  BY DEF keyVars, settings, MemoryInv, KeysTyped, ReadersAreCurrent,
     MemoryIsCurrent, CacheIsCurrent, TestIsOfTheKey, RestartKeepsSettings,
     FromEnv
<1> QED BY <1>1, PutCredentialKeeps,
           DeleteCredentialKeeps,
           TestCredentialKeeps,
           UpdateAiSettingsKeeps,
           MigrateStoresKeeps,
           MigrateRefusedKeeps,
           MigrateForgetsLegacyKeeps,
           MigrateFailsKeeps,
           ExpireKeeps,
           ReaderFillsKeeps,
           ReaderReadsKeeps,
           UpdateConfigTornKeeps,
           FileByHandKeeps,
           RestartKeeps
        DEF KeysNext, Route

-----------------------------------------------------------------------------
(* A step keeps the keys.                                                  *)
LEMMA LegacyStep ==
  ASSUME MemoryInv, [KeysNext]_keyVars, NEW p \in Purposes,
         legacy[p] # Nothing, legacy'[p] = Nothing, ~torn'
  PROVE  file # Damaged /\ file[p] = legacy[p]
<1>1. CASE \E q \in Purposes : MigrateForgetsLegacy(q)
  BY <1>1 DEF MigrateForgetsLegacy, ReadBack, MemoryInv, KeysTyped
<1>2. CASE UNCHANGED legacy
  BY <1>2
<1>3. CASE UpdateConfigTorn
  BY <1>3 DEF UpdateConfigTorn
<1> QED BY <1>1, <1>2, <1>3 DEF KeysNext, Route, PutCredential, DeleteCredential,
   TestCredential, UpdateAiSettings, MigrateStores, MigrateRefused,
   MigrateFails, Expire, ReaderFills, ReaderReads, FileByHand, ServerRestarts, keyVars,
   settings

LEMMA FileStep ==
  ASSUME MemoryInv, [KeysNext]_keyVars, mishaps' = mishaps, file' # file
  PROVE  file # Damaged /\ \E p \in Purposes :
           /\ \A q \in Purposes \ {p} : file'[q] = file[q]
           /\ (migrating' = p) => (file[p] = Nothing)
<1>1. ASSUME NEW p \in Purposes, NEW k \in Slots, file' \in With(p, k),
             migrating' # p \/ file[p] = Nothing
      PROVE  file # Damaged /\ \E q \in Purposes :
               /\ \A x \in Purposes \ {q} : file'[x] = file[x]
               /\ (migrating' = q) => (file[q] = Nothing)
  BY <1>1, WithMeans DEF MemoryInv
<1>2. ASSUME NEW p \in Purposes, NEW k \in Keys, NEW tested \in BOOLEAN,
             PutCredential(p, k, tested)
      PROVE  k \in Slots /\ file' \in With(p, k) /\ migrating' # p
  BY <1>2 DEF PutCredential, Idle, Slots
<1>3. ASSUME NEW p \in Purposes, DeleteCredential(p)
      PROVE  Nothing \in Slots /\ file' \in With(p, Nothing) /\ migrating' # p
  BY <1>3 DEF DeleteCredential, Idle, Slots
<1>4. ASSUME NEW p \in Purposes, MigrateStores(p)
      PROVE  legacy[p] \in Slots /\ file' \in With(p, legacy[p]) /\ file[p] = Nothing
  BY <1>4 DEF MigrateStores, Migratable, MemoryInv, KeysTyped
<1>5. ~FileByHand
  BY DEF FileByHand, Mishap, MemoryInv, KeysTyped
<1>6. \/ \E p \in Purposes, k \in Keys, tested \in BOOLEAN : PutCredential(p, k, tested)
      \/ \E p \in Purposes : DeleteCredential(p) \/ MigrateStores(p)
  BY <1>5 DEF KeysNext, Route, TestCredential, UpdateAiSettings, MigrateRefused,
     MigrateForgetsLegacy, MigrateFails, Expire, ReaderFills, ReaderReads,
     UpdateConfigTorn, ServerRestarts, keyVars
<1> QED BY <1>1, <1>2, <1>3, <1>4, <1>6

-----------------------------------------------------------------------------
LEMMA MemoryHolds == KeysSpec => []MemoryInv
BY MemoryInit, MemoryStep, PTL DEF KeysSpec

(* The cache, the test results and the settings in memory speak of what is *)
(* stored, whichever thread fills the cache when.                          *)
THEOREM MemoryStaysCurrent == KeysSpec => []MemoryIsCurrent
<1>1. MemoryInv => MemoryIsCurrent
  BY DEF MemoryInv
<1> QED BY <1>1, MemoryHolds, PTL

(* No migration loses a key, no save replaces one unasked.                 *)
THEOREM KeysStay == KeysSpec => KeysAreKept
<1>1. MemoryInv /\ [KeysNext]_keyVars =>
        \A p \in Purposes : legacy[p] # Nothing /\ legacy'[p] = Nothing /\ ~torn'
          => file # Damaged /\ file[p] = legacy[p]
  BY LegacyStep
<1>2. MemoryInv /\ [KeysNext]_keyVars =>
        (mishaps' = mishaps /\ file' # file =>
           file # Damaged /\ \E p \in Purposes :
             /\ \A q \in Purposes \ {p} : file'[q] = file[q]
             /\ (migrating' = p) => (file[p] = Nothing))
  BY FileStep
<1> QED BY <1>1, <1>2, MemoryHolds, PTL
        DEF KeysAreKept, MigrationKeepsTheKey, FileIsRespected, KeysSpec
=============================================================================
