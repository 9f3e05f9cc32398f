----------------------------- MODULE ModelStore -----------------------------
(***************************************************************************)
(* The controlled weight library of modules/model_store: listing, upload   *)
(* and resolution of .pt files (service.py) and their export to ONNX       *)
(* (onnx_export.py, onnx_export_worker.py).  The routes of                 *)
(* ui/model_store_api.py run on threads, so listings, uploads and exports  *)
(* interleave; the operator may add, replace or remove files by hand.      *)
(*                                                                         *)
(* A content number stands for the bytes of a weight and for its model_id, *)
(* the SHA-256 of these bytes.  A file name is an uploaded name n or the   *)
(* automatic name <<n, c>> of content c.  The bytes of an export are those *)
(* of the weight it was made from, or Foreign.                             *)
(***************************************************************************)
EXTENDS Naturals, FiniteSets

CONSTANTS Uploaded,   \* names given to uploads
          Contents,   \* bytes of weights
          StemOf,     \* [Uploaded -> stem]: names that differ in .pt / .PT share it
          OrderOf,    \* [names -> Nat]: the listing's order of names
          MaxModels,  \* longest listing
          Uploads, Exports,  \* requests of a behaviour
          MaxFaults,  \* acts of the operator, crashes, failed writes
          Foreign, None

Names == Uploaded \union (Uploaded \X Contents)
Roots == {"managed", "legacy"}
Paths == Roots \X Names
Targets == {StemOf[n] : n \in Uploaded} \union {<<StemOf[n], c>> : n \in Uploaded, c \in Contents}

ASSUME StoreAssumption ==
  /\ OrderOf \in [Names -> Nat] /\ \A m, n \in Names : OrderOf[m] = OrderOf[n] => m = n
  /\ MaxModels \in Nat \ {0} /\ MaxFaults \in Nat
  /\ None \notin Contents \union [id : Contents, bytes : Contents \union {Foreign}]

VARIABLES
  disk,    \* [Paths -> bytes or None]
  known,   \* _known: [Contents -> path or None]
  scan,    \* a listing under way: its rows, or None
  up,      \* [Uploads -> [pc, name, bytes, path]]
  ex,      \* [Exports -> [pc, id, source, target]]
  active,  \* _active: ids being exported
  onnx,    \* [Targets -> bytes or None]
  facts,   \* [Targets -> [id, bytes] or None]: the .export.json beside it
  touched, \* history: targets changed by hand between link and fact
  left,    \* history: targets whose file was left without its fact
  faults

vars == <<disk, known, scan, up, ex, active, onnx, facts, touched, left, faults>>
store == <<disk, known, scan, up>>
exported == <<ex, active, onnx, facts, touched, left>>

NoUpload == [pc |-> "new", name |-> None, bytes |-> None, path |-> None]
NoExport == [pc |-> "new", id |-> None, source |-> None, target |-> None]
Fault == faults < MaxFaults /\ faults' = faults + 1

----------------------------------------------------------------------------
(* Listing.  Of the files with one content the managed one wins, then the  *)
(* first in name order, and at most MaxModels are shown.                   *)

Rows == {p \in Paths : disk[p] # None}

Before(p, q) ==
  \/ p[1] = "managed" /\ q[1] # "managed"
  \/ p[1] = q[1] /\ OrderOf[p[2]] < OrderOf[q[2]]

Winners(rows) == {p \in rows : \A q \in rows : disk[q] = disk[p] => q = p \/ Before(p, q)}

ListedBefore(p, q) ==
  \/ OrderOf[p[2]] < OrderOf[q[2]]
  \/ p[2] = q[2] /\ Before(p, q)

Shown ==
  LET winners == Winners(Rows) IN
  {p \in winners : Cardinality({q \in winners : ListedBefore(q, p)}) < MaxModels}

ListScans ==
  LET shown == Shown IN
  /\ scan = None
  /\ scan' = [c \in Contents |-> IF \E p \in shown : disk[p] = c
                                 THEN CHOOSE p \in shown : disk[p] = c ELSE None]
  /\ UNCHANGED <<disk, known, up, exported, faults>>

(* _known is replaced by what the scan saw, not merged with it.            *)
ListEnds ==
  /\ scan # None /\ known' = scan /\ scan' = None
  /\ UNCHANGED <<disk, up, exported, faults>>

----------------------------------------------------------------------------
(* Upload: the bytes go to a temporary file, which is linked under the     *)
(* first candidate name that is free or already holds these bytes.         *)

UploadBegins(u) ==
  /\ up[u] = NoUpload
  /\ \E n \in Uploaded, c \in Contents :
       up' = [up EXCEPT ![u] = [pc |-> "named", name |-> n, bytes |-> c, path |-> None]]
  /\ UNCHANGED <<disk, known, scan, exported, faults>>

Candidate(u) == <<"managed", IF up[u].pc = "named" THEN up[u].name
                             ELSE <<up[u].name, up[u].bytes>>>>

(* os.link fails on a name that is taken. *)
Linkable(p) == disk[p] = None

UploadCommits(u) ==
  LET p == Candidate(u) IN
  /\ up[u].pc \in {"named", "renamed"}
  /\ IF Linkable(p) \/ disk[p] = up[u].bytes
     THEN disk' = [disk EXCEPT ![p] = up[u].bytes]
          /\ up' = [up EXCEPT ![u].pc = "known", ![u].path = p]
     ELSE /\ up' = [up EXCEPT ![u] = IF @.pc = "named" THEN [@ EXCEPT !.pc = "renamed"]
                                     ELSE [NoUpload EXCEPT !.pc = "answered"]]
          /\ UNCHANGED disk
  /\ UNCHANGED <<known, scan, exported, faults>>

UploadKnown(u) ==
  /\ up[u].pc = "known"
  /\ known' = [known EXCEPT ![up[u].bytes] = up[u].path]
  /\ up' = [up EXCEPT ![u] = [NoUpload EXCEPT !.pc = "answered"]]
  /\ UNCHANGED <<disk, scan, exported, faults>>

----------------------------------------------------------------------------
(* Resolution: the id must be known and its file still have its bytes.     *)
Resolves(c) == known[c] # None /\ disk[known[c]] = c
ResolvesManaged(c) == Resolves(c) /\ known[c][1] = "managed"

Target(p) == IF p[2] \in Uploaded THEN StemOf[p[2]] ELSE <<StemOf[p[2][1]], p[2][2]>>

(* Mutant of Vouched: a fact of that weight is enough. *)
VouchedByName(f, c, t) == f # None /\ f.id = c

(* _existing: the file is there with the fact of its publication.          *)
Vouched(f, c, t) == f # None /\ f.id = c /\ f.bytes = onnx[t]

Offered(c) ==
  /\ ResolvesManaged(c)
  /\ LET t == Target(known[c]) IN onnx[t] # None /\ Vouched(facts[t], c, t)

----------------------------------------------------------------------------
(* Export.                                                                 *)

Exporting(e) == ex[e].pc \notin {"new", "answered"}

(* Mutant of ExportEnds: no finally. *)
ExportLeaks(e) ==
  /\ ex' = [ex EXCEPT ![e] = [NoExport EXCEPT !.pc = "answered"]]
  /\ UNCHANGED active

(* The end of export(), on every path: the key is free again.              *)
ExportEnds(e) ==
  /\ ex' = [ex EXCEPT ![e] = [NoExport EXCEPT !.pc = "answered"]]
  /\ active' = active \ {ex[e].id}

ExportBegins(e, c) ==
  /\ ex[e] = NoExport /\ ResolvesManaged(c)
  /\ c \notin active /\ onnx[Target(known[c])] = None
  /\ ex' = [ex EXCEPT ![e] = [pc |-> "stage", id |-> c, source |-> known[c],
                              target |-> Target(known[c])]]
  /\ active' = active \union {c}
  /\ UNCHANGED <<store, onnx, facts, touched, left, faults>>

(* The weight is copied and hashed on the way.                             *)
Stage(e) ==
  /\ ex[e].pc = "stage"
  /\ IF disk[ex[e].source] = ex[e].id
     THEN ex' = [ex EXCEPT ![e].pc = "child"] /\ UNCHANGED active
     ELSE ExportEnds(e)
  /\ UNCHANGED <<store, onnx, facts, touched, left, faults>>

(* The child produces a checked file, or reports a failure, crashes or     *)
(* runs into its time limit.                                               *)
ChildEnds(e) ==
  /\ ex[e].pc = "child"
  /\ \/ ex' = [ex EXCEPT ![e].pc = "produced"] /\ UNCHANGED <<active, faults>>
     \/ Fault /\ ExportEnds(e)
  /\ UNCHANGED <<store, onnx, facts, touched, left>>

(* The source is resolved once more before anything is published.          *)
SourceVerified(e) ==
  /\ ex[e].pc = "produced"
  /\ IF ResolvesManaged(ex[e].id)
     THEN ex' = [ex EXCEPT ![e].pc = "publish"] /\ UNCHANGED active
     ELSE ExportEnds(e)
  /\ UNCHANGED <<store, onnx, facts, touched, left, faults>>

(* Mutant of Publish: os.replace instead of os.link. *)
PublishReplaces(e) ==
  /\ ex[e].pc = "publish"
  /\ onnx' = [onnx EXCEPT ![ex[e].target] = ex[e].id]
  /\ ex' = [ex EXCEPT ![e].pc = "record"]
  /\ UNCHANGED <<store, active, facts, touched, left, faults>>

Publish(e) ==
  LET t == ex[e].target IN
  /\ ex[e].pc = "publish"
  /\ IF onnx[t] = None
     THEN /\ onnx' = [onnx EXCEPT ![t] = ex[e].id] /\ left' = left \ {t}
          /\ ex' = [ex EXCEPT ![e].pc = "record"] /\ UNCHANGED active
     ELSE ExportEnds(e) /\ UNCHANGED <<onnx, left>>
  /\ UNCHANGED <<store, facts, touched, faults>>

(* The fact is computed from the published file and written beside it.     *)
Record(e) ==
  LET t == ex[e].target IN
  /\ ex[e].pc = "record" /\ onnx[t] # None
  /\ facts' = [facts EXCEPT ![t] = [id |-> ex[e].id, bytes |-> onnx[t]]]
  /\ ExportEnds(e)
  /\ UNCHANGED <<store, onnx, touched, left, faults>>

(* It cannot be written, or the file is gone.  The file is removed, which  *)
(* may fail as well and is not tried for an error that is no OSError: then *)
(* it stays, without a fact.                                               *)
RecordFails(e) ==
  LET t == ex[e].target IN
  /\ ex[e].pc = "record"
  /\ \/ onnx[t] = None /\ UNCHANGED <<onnx, left, faults>>
     \/ /\ onnx[t] # None /\ Fault
        /\ \/ onnx' = [onnx EXCEPT ![t] = None] /\ UNCHANGED left
           \/ left' = left \union {t} /\ UNCHANGED onnx
  /\ ExportEnds(e)
  /\ UNCHANGED <<store, facts, touched>>

----------------------------------------------------------------------------
(* The operator changes a weight or an export by hand.                     *)
WeightByHand(p, b) ==
  /\ disk[p] # b /\ Fault /\ disk' = [disk EXCEPT ![p] = b]
  /\ UNCHANGED <<known, scan, up, exported>>

OnnxByHand(t, b) ==
  /\ onnx[t] # b /\ Fault /\ onnx' = [onnx EXCEPT ![t] = b]
  /\ touched' = touched \union (IF \E e \in Exports : ex[e].pc = "record" /\ ex[e].target = t
                                THEN {t} ELSE {})
  /\ UNCHANGED <<store, ex, active, facts, left>>

(* The server restarts: what it only held in memory is gone, and a file    *)
(* between its link and its fact keeps no fact.                            *)
Restart ==
  /\ Fault
  /\ known' = [c \in Contents |-> None] /\ scan' = None /\ active' = {}
  /\ up' = [u \in Uploads |-> IF up[u] = NoUpload THEN NoUpload ELSE [NoUpload EXCEPT !.pc = "answered"]]
  /\ ex' = [e \in Exports |-> IF ex[e] = NoExport THEN NoExport ELSE [NoExport EXCEPT !.pc = "answered"]]
  /\ left' = left \union {ex[e].target : e \in {f \in Exports : ex[f].pc = "record"}}
  /\ UNCHANGED <<disk, onnx, facts, touched>>

----------------------------------------------------------------------------
Init ==
  /\ disk \in {[p \in Paths |-> IF p = q THEN c ELSE None] : q \in {"legacy"} \X Uploaded, c \in Contents}
  /\ known = [c \in Contents |-> None] /\ scan = None
  /\ up = [u \in Uploads |-> NoUpload] /\ ex = [e \in Exports |-> NoExport]
  /\ active = {} /\ onnx = [t \in Targets |-> None] /\ facts = [t \in Targets |-> None]
  /\ touched = {} /\ left = {} /\ faults = 0

ExportStep(e) ==
  \/ \E c \in Contents : ExportBegins(e, c)
  \/ Stage(e) \/ ChildEnds(e) \/ SourceVerified(e) \/ Publish(e) \/ Record(e) \/ RecordFails(e)

Service ==
  \/ ListScans \/ ListEnds
  \/ \E u \in Uploads : UploadBegins(u) \/ UploadCommits(u) \/ UploadKnown(u)
  \/ \E e \in Exports : ExportStep(e)

Outside ==
  \/ \E p \in Roots \X Uploaded, b \in Contents \union {None} : WeightByHand(p, b)
  \/ \E t \in Targets, b \in {Foreign, None} : OnnxByHand(t, b)
  \/ Restart

Next == Service \/ Outside
Spec == Init /\ [][Next]_vars

----------------------------------------------------------------------------
(* A download offered for a weight is an export of these very bytes: not a *)
(* file put there by hand, not one of another weight with the same stem,   *)
(* not one of a source replaced while it was exported (_existing,          *)
(* _published_facts).  A file the operator swaps between its link and its  *)
(* fact is outside the claim (touched).                                    *)
OfferedIsOfItsWeight ==
  \A c \in Contents : Offered(c) => LET t == Target(known[c]) IN onnx[t] = c \/ t \in touched

(* An id has one running export, and no ended one keeps it busy            *)
(* (_active, the finally of export).                                       *)
BusyIsExporting ==
  /\ active = {ex[e].id : e \in {f \in Exports : Exporting(f)}}
  /\ \A e, f \in Exports : Exporting(e) /\ Exporting(f) /\ ex[e].id = ex[f].id => e = f

(* A file without its fact blocks its weight's export until somebody       *)
(* removes it by hand.  None is left behind, unless the fact could not be  *)
(* written and the file not removed, or the server died between the two    *)
(* (_publish; onnx_export.py:485 says that none may be left).  A file that *)
(* is published later has to have its fact again.                          *)
NoHalfExport ==
  \A t \in Targets \ (touched \union left) : onnx[t] \notin {None, Foreign} =>
    \/ \E e \in Exports : ex[e].pc = "record" /\ ex[e].target = t
    \/ facts[t] # None /\ facts[t].bytes = onnx[t]

(* The service changes the bytes of no file that exists: neither an upload *)
(* nor an export replaces what lies under its name (os.link); it removes   *)
(* only the file it has itself just linked.  An act of the operator changes *)
(* neither ex nor up.                                                      *)
NothingIsOverwritten ==
  [][<<ex, up>>' # <<ex, up>> =>
       /\ \A p \in Paths : disk[p] # None => disk'[p] = disk[p]
       /\ \A t \in Targets : onnx[t] # None =>
            \/ onnx'[t] = onnx[t]
            \/ onnx'[t] = None /\ \E e \in Exports : ex[e].pc = "record" /\ ex[e].target = t]_vars

(* An export that ended leaves nothing that blocks the next one: no busy   *)
(* id on any path, and no file without its fact but those named above.     *)
ExportsEndClean == BusyIsExporting /\ NoHalfExport
=============================================================================
