--------------------------- MODULE StudyControlInv --------------------------
(* The inductive invariant of StudyControl: where the controllers of a     *)
(* study are, and what its requests and a reader of it still rely on.      *)
EXTENDS StudyControl

WorkerFields == {"pc", "run", "late", "stop", "error"}
WorkerPcs == ActivePcs \cup {"unborn", "publish", "release", "gone", "forgotten"}
LoopFields == {"op", "pc", "trial", "quiet"}
PollFields == {"op", "pc", "status", "best", "approved", "canStop", "error"}
States == {"UNCLAIMED", "PENDING", "SUCCESS", "FAILED", "CANCELLED"}

NotBorn(w) == worker[w].pc = "unborn"
Last(w) == \A v \in Workers : v > w => NotBorn(v)
Quiet == \A w \in Workers : ~IsActive(w)

(* Controllers are born in their order.                                    *)
WorkersInOrder ==
  /\ DOMAIN worker = Workers
  /\ \A w \in Workers :
       /\ DOMAIN worker[w] = WorkerFields /\ worker[w].pc \in WorkerPcs
       /\ NotBorn(w) => worker[w] = Unborn
       /\ \A v \in Workers : NotBorn(w) /\ w < v => NotBorn(v)

(* The slot is the controller's from its launch to its release, and it is  *)
(* the last one launched: a late publication cannot meet a newer one.      *)
HoldsSlot ==
  \A w \in Workers :
    worker[w].pc \in ActivePcs \cup {"publish", "release"} => slot = w /\ Last(w)

IsRegistered ==
  \A w \in Workers : worker[w].pc \in ActivePcs \cup {"publish"} => registered = w

(* A failure moves from the registered controller to the retained one.     *)
IsRetained ==
  \A w \in Workers :
    worker[w].pc \in {"release", "gone"} /\ Last(w) =>
      registered = Nobody /\ (worker[w].error # "none" => retained = w)

WorkerInv == WorkersInOrder /\ HoldsSlot /\ IsRegistered /\ IsRetained

(* Nothing was claimed and nobody works on a study that is not prepared.   *)
Fresh == Quiet /\ \A n \in Trials : study[n].state = "UNCLAIMED"

(* The status a controller works under, and nobody else moves.             *)
StatusInv ==
  /\ status \in {"NONE", "ABSENT"} => Fresh
  /\ \A w \in Workers :
       /\ At(w, "attempt") /\ worker[w].run => status = "READY"
       /\ At(w, "backoff") => ~worker[w].run
       /\ worker[w].pc \in SessionPcs \ {"attempt"} => status = "RUNNING"

StudyTyped == study \in [Trials -> [state : States, value : Nat]]

Winner(s, n) ==
  /\ n \in Succeeded(s)
  /\ \A m \in Succeeded(s) \ {n} : Precedes(s, n, m)

(* What the request of the event loop has read and still relies on.        *)
LoopInv ==
  /\ DOMAIN loop = LoopFields
  /\ loop.pc = "prepare" => Quiet /\ status = "ABSENT"
  /\ loop.pc = "read" => Quiet
  /\ loop.pc = "launch" => Quiet /\ status \in Admitted(loop.op)
  /\ loop.pc \in {"binding", "status", "slot"} =>
       /\ loop.trial \in Succeeded(study)
       /\ loop.pc = "slot" /\ loop.op = "formal" => status = "COMPLETED"
       /\ loop.quiet => Quiet /\ Winner(study, loop.trial)

(* What a reader has read and still relies on.                             *)
PollInv ==
  /\ DOMAIN poll = PollFields
  /\ poll.best # 0 => Succeeded(study) # {}
  /\ Reading /\ poll.op = "best" => poll.best # 0
  /\ poll.pc = "answer" /\ poll.status = "COMPLETED" => status = "COMPLETED"

StudyInv == WorkerInv /\ StatusInv /\ StudyTyped /\ LoopInv /\ PollInv /\ ApprovedIsFinal
=============================================================================
