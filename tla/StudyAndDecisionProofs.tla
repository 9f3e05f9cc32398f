----------------------- MODULE StudyAndDecisionProofs -----------------------
(***************************************************************************)
(* The two components that choose what is trained: a study seen from the   *)
(* page (StudyControl) and the rounds of a tuning session (TuningDecision). *)
(* They share no state; the first half is about the one, the second about  *)
(* the other.                                                              *)
(***************************************************************************)
EXTENDS StudyControlInv, TuningDecisionInv, WellFoundedInduction, FiniteSetTheorems, TLAPS

(* The controllers of a study, what is reported of them and what may be    *)
(* trained from it, for any budget, scores, number of controllers,         *)
(* restarts and drifts.                                                    *)

LEMMA WorkerIsNumbered ==
  ASSUME NEW w \in Workers
  PROVE  w # Nobody /\ w # OtherTraining /\ w \in Nat
BY BoundsAssumption DEF Workers, Nobody, OtherTraining

(* A step of an active controller that stays active.                       *)
LEMMA ActiveMoves ==
  ASSUME WorkerInv, NEW w \in Workers, worker[w].pc \in ActivePcs,
         NEW x, DOMAIN x = WorkerFields, x.pc \in ActivePcs,
         worker' = [worker EXCEPT ![w] = x], UNCHANGED <<registered, retained, slot>>
  PROVE  WorkerInv'
<1>1. /\ DOMAIN worker = Workers /\ DOMAIN worker' = Workers /\ worker'[w] = x
      /\ \A v \in Workers \ {w} : worker'[v] = worker[v]
  BY DEF WorkerInv, WorkersInOrder
<1>2. \A v \in Workers : NotBorn(v)' <=> NotBorn(v)
  BY <1>1 DEF NotBorn, ActivePcs, SessionPcs
<1>3. WorkersInOrder'
  BY <1>1, <1>2 DEF WorkerInv, WorkersInOrder, NotBorn, ActivePcs, SessionPcs, WorkerPcs
<1>4. \A v \in Workers : Last(v)' <=> Last(v)
  BY <1>2 DEF Last
<1>5. HoldsSlot' /\ IsRegistered' /\ IsRetained'
  BY <1>1, <1>4 DEF WorkerInv, HoldsSlot, IsRegistered, IsRetained, ActivePcs, SessionPcs
<1> QED BY <1>3, <1>5 DEF WorkerInv

(* A step outside the controllers: the slot may pass between nobody and    *)
(* another training.                                                       *)
LEMMA OutsideMoves ==
  ASSUME WorkerInv, UNCHANGED <<worker, registered, retained>>,
         slot' = slot \/ slot \in {Nobody, OtherTraining}
  PROVE  WorkerInv'
<1>1. ASSUME NEW w \in Workers, worker[w].pc \in ActivePcs \cup {"publish", "release"}
      PROVE  slot' = w
  BY <1>1, WorkerIsNumbered DEF WorkerInv, HoldsSlot
<1> QED BY <1>1 DEF WorkerInv, WorkersInOrder, HoldsSlot, IsRegistered, IsRetained, Last, NotBorn

LEMMA LaunchKeepsWorkers ==
  ASSUME WorkerInv, NEW w \in Workers, Launch(w) PROVE WorkerInv'
<1>1. /\ DOMAIN worker = Workers /\ DOMAIN worker' = Workers
      /\ DOMAIN worker'[w] = WorkerFields /\ worker'[w].pc = "attempt"
      /\ \A v \in Workers \ {w} : worker'[v] = worker[v]
      /\ NotBorn(w) /\ Last(w) /\ slot' = w /\ registered' = w
  BY DEF Launch, WorkerInv, WorkersInOrder, NotBorn, Unborn, Last, WorkerFields
<1>2. \A v \in Workers : worker[v].pc \notin ActivePcs \cup {"publish", "release"}
  BY WorkerIsNumbered DEF Launch, WorkerInv, HoldsSlot
<1>3. \A v \in Workers : v < w => ~NotBorn(v)
  BY DEF Launch, WorkerInv, WorkersInOrder
<1>4. \A v \in Workers \ {w} : v < w \/ (v > w /\ NotBorn(v))
  BY <1>1, WorkerIsNumbered DEF Last
<1>5. WorkersInOrder'
  BY <1>1, <1>3, WorkerIsNumbered DEF WorkerInv, WorkersInOrder, NotBorn, WorkerPcs, ActivePcs, SessionPcs
<1>6. Last(w)'
  BY <1>1, WorkerIsNumbered DEF Last, NotBorn
<1>7. HoldsSlot' /\ IsRegistered'
  BY <1>1, <1>2, <1>6 DEF HoldsSlot, IsRegistered
<1>8. IsRetained'
  <2>1. ASSUME NEW v \in Workers, worker'[v].pc \in {"release", "gone"}, Last(v)' PROVE FALSE
    <3>1. v # w /\ worker'[v] = worker[v]
      BY <1>1, <2>1
    <3>2. v < w
      BY <1>4, <3>1, <2>1 DEF NotBorn
    <3> QED BY <1>1, <2>1, <3>2, WorkerIsNumbered DEF Last, NotBorn
  <2> QED BY <2>1 DEF IsRetained
<1> QED BY <1>5, <1>7, <1>8 DEF WorkerInv

(* A controller leaves: its slot and its registration stay its own until   *)
(* it has told what became of it.                                          *)
LEMMA LeavingMoves ==
  ASSUME WorkerInv, NEW w \in Workers, ~NotBorn(w), NEW x, x.pc # "unborn", x.pc \in WorkerPcs,
         DOMAIN x = WorkerFields, worker' = [worker EXCEPT ![w] = x]
  PROVE  /\ DOMAIN worker = Workers /\ DOMAIN worker' = Workers /\ worker'[w] = x
         /\ \A v \in Workers \ {w} : worker'[v] = worker[v]
         /\ WorkersInOrder' /\ \A v \in Workers : Last(v)' <=> Last(v)
<1>1. /\ DOMAIN worker = Workers /\ DOMAIN worker' = Workers /\ worker'[w] = x
      /\ \A v \in Workers \ {w} : worker'[v] = worker[v]
  BY DEF WorkerInv, WorkersInOrder
<1>2. \A v \in Workers : NotBorn(v)' <=> NotBorn(v)
  BY <1>1 DEF NotBorn
<1>3. WorkersInOrder'
  BY <1>1, <1>2 DEF WorkerInv, WorkersInOrder, NotBorn
<1> QED BY <1>1, <1>2, <1>3 DEF Last

LEMMA OnlyOneLasts ==
  ASSUME WorkerInv, NEW v \in Workers, NEW w \in Workers, Last(v), Last(w),
         ~NotBorn(v), ~NotBorn(w)
  PROVE  v = w
BY WorkerIsNumbered DEF Last

LEMMA MarkDoneKeepsWorkers ==
  ASSUME WorkerInv, NEW w \in Workers, MarkDone(w) PROVE WorkerInv'
<1> DEFINE x == [Unborn EXCEPT !.pc = "publish", !.error = worker[w].error]
<1>1. worker[w].pc = "ended" /\ ~NotBorn(w) /\ worker' = [worker EXCEPT ![w] = x]
  BY DEF MarkDone, At, NotBorn
<1>2. DOMAIN x = WorkerFields /\ x.pc = "publish"
  BY DEF Unborn, WorkerFields
<1> HIDE DEF x
<1>3. /\ DOMAIN worker = Workers /\ DOMAIN worker' = Workers /\ worker'[w] = x
      /\ \A v \in Workers \ {w} : worker'[v] = worker[v]
      /\ WorkersInOrder' /\ \A v \in Workers : Last(v)' <=> Last(v)
  BY <1>1, <1>2, LeavingMoves DEF WorkerPcs
<1>4. HoldsSlot' /\ IsRegistered' /\ IsRetained'
  BY <1>1, <1>2, <1>3 DEF WorkerInv, HoldsSlot, IsRegistered, IsRetained, ActivePcs, SessionPcs, MarkDone,
     OutsideWorker, registry
<1> QED BY <1>3, <1>4 DEF WorkerInv

LEMMA PublishKeepsWorkers ==
  ASSUME WorkerInv, NEW w \in Workers, Publish(w) PROVE WorkerInv'
<1> DEFINE x == [worker[w] EXCEPT !.pc = "release"]
<1>1. worker[w].pc = "publish" /\ ~NotBorn(w) /\ worker' = [worker EXCEPT ![w] = x]
  BY DEF Publish, At, NotBorn, Becomes
<1>2. DOMAIN x = WorkerFields /\ x.pc = "release" /\ x.error = worker[w].error
  BY DEF WorkerInv, WorkersInOrder, WorkerFields
<1> HIDE DEF x
<1>3. /\ DOMAIN worker = Workers /\ DOMAIN worker' = Workers /\ worker'[w] = x
      /\ \A v \in Workers \ {w} : worker'[v] = worker[v]
      /\ WorkersInOrder' /\ \A v \in Workers : Last(v)' <=> Last(v)
  BY <1>1, <1>2, LeavingMoves DEF WorkerPcs
<1>4. slot = w /\ Last(w) /\ slot' = slot
  BY <1>1 DEF WorkerInv, HoldsSlot, Publish
<1>5. \A v \in Workers \ {w} : worker[v].pc \notin ActivePcs \cup {"publish", "release"}
  BY <1>4 DEF WorkerInv, HoldsSlot
<1>6. \A v \in Workers \ {w} : worker[v].pc \in {"release", "gone"} => ~Last(v)
  BY <1>1, <1>4, OnlyOneLasts DEF NotBorn
<1>7. registered' = Nobody /\ (worker[w].error # "none" => retained' = w)
  BY DEF Publish
<1>8. HoldsSlot' /\ IsRegistered'
  BY <1>2, <1>3, <1>4, <1>5 DEF HoldsSlot, IsRegistered, ActivePcs, SessionPcs
<1>9. IsRetained'
  BY <1>2, <1>3, <1>6, <1>7 DEF IsRetained
<1> QED BY <1>3, <1>8, <1>9 DEF WorkerInv

LEMMA ReleaseKeepsWorkers ==
  ASSUME WorkerInv, NEW w \in Workers, Release(w) PROVE WorkerInv'
<1> DEFINE x == [worker[w] EXCEPT !.pc = "gone"]
<1>1. worker[w].pc = "release" /\ ~NotBorn(w) /\ worker' = [worker EXCEPT ![w] = x]
  BY DEF Release, At, NotBorn, Becomes
<1>2. DOMAIN x = WorkerFields /\ x.pc = "gone" /\ x.error = worker[w].error
  BY DEF WorkerInv, WorkersInOrder, WorkerFields
<1> HIDE DEF x
<1>3. /\ DOMAIN worker = Workers /\ DOMAIN worker' = Workers /\ worker'[w] = x
      /\ \A v \in Workers \ {w} : worker'[v] = worker[v]
      /\ WorkersInOrder' /\ \A v \in Workers : Last(v)' <=> Last(v)
  BY <1>1, <1>2, LeavingMoves DEF WorkerPcs
<1>4. slot = w
  BY <1>1 DEF WorkerInv, HoldsSlot
<1>5. \A v \in Workers \ {w} : worker[v].pc \notin ActivePcs \cup {"publish", "release"}
  BY <1>4 DEF WorkerInv, HoldsSlot
<1>6. HoldsSlot' /\ IsRegistered'
  BY <1>2, <1>3, <1>5 DEF HoldsSlot, IsRegistered, ActivePcs, SessionPcs
<1>7. IsRetained'
  BY <1>1, <1>2, <1>3 DEF WorkerInv, IsRetained, Release, registry
<1> QED BY <1>3, <1>6, <1>7 DEF WorkerInv

LEMMA RetentionKeepsWorkers ==
  ASSUME WorkerInv, RetentionEnds PROVE WorkerInv'
<1>1. /\ retained # Nobody /\ worker[retained].pc = "gone"
      /\ worker' = [worker EXCEPT ![retained] = Forgotten]
      /\ UNCHANGED <<registered, slot>> /\ retained' = Nobody
  BY DEF RetentionEnds, At
<1>2. DOMAIN Forgotten = WorkerFields /\ Forgotten.pc = "forgotten"
  BY DEF Forgotten, Unborn, WorkerFields
<1>3. CASE retained \in Workers
  <2>1. PICK w \in Workers : w = retained
    BY <1>3
  <2>2. ~NotBorn(w) /\ worker' = [worker EXCEPT ![w] = Forgotten]
    BY <1>1, <2>1 DEF NotBorn
  <2>3. /\ DOMAIN worker = Workers /\ DOMAIN worker' = Workers /\ worker'[w] = Forgotten
        /\ \A v \in Workers \ {w} : worker'[v] = worker[v]
        /\ WorkersInOrder' /\ \A v \in Workers : Last(v)' <=> Last(v)
    BY <1>2, <2>2, LeavingMoves DEF WorkerPcs
  <2>4. HoldsSlot' /\ IsRegistered'
    BY <1>1, <1>2, <2>3 DEF WorkerInv, HoldsSlot, IsRegistered, ActivePcs, SessionPcs
  <2>5. IsRetained'
    BY <1>1, <1>2, <2>1, <2>3 DEF WorkerInv, IsRetained
  <2> QED BY <2>3, <2>4, <2>5 DEF WorkerInv
<1>4. CASE retained \notin Workers
  <2>1. DOMAIN worker' = DOMAIN worker /\ \A v \in Workers : worker'[v] = worker[v]
    BY <1>1, <1>4 DEF WorkerInv, WorkersInOrder
  <2>2. \A v \in Workers : (NotBorn(v)' <=> NotBorn(v)) /\ (Last(v)' <=> Last(v))
    BY <2>1 DEF Last, NotBorn
  <2>3. WorkersInOrder' /\ HoldsSlot' /\ IsRegistered'
    BY <1>1, <2>1, <2>2 DEF WorkerInv, WorkersInOrder, HoldsSlot, IsRegistered
  <2>4. IsRetained'
    BY <1>1, <1>4, <2>1, <2>2 DEF WorkerInv, IsRetained
  <2> QED BY <2>3, <2>4 DEF WorkerInv
<1> QED BY <1>3, <1>4

LEMMA RestartKeepsWorkers ==
  ASSUME WorkerInv, Restart PROVE WorkerInv'
<1>1. /\ DOMAIN worker' = Workers
      /\ \A w \in Workers : worker'[w] = IF worker[w] = Unborn THEN Unborn ELSE Forgotten
  BY DEF Restart
<1>2. /\ DOMAIN Unborn = WorkerFields /\ Unborn.pc = "unborn"
      /\ DOMAIN Forgotten = WorkerFields /\ Forgotten.pc = "forgotten"
  BY DEF Forgotten, Unborn, WorkerFields
<1>3. \A w \in Workers : NotBorn(w)' <=> NotBorn(w)
  BY <1>1, <1>2 DEF WorkerInv, WorkersInOrder, NotBorn
<1>4. WorkersInOrder'
  BY <1>1, <1>2, <1>3 DEF WorkerInv, WorkersInOrder, NotBorn, WorkerPcs
<1>5. HoldsSlot' /\ IsRegistered' /\ IsRetained'
  BY <1>1, <1>2 DEF HoldsSlot, IsRegistered, IsRetained, ActivePcs, SessionPcs
<1> QED BY <1>4, <1>5 DEF WorkerInv

(* A stop request changes nothing the registry relies on.                  *)
LEMMA StopKeepsWorkers ==
  ASSUME WorkerInv, Stop
  PROVE  /\ WorkerInv' /\ DOMAIN worker' = Workers
         /\ \A v \in Workers : /\ worker'[v].pc = worker[v].pc
                             /\ worker'[v].run = worker[v].run
<1>1. ControllerFor # Nobody => ControllerFor = Get /\ worker[Get].pc \in ActivePcs
  BY DEF ControllerFor, IsActive
<1>2. CASE Get \in Workers
  <2>1. PICK w \in Workers : w = Get
    BY <1>2
  <2> DEFINE x == [worker[w] EXCEPT !.stop = TRUE]
  <2>2. worker' = [worker EXCEPT ![w] = x] /\ worker[w].pc \in ActivePcs
    BY <1>1, <2>1 DEF Stop
  <2>3. DOMAIN x = WorkerFields /\ x.pc = worker[w].pc /\ x.run = worker[w].run
    BY DEF WorkerInv, WorkersInOrder
  <2> HIDE DEF x
  <2>4. WorkerInv'
    BY <2>2, <2>3, ActiveMoves DEF Stop, registry
  <2> QED BY <2>2, <2>3, <2>4 DEF WorkerInv, WorkersInOrder
<1>3. CASE Get \notin Workers
  <2>1. DOMAIN worker' = DOMAIN worker /\ \A v \in Workers : worker'[v] = worker[v]
    BY <1>1, <1>3 DEF WorkerInv, WorkersInOrder, Stop
  <2>2. \A v \in Workers : (NotBorn(v)' <=> NotBorn(v)) /\ (Last(v)' <=> Last(v))
    BY <2>1 DEF Last, NotBorn
  <2>3. WorkerInv'
    BY <2>1, <2>2 DEF WorkerInv, WorkersInOrder, HoldsSlot, IsRegistered, IsRetained, Stop, registry
  <2> QED BY <2>1, <2>3 DEF WorkerInv, WorkersInOrder
<1> QED BY <1>2, <1>3

-----------------------------------------------------------------------------
(* The first of the ranking exists: among the successful trials one is     *)
(* beaten by fewest others, and it is beaten by none.                      *)
LEMMA LeastOfSet ==
  ASSUME NEW T \in SUBSET Nat, T # {}
  PROVE  \E x \in T : \A y \in T : x <= y
<1>1. PICK x \in T : \A y \in T : ~ (<<y, x>> \in OpToRel(<, Nat))
  BY WFMin, NatLessThanWellFounded
<1>2. \A y \in T : ~ (y < x)
  BY <1>1 DEF OpToRel
<1>3. ASSUME NEW y \in T PROVE x <= y
  <2>1. x \in Nat /\ y \in Nat /\ ~ (y < x)
    BY <1>2
  <2> QED BY <2>1
<1> QED BY <1>3

LEMMA SucceededFields ==
  ASSUME StudyTyped
  PROVE  /\ IsFiniteSet(Succeeded(study))
         /\ \A n \in Succeeded(study) : n \in Nat /\ study[n].value \in Nat
<1>1. Succeeded(study) \subseteq Trials /\ Trials \subseteq Nat
  BY DEF Trials, Succeeded
<1>2. IsFiniteSet(Trials)
  BY FS_Interval, BudgetAssumption DEF Trials
<1>3. \A n \in Succeeded(study) : study[n].value \in Nat
  BY <1>1 DEF StudyTyped
<1> QED BY <1>1, <1>2, <1>3, FS_Subset

LEMMA RankingOrder ==
  ASSUME StudyTyped, NEW k \in Succeeded(study), NEW m \in Succeeded(study), NEW n \in Succeeded(study)
  PROVE  /\ ~Precedes(study, m, m)
         /\ Precedes(study, k, m) /\ Precedes(study, m, n) => Precedes(study, k, n)
         /\ m # n => Precedes(study, m, n) \/ Precedes(study, n, m)
<1> DEFINE vk == study[k].value  vm == study[m].value  vn == study[n].value
<1>1. vk \in Nat /\ vm \in Nat /\ vn \in Nat /\ k \in Nat /\ m \in Nat /\ n \in Nat
  BY SucceededFields
<1>2. /\ Precedes(study, m, m) <=> vm > vm \/ (vm = vm /\ m < m)
      /\ Precedes(study, k, m) <=> vk > vm \/ (vk = vm /\ k < m)
      /\ Precedes(study, m, n) <=> vm > vn \/ (vm = vn /\ m < n)
      /\ Precedes(study, n, m) <=> vn > vm \/ (vn = vm /\ n < m)
      /\ Precedes(study, k, n) <=> vk > vn \/ (vk = vn /\ k < n)
  BY DEF Precedes
<1> HIDE DEF vk, vm, vn
<1> QED BY <1>1, <1>2

LEMMA WinnerExists ==
  ASSUME StudyTyped, Succeeded(study) # {}
  PROVE  \E n \in Succeeded(study) : \A m \in Succeeded(study) \ {n} : Precedes(study, n, m)
<1> DEFINE S == Succeeded(study)
           Better == [n \in S |-> {m \in S : Precedes(study, m, n)}]
           T == {Cardinality(Better[n]) : n \in S}
<1>1. \A n \in S : /\ IsFiniteSet(Better[n]) /\ Cardinality(Better[n]) \in Nat
                  /\ Better[n] = {m \in S : Precedes(study, m, n)}
  <2>1. \A n \in S : Better[n] \subseteq S
    OBVIOUS
  <2> QED BY <2>1, SucceededFields, FS_Subset, FS_CardinalityType
<1> HIDE DEF Better
<1>2. T \in SUBSET Nat /\ T # {}
  BY <1>1
<1> HIDE DEF T
<1>3. PICK x \in T : \A y \in T : x <= y
  BY <1>2, LeastOfSet
<1>4. PICK n \in S : x = Cardinality(Better[n])
  BY DEF T
<1>5. \A m \in S : Cardinality(Better[n]) <= Cardinality(Better[m])
  BY <1>3, <1>4 DEF T
<1>6. ASSUME NEW m \in S, Precedes(study, m, n) PROVE FALSE
  <2>1. ASSUME NEW k \in Better[m] PROVE k \in Better[n]
    <3>1. k \in S /\ Precedes(study, k, m)
      BY <1>1
    <3>2. Precedes(study, k, n)
      BY <1>6, <3>1, RankingOrder
    <3> QED BY <1>1, <3>1, <3>2
  <2>2. m \notin Better[m] /\ m \in Better[n]
    <3>1. ~Precedes(study, m, m)
      BY RankingOrder
    <3> QED BY <1>1, <1>6, <3>1
  <2>3. Cardinality(Better[m]) < Cardinality(Better[n])
    <3>1. Better[m] # Better[n] /\ IsFiniteSet(Better[n])
      BY <1>1, <2>2
    <3>2. Cardinality(Better[m]) <= Cardinality(Better[n]) /\ Cardinality(Better[m]) # Cardinality(Better[n])
      BY <2>1, <3>1, FS_Subset
    <3> QED BY <1>1, <3>2
  <2> QED BY <1>1, <1>5, <2>3
<1>7. ASSUME NEW m \in S \ {n} PROVE Precedes(study, n, m)
  BY <1>6, RankingOrder
<1> QED BY <1>7

LEMMA TopWins ==
  ASSUME StudyTyped, Top(study) # 0
  PROVE  Winner(study, Top(study)) /\ Succeeded(study) # {}
<1>1. Succeeded(study) # {}
  BY DEF Top
<1>2. Top(study) \in Succeeded(study) /\ \A m \in Succeeded(study) \ {Top(study)} : Precedes(study, Top(study), m)
  BY <1>1, WinnerExists DEF Top
<1> QED BY <1>1, <1>2 DEF Winner

-----------------------------------------------------------------------------
(* Without a controller to be found none is active.                        *)
LEMMA NobodyFound ==
  ASSUME WorkerInv, ControllerFor = Nobody
  PROVE  Quiet
BY WorkerIsNumbered DEF WorkerInv, IsRegistered, Quiet, IsActive, ControllerFor, Get

(* While a controller is active nothing that was read relies on there      *)
(* being none.                                                             *)
LEMMA ActiveMeans ==
  ASSUME StudyInv, NEW w \in Workers, IsActive(w)
  PROVE  /\ ~Quiet /\ status \notin {"NONE", "ABSENT"} /\ ~poll.approved
         /\ loop.pc \notin {"prepare", "read", "launch"}
         /\ loop.pc \in {"binding", "status", "slot"} => ~loop.quiet
         /\ \A v \in Workers \ {w} : ~IsActive(v)
<1>1. ~Quiet
  BY DEF Quiet
<1>2. ~poll.approved
  BY DEF StudyInv, ApprovedIsFinal
<1>3. \A v \in Workers \ {w} : ~IsActive(v)
  BY DEF StudyInv, WorkerInv, IsRegistered, IsActive
<1> QED BY <1>1, <1>2, <1>3 DEF StudyInv, StatusInv, Fresh, LoopInv

(* A step of an active controller.                                         *)
LEMMA ControllerMoves ==
  ASSUME StudyInv, NEW w \in Workers, IsActive(w),
         NEW x, worker' = [worker EXCEPT ![w] = x] \/ (worker' = worker /\ x = worker[w]),
         UNCHANGED <<loop, poll>>, WorkerInv', StudyTyped', Succeeded(study) \subseteq Succeeded(study'),
         status' \notin {"NONE", "ABSENT"}, status = "COMPLETED" => status' = "COMPLETED",
         x.pc = "attempt" /\ x.run => status' = "READY", x.pc = "backoff" => ~x.run,
         x.pc \in SessionPcs \ {"attempt"} => status' = "RUNNING"
  PROVE  StudyInv'
<1>1. /\ ~Quiet /\ status \notin {"NONE", "ABSENT"} /\ ~poll.approved
      /\ loop.pc \notin {"prepare", "read", "launch"}
      /\ loop.pc \in {"binding", "status", "slot"} => ~loop.quiet
      /\ \A v \in Workers \ {w} : ~IsActive(v)
  BY ActiveMeans
<1>2. DOMAIN worker = Workers
  BY DEF StudyInv, WorkerInv, WorkersInOrder
<1>3. worker'[w] = x /\ \A v \in Workers \ {w} : worker'[v] = worker[v]
  BY <1>2
<1>4. StatusInv'
  BY <1>1, <1>3 DEF StatusInv, IsActive, At, ActivePcs, SessionPcs
<1>5. LoopInv'
  BY <1>1 DEF StudyInv, LoopInv
<1>6. PollInv'
  BY DEF StudyInv, PollInv, Reading
<1>7. ApprovedIsFinal'
  BY <1>1 DEF ApprovedIsFinal
<1> QED BY <1>4, <1>5, <1>6, <1>7 DEF StudyInv

(* A step of a controller that is over, or of nobody.                      *)
LEMMA RegistryMoves ==
  ASSUME StudyInv, WorkerInv', UNCHANGED <<study, status, loop, poll>>,
         \A v \in Workers : IsActive(v)' => /\ IsActive(v) /\ worker'[v].pc = worker[v].pc
                                          /\ worker'[v].run = worker[v].run
  PROVE  StudyInv'
<1>1. Quiet => Quiet'
  BY DEF Quiet
<1>2. StatusInv'
  BY <1>1 DEF StudyInv, StatusInv, Fresh, IsActive, At, ActivePcs, SessionPcs
<1>3. LoopInv'
  BY <1>1 DEF StudyInv, LoopInv
<1>4. PollInv' /\ StudyTyped'
  BY DEF StudyInv, PollInv, StudyTyped, Reading
<1>5. ApprovedIsFinal'
  BY DEF StudyInv, ApprovedIsFinal
<1> QED BY <1>2, <1>3, <1>4, <1>5 DEF StudyInv

-----------------------------------------------------------------------------
(* The controller's own steps.                                             *)
LEMMA AttemptKeeps ==
  ASSUME StudyInv, NEW w \in Workers, Attempt(w) PROVE StudyInv'
<1> DEFINE X(place) == [worker[w] EXCEPT !.pc = place]
           failed == [worker[w] EXCEPT !.pc = "ended",
                        !.error = IF status = "PAUSED" THEN "CONFLICT" ELSE "RECOVERY"]
<1>1. /\ worker[w].pc = "attempt" /\ IsActive(w) /\ worker[w].pc \in ActivePcs
      /\ DOMAIN worker[w] = WorkerFields /\ WorkerInv /\ status \notin {"NONE", "ABSENT"}
  BY ActiveMeans DEF Attempt, At, IsActive, ActivePcs, SessionPcs, StudyInv, WorkerInv, WorkersInOrder
<1>2. \E x \in {X("ended"), X("session"), failed} :
        /\ worker' = [worker EXCEPT ![w] = x] /\ DOMAIN x = WorkerFields /\ x.pc \in {"ended", "session"}
        /\ status' \notin {"NONE", "ABSENT"} /\ (status = "COMPLETED" => status' = "COMPLETED")
        /\ x.pc = "session" => status' = "RUNNING"
  <2>1. CASE worker' = [worker EXCEPT ![w] = X("ended")] /\ status' = status
    BY <1>1, <2>1 DEF WorkerFields
  <2>2. CASE worker' = [worker EXCEPT ![w] = X("session")] /\ status' = "RUNNING" /\ status # "COMPLETED"
    BY <1>1, <2>2 DEF WorkerFields
  <2>3. CASE worker' = [worker EXCEPT ![w] = failed] /\ status' = status
    BY <1>1, <2>3 DEF WorkerFields
  <2> QED BY <2>1, <2>2, <2>3 DEF Attempt, Becomes, Fails
<1>3. PICK x : /\ worker' = [worker EXCEPT ![w] = x] /\ DOMAIN x = WorkerFields
               /\ x.pc \in {"ended", "session"}
               /\ status' \notin {"NONE", "ABSENT"} /\ (status = "COMPLETED" => status' = "COMPLETED")
               /\ x.pc = "session" => status' = "RUNNING"
  BY <1>2
<1>4. UNCHANGED <<study, registered, retained, slot, loop, poll>>
  BY DEF Attempt, OutsideWorker, registry
<1>5. WorkerInv'
  BY <1>1, <1>3, <1>4, ActiveMoves DEF ActivePcs, SessionPcs
<1>6. StudyTyped'
  BY <1>4 DEF StudyInv, StudyTyped
<1> QED BY <1>1, <1>3, <1>4, <1>5, <1>6, ControllerMoves DEF SessionPcs

(* A step in which only the controller's own record changes: it may lose   *)
(* its run or fall back, but not go on to another attempt of its own.      *)
LEMMA OwnRecordMoves ==
  ASSUME StudyInv, NEW w \in Workers, IsActive(w), NEW x,
         worker' = [worker EXCEPT ![w] = x], DOMAIN x = WorkerFields, x.pc \in ActivePcs,
         UNCHANGED <<study, status, registered, retained, slot, loop, poll>>,
         \/ x.pc = "ended"
         \/ x.pc \in {"attempt", "backoff"} /\ ~x.run
         \/ x.pc = worker[w].pc /\ x.run = worker[w].run
  PROVE  StudyInv'
<1>1. worker[w].pc \in ActivePcs /\ status \notin {"NONE", "ABSENT"}
  BY ActiveMeans DEF IsActive
<1>2. WorkerInv'
  BY <1>1, ActiveMoves DEF StudyInv
<1>3. StudyTyped'
  BY DEF StudyInv, StudyTyped
<1>4. /\ x.pc = "attempt" /\ x.run => status' = "READY"
      /\ x.pc = "backoff" => ~x.run
      /\ x.pc \in SessionPcs \ {"attempt"} => status' = "RUNNING"
  BY DEF StudyInv, StatusInv, At, SessionPcs
<1> QED BY <1>1, <1>2, <1>3, <1>4, ControllerMoves

LEMMA OwnFields ==
  ASSUME StudyInv, NEW w \in Workers
  PROVE  /\ DOMAIN worker[w] = WorkerFields
         /\ \A place : /\ DOMAIN [worker[w] EXCEPT !.pc = place] = WorkerFields
                       /\ [worker[w] EXCEPT !.pc = place].pc = place
                       /\ [worker[w] EXCEPT !.pc = place].run = worker[w].run
         /\ \A e : /\ DOMAIN [worker[w] EXCEPT !.pc = "ended", !.error = e] = WorkerFields
                   /\ [worker[w] EXCEPT !.pc = "ended", !.error = e].pc = "ended"
BY DEF StudyInv, WorkerInv, WorkersInOrder, WorkerFields

LEMMA BusyKeeps ==
  ASSUME StudyInv, NEW w \in Workers, Busy(w) PROVE StudyInv'
<1> DEFINE waiting == [worker[w] EXCEPT !.pc = "backoff", !.run = FALSE]
<1>1. IsActive(w) /\ DOMAIN worker[w] = WorkerFields
  BY OwnFields DEF Busy, IsActive, ActivePcs, SessionPcs
<1>2. DOMAIN waiting = WorkerFields /\ waiting.pc = "backoff" /\ ~waiting.run
  BY <1>1 DEF WorkerFields
<1>3. worker' = [worker EXCEPT ![w] = waiting]
  BY DEF Busy
<1>4. UNCHANGED <<study, status, registered, retained, slot, loop, poll>>
  BY DEF Busy, OutsideWorker, registry, files
<1> HIDE DEF waiting
<1> QED BY <1>1, <1>2, <1>3, <1>4, OwnRecordMoves DEF ActivePcs, SessionPcs

LEMMA SessionFailsKeeps ==
  ASSUME StudyInv, NEW w \in Workers, SessionFails(w) PROVE StudyInv'
<1> DEFINE failed == [worker[w] EXCEPT !.pc = "ended", !.error = "ERROR"]
<1>1. IsActive(w) /\ DOMAIN failed = WorkerFields /\ failed.pc = "ended"
  BY OwnFields DEF SessionFails, IsActive, ActivePcs, SessionPcs
<1>2. worker' = [worker EXCEPT ![w] = failed]
  BY DEF SessionFails, Fails
<1>3. UNCHANGED <<study, status, registered, retained, slot, loop, poll>>
  BY DEF SessionFails, OutsideWorker, registry, files
<1> HIDE DEF failed
<1> QED BY <1>1, <1>2, <1>3, OwnRecordMoves DEF ActivePcs, SessionPcs

LEMMA WindowClosesKeeps ==
  ASSUME StudyInv, NEW w \in Workers, WindowCloses(w) PROVE StudyInv'
<1> DEFINE x == [worker[w] EXCEPT !.late = TRUE]
<1>1. DOMAIN x = WorkerFields /\ x.pc = worker[w].pc /\ x.run = worker[w].run
  BY OwnFields
<1>2. worker' = [worker EXCEPT ![w] = x] /\ IsActive(w) /\ worker[w].pc \in ActivePcs
  BY DEF WindowCloses, IsActive
<1>3. UNCHANGED <<study, status, registered, retained, slot, loop, poll>>
  BY DEF WindowCloses, OutsideWorker, registry, files
<1> HIDE DEF x
<1> QED BY <1>1, <1>2, <1>3, OwnRecordMoves

LEMMA FinishSessionKeeps ==
  ASSUME StudyInv, NEW w \in Workers, FinishSession(w) PROVE StudyInv'
<1> DEFINE x == [worker[w] EXCEPT !.pc = "ended"]
<1>1. /\ IsActive(w) /\ worker[w].pc \in ActivePcs /\ WorkerInv
      /\ DOMAIN x = WorkerFields /\ x.pc = "ended" /\ status = "RUNNING"
  BY OwnFields DEF FinishSession, IsActive, ActivePcs, SessionPcs, At, StudyInv, StatusInv
<1>2. worker' = [worker EXCEPT ![w] = x] /\ status' \in {"COMPLETED", "PAUSED"}
  BY DEF FinishSession, Becomes
<1>3. UNCHANGED <<study, registered, retained, slot, loop, poll>>
  BY DEF FinishSession, OutsideWorker, registry
<1> HIDE DEF x
<1>4. WorkerInv' /\ StudyTyped'
  BY <1>1, <1>2, <1>3, ActiveMoves DEF ActivePcs, SessionPcs, StudyInv, StudyTyped
<1> QED BY <1>1, <1>2, <1>3, <1>4, ControllerMoves DEF SessionPcs

LEMMA BlockKeeps ==
  ASSUME StudyInv, NEW w \in Workers, Block(w) PROVE StudyInv'
<1> DEFINE x == [worker[w] EXCEPT !.pc = "ended", !.error = "RECOVERY"]
<1>1. /\ IsActive(w) /\ worker[w].pc \in ActivePcs /\ WorkerInv
      /\ DOMAIN x = WorkerFields /\ x.pc = "ended" /\ status = "RUNNING"
  BY OwnFields DEF Block, IsActive, ActivePcs, SessionPcs, At, StudyInv, StatusInv
<1>2. worker' = [worker EXCEPT ![w] = x] /\ status' = "BLOCKED"
  BY DEF Block, Fails
<1>3. UNCHANGED <<study, registered, retained, slot, loop, poll>>
  BY DEF Block, OutsideWorker, registry
<1> HIDE DEF x
<1>4. WorkerInv' /\ StudyTyped'
  BY <1>1, <1>2, <1>3, ActiveMoves DEF ActivePcs, SessionPcs, StudyInv, StudyTyped
<1> QED BY <1>1, <1>2, <1>3, <1>4, ControllerMoves DEF SessionPcs

(* A trial is claimed or settled: no success is taken back.                *)
LEMMA TrialMoves ==
  ASSUME StudyTyped, NEW n \in Trials, ~(study[n].state = "SUCCESS"),
         NEW t \in [state : States, value : Nat], study' = [study EXCEPT ![n] = t]
  PROVE  StudyTyped' /\ Succeeded(study) \subseteq Succeeded(study')
<1>1. StudyTyped'
  BY DEF StudyTyped
<1>2. ASSUME NEW m \in Succeeded(study) PROVE m \in Succeeded(study')
  BY DEF StudyTyped, Succeeded
<1> QED BY <1>1, <1>2

LEMMA TrialRecords ==
  /\ Pending \in [state : States, value : Nat] /\ Pending.state = "PENDING"
  /\ Cancelled \in [state : States, value : Nat]
  /\ Unclaimed \in [state : States, value : Nat]
  /\ Outcomes \subseteq [state : States, value : Nat]
BY ScoreAssumption DEF Pending, Cancelled, Unclaimed, Outcomes, Trial, States

LEMMA ClaimKeeps ==
  ASSUME StudyInv, NEW w \in Workers, Claim(w) PROVE StudyInv'
<1>1. PICK n \in Trials : Claimed(study) = 1..(n - 1) /\ study' = [study EXCEPT ![n] = Pending]
  BY DEF Claim
<1>2. n \notin 1..(n - 1)
  BY DEF Trials
<1>3. ~(study[n].state = "SUCCESS")
  BY <1>1, <1>2 DEF Claimed
<1>4. StudyTyped' /\ Succeeded(study) \subseteq Succeeded(study')
  BY <1>1, <1>3, TrialMoves, TrialRecords DEF StudyInv
<1>5. IsActive(w) /\ At(w, "session") /\ status \notin {"NONE", "ABSENT"}
  BY ActiveMeans DEF Claim, IsActive, ActivePcs, SessionPcs, At
<1>6. UNCHANGED <<worker, status, registered, retained, slot, loop, poll>>
  BY DEF Claim, OutsideWorker, registry
<1>7. WorkerInv'
  BY <1>6, OutsideMoves DEF StudyInv
<1>8. /\ worker[w].pc = "attempt" /\ worker[w].run => status' = "READY"
      /\ worker[w].pc = "backoff" => ~worker[w].run
      /\ worker[w].pc \in SessionPcs \ {"attempt"} => status' = "RUNNING"
  BY <1>6 DEF StudyInv, StatusInv, At
<1> QED BY <1>4, <1>5, <1>6, <1>7, <1>8, ControllerMoves

LEMMA SettleKeeps ==
  ASSUME StudyInv, NEW w \in Workers, Settle(w) PROVE StudyInv'
<1> DEFINE x == [worker[w] EXCEPT !.pc = "closing"]
<1>1. PICK n \in PendingTrials, t \in Outcomes \cup {Cancelled} :
        study' = [study EXCEPT ![n] = t]
  BY DEF Settle
<1>2. n \in Trials /\ ~(study[n].state = "SUCCESS") /\ t \in [state : States, value : Nat]
  BY TrialRecords DEF PendingTrials
<1>3. StudyTyped' /\ Succeeded(study) \subseteq Succeeded(study')
  BY <1>1, <1>2, TrialMoves DEF StudyInv
<1>4. /\ IsActive(w) /\ worker[w].pc \in ActivePcs /\ status = "RUNNING"
      /\ DOMAIN x = WorkerFields /\ x.pc = "closing"
  BY OwnFields DEF Settle, IsActive, ActivePcs, SessionPcs, At, StudyInv, StatusInv
<1>5. UNCHANGED <<status, registered, retained, slot, loop, poll>>
  BY DEF Settle, OutsideWorker, registry
<1>6. worker' = [worker EXCEPT ![w] = x]
  BY DEF Settle, Becomes
<1> HIDE DEF x
<1>7. WorkerInv'
  BY <1>4, <1>5, <1>6, ActiveMoves DEF StudyInv, ActivePcs, SessionPcs
<1> QED BY <1>3, <1>4, <1>5, <1>6, <1>7, ControllerMoves

(* Close: the session goes on to its next trial or to its end.             *)
LEMMA CloseKeeps ==
  ASSUME StudyInv, NEW w \in Workers, Close(w) PROVE StudyInv'
<1>1. PICK place \in {"session", "pausing"} : Becomes(w, place)
  BY DEF Close
<1> DEFINE x == [worker[w] EXCEPT !.pc = place]
<1>2. /\ IsActive(w) /\ worker[w].pc \in ActivePcs /\ status = "RUNNING"
      /\ DOMAIN x = WorkerFields /\ x.pc = place
  BY OwnFields DEF Close, IsActive, ActivePcs, SessionPcs, At, StudyInv, StatusInv
<1>3. UNCHANGED <<study, status, registered, retained, slot, loop, poll>>
  BY DEF Close, OutsideWorker, registry, files
<1>4. worker' = [worker EXCEPT ![w] = x]
  BY <1>1 DEF Becomes
<1> HIDE DEF x
<1>5. WorkerInv' /\ StudyTyped'
  BY <1>2, <1>3, <1>4, ActiveMoves DEF StudyInv, StudyTyped, ActivePcs, SessionPcs
<1> QED BY <1>2, <1>3, <1>4, <1>5, ControllerMoves

(* Retry: a backed off controller goes on through resume().                *)
LEMMA RetryKeeps ==
  ASSUME StudyInv, NEW w \in Workers, Retry(w) PROVE StudyInv'
<1> DEFINE place == IF worker[w].stop THEN "ended" ELSE "attempt"
           x == [worker[w] EXCEPT !.pc = place]
<1>1. IsActive(w) /\ ~worker[w].run
  BY DEF Retry, IsActive, ActivePcs, SessionPcs, At, StudyInv, StatusInv
<1>2. DOMAIN x = WorkerFields /\ x.pc = place /\ x.run = worker[w].run
  BY OwnFields
<1>3. worker' = [worker EXCEPT ![w] = x]
  BY DEF Retry, Becomes
<1>4. UNCHANGED <<study, status, registered, retained, slot, loop, poll>>
  BY DEF Retry, OutsideWorker, registry, files
<1> HIDE DEF x
<1> QED BY <1>1, <1>2, <1>3, <1>4, OwnRecordMoves DEF ActivePcs, SessionPcs

LEMMA OtherControllersQuiet ==
  ASSUME StudyInv, NEW w \in Workers, ~IsActive(w)', WorkerInv',
         UNCHANGED <<study, status, loop, poll>>,
         \A v \in Workers \ {w} : worker'[v] = worker[v]
  PROVE  StudyInv'
BY RegistryMoves DEF IsActive

LEMMA MarkDoneKeeps ==
  ASSUME StudyInv, NEW w \in Workers, MarkDone(w) PROVE StudyInv'
<1>1. WorkerInv'
  BY MarkDoneKeepsWorkers DEF StudyInv
<1>2. /\ \A v \in Workers \ {w} : worker'[v] = worker[v]
      /\ worker'[w].pc = "publish"
  BY DEF MarkDone, StudyInv, WorkerInv, WorkersInOrder, Unborn
<1> QED BY <1>1, <1>2, OtherControllersQuiet DEF MarkDone, OutsideWorker, files, IsActive, ActivePcs, SessionPcs

LEMMA PublishKeeps ==
  ASSUME StudyInv, NEW w \in Workers, Publish(w) PROVE StudyInv'
<1>1. WorkerInv'
  BY PublishKeepsWorkers DEF StudyInv
<1>2. /\ \A v \in Workers \ {w} : worker'[v] = worker[v]
      /\ worker'[w].pc = "release"
  BY DEF Publish, Becomes, StudyInv, WorkerInv, WorkersInOrder, WorkerFields
<1> QED BY <1>1, <1>2, OtherControllersQuiet DEF Publish, files, IsActive, ActivePcs, SessionPcs

LEMMA ReleaseKeeps ==
  ASSUME StudyInv, NEW w \in Workers, Release(w) PROVE StudyInv'
<1>1. WorkerInv'
  BY ReleaseKeepsWorkers DEF StudyInv
<1>2. /\ \A v \in Workers \ {w} : worker'[v] = worker[v]
      /\ worker'[w].pc = "gone"
  BY DEF Release, Becomes, StudyInv, WorkerInv, WorkersInOrder, WorkerFields
<1> QED BY <1>1, <1>2, OtherControllersQuiet DEF Release, files, IsActive, ActivePcs, SessionPcs

LEMMA RetentionKeeps == ASSUME StudyInv, RetentionEnds PROVE StudyInv'
<1>1. WorkerInv'
  BY RetentionKeepsWorkers DEF StudyInv
<1>2. \A v \in Workers : worker'[v] = worker[v] \/ worker'[v].pc = "forgotten"
  BY DEF RetentionEnds, StudyInv, WorkerInv, WorkersInOrder, Forgotten, Unborn
<1> QED BY <1>1, <1>2, RegistryMoves DEF RetentionEnds, files, IsActive, ActivePcs, SessionPcs

LEMMA StopKeeps == ASSUME StudyInv, Stop PROVE StudyInv'
<1>1. /\ WorkerInv' /\ \A v \in Workers : /\ worker'[v].pc = worker[v].pc
                                        /\ worker'[v].run = worker[v].run
  BY StopKeepsWorkers DEF StudyInv
<1> QED BY <1>1, RegistryMoves DEF Stop, files, IsActive

LEMMA RestartKeeps == ASSUME StudyInv, Restart PROVE StudyInv'
<1>1. WorkerInv'
  BY RestartKeepsWorkers DEF StudyInv
<1>2. \A w \in Workers : worker'[w].pc \in {"unborn", "forgotten"}
  BY DEF Restart, Unborn, Forgotten
<1>3. Quiet' /\ StatusInv'
  BY <1>2 DEF Restart, files, StudyInv, StatusInv, Fresh, Quiet, IsActive, At, ActivePcs, SessionPcs
<1>4. LoopInv' /\ PollInv' /\ ApprovedIsFinal' /\ StudyTyped'
  BY DEF Restart, files, NoRequest, NoRead, LoopInv, PollInv, ApprovedIsFinal, Reading, StudyInv,
     StudyTyped, LoopFields, PollFields
<1> QED BY <1>1, <1>3, <1>4 DEF StudyInv

LEMMA LaunchKeeps ==
  ASSUME StudyInv, NEW w \in Workers, Launch(w) PROVE StudyInv'
<1>1. WorkerInv'
  BY LaunchKeepsWorkers DEF StudyInv
<1>2. Quiet /\ status \in Admitted(loop.op)
  BY DEF Launch, StudyInv, LoopInv
<1>3. /\ \A v \in Workers \ {w} : worker'[v] = worker[v]
      /\ worker'[w].pc = "attempt"
      /\ worker'[w].run => loop.op = "start"
  BY DEF Launch, StudyInv, WorkerInv, WorkersInOrder, Unborn
<1>4. /\ status \notin {"NONE", "ABSENT", "COMPLETED"} /\ (loop.op = "start" => status = "READY")
      /\ UNCHANGED <<study, status, poll>> /\ loop' = NoRequest
  BY <1>2 DEF Admitted, Launch, files
<1>5. StatusInv'
  BY <1>2, <1>3, <1>4 DEF StatusInv, Fresh, Quiet, IsActive, ActivePcs, SessionPcs, At
<1>6. LoopInv' /\ StudyTyped' /\ PollInv'
  BY <1>4 DEF NoRequest, LoopInv, PollInv, Reading, StudyInv, StudyTyped, LoopFields
<1>7. ApprovedIsFinal'
  BY <1>4 DEF StudyInv, ApprovedIsFinal
<1> QED BY <1>1, <1>5, <1>6, <1>7 DEF StudyInv

-----------------------------------------------------------------------------
(* The event loop, the readers and what goes on around them.               *)
LEMMA FilesMoves ==
  ASSUME StudyInv, UNCHANGED <<study, worker, registered, retained, poll>>,
         slot' = slot \/ slot \in {Nobody, OtherTraining},
         status' = status \/ (status \in {"NONE", "ABSENT"} /\ status' \in {"ABSENT", "READY"} /\ Quiet),
         LoopInv'
  PROVE  StudyInv'
<1>1. WorkerInv'
  BY OutsideMoves DEF StudyInv
<1>2. StatusInv'
  BY DEF StudyInv, StatusInv, Fresh, Quiet, IsActive, At, ActivePcs, SessionPcs
<1>3. StudyTyped' /\ PollInv'
  BY DEF StudyInv, StudyTyped, PollInv, Reading
<1>4. ApprovedIsFinal'
  BY DEF StudyInv, ApprovedIsFinal, IsActive
<1> QED BY <1>1, <1>2, <1>3, <1>4 DEF StudyInv

LEMMA RequestKeeps ==
  ASSUME StudyInv,
         \/ Create \/ Prepare \/ ReadExecution \/ Refuse \/ CheckBinding \/ CheckStatus
         \/ StartFromWinner \/ OtherTakesSlot \/ OtherFreesSlot \/ Drift
         \/ \E op \in {"start", "resume"} : Ask(op)
         \/ \E kind \in {"formal", "verify"} : ReadWinner(kind)
  PROVE  StudyInv'
<1>1. CASE Create
  <2>1. Quiet /\ LoopInv'
    BY <1>1 DEF Create, StudyInv, StatusInv, Fresh, LoopInv, NoRequest, LoopFields, Quiet, IsActive
  <2> QED BY <1>1, <2>1, FilesMoves DEF Create, registry
<1>2. CASE Prepare
  <2>1. Quiet /\ LoopInv' /\ status = "ABSENT"
    BY <1>2 DEF Prepare, StudyInv, StatusInv, LoopInv, NoRequest, LoopFields
  <2> QED BY <1>2, <2>1, FilesMoves DEF Prepare, registry
<1>3. CASE ReadExecution
  <2>1. LoopInv'
    BY <1>3 DEF ReadExecution, StudyInv, LoopInv, NoRequest, LoopFields, files, Quiet, IsActive
  <2> QED BY <1>3, <2>1, FilesMoves DEF ReadExecution, registry, files
<1>4. CASE Refuse
  <2>1. LoopInv'
    BY <1>4 DEF Refuse, LoopInv, NoRequest, LoopFields
  <2> QED BY <1>4, <2>1, FilesMoves DEF Refuse, registry, files
<1>5. CASE CheckBinding
  <2>1. LoopInv'
    BY <1>5 DEF CheckBinding, StudyInv, LoopInv, LoopFields, files, Quiet, IsActive
  <2> QED BY <1>5, <2>1, FilesMoves DEF CheckBinding, registry, files
<1>6. CASE CheckStatus
  <2>1. LoopInv'
    BY <1>6 DEF CheckStatus, StudyInv, LoopInv, LoopFields, files, Quiet, IsActive
  <2> QED BY <1>6, <2>1, FilesMoves DEF CheckStatus, registry, files
<1>7. CASE StartFromWinner
  <2>1. LoopInv'
    BY <1>7 DEF StartFromWinner, LoopInv, NoRequest, LoopFields
  <2> QED BY <1>7, <2>1, FilesMoves DEF StartFromWinner, registry, files
<1>8. CASE OtherTakesSlot \/ OtherFreesSlot \/ Drift
  <2>1. LoopInv'
    BY <1>8 DEF OtherTakesSlot, OtherFreesSlot, Drift, StudyInv, LoopInv, files, Quiet, IsActive
  <2> QED BY <1>8, <2>1, FilesMoves DEF OtherTakesSlot, OtherFreesSlot, Drift, registry, files
<1>9. ASSUME NEW op \in {"start", "resume"}, Ask(op) PROVE StudyInv'
  <2>1. Quiet
    BY <1>9, NobodyFound DEF Ask, StudyInv
  <2>2. LoopInv'
    BY <1>9, <2>1 DEF Ask, LoopInv, NoRequest, LoopFields, files, Quiet, IsActive
  <2> QED BY <1>9, <2>2, FilesMoves DEF Ask, registry, files
<1>10. ASSUME NEW kind \in {"formal", "verify"}, ReadWinner(kind) PROVE StudyInv'
  <2>1. Winner(study, Top(study))
    BY <1>10, TopWins DEF ReadWinner, StudyInv
  <2>2. (ControllerFor = Nobody) => Quiet
    BY NobodyFound DEF StudyInv
  <2>3. /\ DOMAIN loop' = LoopFields /\ loop'.pc = "binding" /\ loop'.trial = Top(study)
        /\ loop'.quiet => ControllerFor = Nobody
    BY <1>10 DEF ReadWinner, NoRequest, LoopFields
  <2>4. UNCHANGED <<study, worker>>
    BY <1>10 DEF ReadWinner, files
  <2>5. LoopInv'
    BY <2>1, <2>2, <2>3, <2>4 DEF LoopInv, Winner, Quiet, IsActive
  <2> QED BY <1>10, <2>5, FilesMoves DEF ReadWinner, registry, files
<1> QED BY <1>1, <1>2, <1>3, <1>4, <1>5, <1>6, <1>7, <1>8, <1>9, <1>10

(* What was read stays true until it is answered.                          *)
LEMMA ReaderMoves ==
  ASSUME StudyInv, UNCHANGED <<study, status, worker, registered, retained, slot, loop>>,
         PollInv', ApprovedIsFinal'
  PROVE  StudyInv'
<1>1. WorkerInv'
  BY OutsideMoves DEF StudyInv
<1>2. StatusInv' /\ LoopInv'
  BY DEF StudyInv, StatusInv, Fresh, LoopInv, Quiet, IsActive, At, Winner
<1>3. StudyTyped'
  BY DEF StudyInv, StudyTyped
<1> QED BY <1>1, <1>2, <1>3 DEF StudyInv

LEMMA ReadStudyKeeps ==
  ASSUME StudyInv, NEW op, ReadStudy(op) PROVE StudyInv'
<1>1. Top(study) # 0 => Succeeded(study) # {}
  BY TopWins DEF StudyInv
<1>2. UNCHANGED <<study, status, worker, registered, retained, slot, loop>>
  BY DEF ReadStudy, files, registry
<1>3. PollInv' /\ ~poll'.approved
  BY <1>1, <1>2 DEF ReadStudy, NoRead, PollInv, PollFields, Reading
<1> QED BY <1>2, <1>3, ReaderMoves DEF ApprovedIsFinal

LEMMA ReadStatusKeeps == ASSUME StudyInv, ReadStatus PROVE StudyInv'
<1>1. UNCHANGED <<study, status, worker, registered, retained, slot, loop>>
  BY DEF ReadStatus, files, registry
<1>2. DOMAIN poll = PollFields /\ poll.pc = "execution"
  BY DEF StudyInv, PollInv, ReadStatus
<1>3. /\ DOMAIN poll' = PollFields /\ poll'.pc = "answer" /\ poll'.status = status
      /\ poll'.op = poll.op /\ poll'.best = poll.best /\ poll'.approved = poll.approved
  BY <1>2 DEF ReadStatus, PollFields
<1>4. PollInv'
  BY <1>1, <1>2, <1>3 DEF StudyInv, PollInv, Reading
<1>5. ApprovedIsFinal'
  BY <1>1, <1>3 DEF StudyInv, ApprovedIsFinal, IsActive
<1> QED BY <1>1, <1>4, <1>5, ReaderMoves

LEMMA ReadFailsKeeps == ASSUME StudyInv, ReadFails PROVE StudyInv'
<1>1. UNCHANGED <<study, status, worker, registered, retained, slot, loop>>
  BY DEF ReadFails, files, registry
<1>2. PollInv' /\ ~poll'.approved
  BY <1>1 DEF ReadFails, NoRead, PollInv, PollFields, Reading
<1> QED BY <1>1, <1>2, ReaderMoves DEF ApprovedIsFinal

(* The status and the best configuration approve only a study that is over. *)
LEMMA ApprovalIsEarned ==
  ASSUME StudyInv, NEW s, s = "COMPLETED" => status = "COMPLETED",
         NEW hasSuccess \in BOOLEAN, hasSuccess => Succeeded(study) # {}, Approved(s, hasSuccess)
  PROVE  status = "COMPLETED" /\ Succeeded(study) # {} /\ Quiet
BY NobodyFound DEF Approved, StudyInv

LEMMA AnswerKeeps == ASSUME StudyInv, Answer PROVE StudyInv'
<1>1. UNCHANGED <<study, status, worker, registered, retained, slot, loop>>
  BY DEF Answer, files, registry
<1>2. /\ DOMAIN poll = PollFields /\ poll.pc = "answer"
      /\ poll.status = "COMPLETED" => status = "COMPLETED"
      /\ poll.best # 0 => Succeeded(study) # {}
      /\ poll.op = "best" => poll.best # 0
  BY DEF StudyInv, PollInv, Reading, Answer
<1>3. CASE poll.op = "status" /\ poll' = [StatusPayload EXCEPT !.pc = "idle"]
  <2> DEFINE execution == IF poll.status = "ABSENT" THEN "READY" ELSE poll.status
  <2>1. /\ DOMAIN poll' = PollFields /\ poll'.pc = "idle" /\ poll'.best = poll.best
        /\ poll'.approved => Approved(execution, poll.best # 0)
    BY <1>2, <1>3 DEF StatusPayload, PollFields
  <2>2. execution = "COMPLETED" => status = "COMPLETED"
    BY <1>2
  <2> HIDE DEF execution
  <2>3. poll'.approved => status = "COMPLETED" /\ Succeeded(study) # {} /\ Quiet
    BY <1>2, <2>1, <2>2, ApprovalIsEarned
  <2>4. PollInv' /\ ApprovedIsFinal'
    BY <1>1, <1>2, <2>1, <2>3 DEF PollInv, ApprovedIsFinal, Quiet, Reading, IsActive
  <2> QED BY <1>1, <2>4, ReaderMoves
<1>4. CASE poll.op = "best" /\ poll' = [BestPayload EXCEPT !.pc = "idle"]
  <2>1. /\ DOMAIN poll' = PollFields /\ poll'.pc = "idle" /\ poll'.best = poll.best
        /\ poll'.approved => Approved(poll.status, TRUE)
    BY <1>2, <1>4 DEF BestPayload, PollFields
  <2>2. Succeeded(study) # {}
    BY <1>2, <1>4
  <2>3. poll'.approved => status = "COMPLETED" /\ Succeeded(study) # {} /\ Quiet
    BY <1>2, <2>1, <2>2, ApprovalIsEarned
  <2>4. PollInv' /\ ApprovedIsFinal'
    BY <1>1, <1>2, <2>1, <2>3 DEF PollInv, ApprovedIsFinal, Quiet, Reading, IsActive
  <2> QED BY <1>1, <2>4, ReaderMoves
<1>5. CASE poll.op = "list" /\ poll' = [Row EXCEPT !.pc = "idle"]
  <2>1. /\ DOMAIN poll' = PollFields /\ poll'.pc = "idle" /\ poll'.best = 0
        /\ poll'.approved = poll.approved
    BY <1>2, <1>5 DEF Row, PollFields
  <2>2. PollInv' /\ ApprovedIsFinal'
    BY <1>1, <2>1 DEF StudyInv, PollInv, ApprovedIsFinal, Reading, IsActive
  <2> QED BY <1>1, <2>2, ReaderMoves
<1> QED BY <1>3, <1>4, <1>5 DEF Answer

-----------------------------------------------------------------------------
LEMMA StudyStarts == StudyInit => StudyInv
<1> SUFFICES ASSUME StudyInit PROVE StudyInv
  OBVIOUS
<1>1. DOMAIN Unborn = WorkerFields /\ Unborn.pc = "unborn"
  BY DEF Unborn, WorkerFields
<1>2. DOMAIN worker = Workers /\ \A w \in Workers : worker[w] = Unborn
  BY DEF StudyInit
<1>3. WorkerInv
  BY <1>1, <1>2 DEF WorkerInv, WorkersInOrder, HoldsSlot, IsRegistered, IsRetained, ActivePcs, SessionPcs,
     NotBorn, WorkerPcs
<1>4. StatusInv /\ StudyTyped
  BY <1>1, <1>2, TrialRecords DEF StudyInit, StatusInv, Fresh, StudyTyped, Unclaimed, Trial, Quiet, IsActive, ActivePcs, SessionPcs, At
<1>5. LoopInv /\ PollInv /\ ApprovedIsFinal
  BY DEF StudyInit, LoopInv, PollInv, ApprovedIsFinal, NoRequest, NoRead, LoopFields, PollFields, Reading
<1> QED BY <1>3, <1>4, <1>5 DEF StudyInv

LEMMA StudyStep == StudyInv /\ [StudyNext]_studyVars => StudyInv'
<1> SUFFICES ASSUME StudyInv, [StudyNext]_studyVars PROVE StudyInv'
  OBVIOUS
<1>1. CASE Request
  BY <1>1, RequestKeeps, StopKeeps, LaunchKeeps DEF Request
<1>2. CASE Read
  BY <1>2, ReadStudyKeeps, ReadStatusKeeps, AnswerKeeps, ReadFailsKeeps DEF Read
<1>3. ASSUME NEW w \in Workers, Work(w) \/ Busy(w) \/ WindowCloses(w) PROVE StudyInv'
  BY <1>3, AttemptKeeps, ClaimKeeps, SessionFailsKeeps, SettleKeeps, CloseKeeps, BlockKeeps, FinishSessionKeeps,
     RetryKeeps, MarkDoneKeeps, PublishKeeps, ReleaseKeeps, BusyKeeps, WindowClosesKeeps DEF Work
<1>4. CASE OtherTakesSlot \/ OtherFreesSlot \/ Drift
  BY <1>4, RequestKeeps
<1>5. CASE RetentionEnds \/ Restart
  BY <1>5, RetentionKeeps, RestartKeeps
<1>6. CASE UNCHANGED studyVars
  <2>1. UNCHANGED <<study, status, worker, registered, retained, slot, loop, poll>>
    BY <1>6 DEF studyVars, files, registry
  <2>2. PollInv' /\ ApprovedIsFinal'
    BY <2>1 DEF StudyInv, PollInv, ApprovedIsFinal, Reading, IsActive
  <2> QED BY <2>1, <2>2, ReaderMoves
<1> QED BY <1>1, <1>2, <1>3, <1>4, <1>5, <1>6 DEF StudyNext

LEMMA StudyInvariant == StudySpec => []StudyInv
BY StudyStarts, StudyStep, PTL DEF StudySpec

(* A controller that still runs is the one the registry finds and the slot *)
(* is reserved for (HpoController._finish, manager.py).                    *)
THEOREM ControllerStaysKnown == StudySpec => []WorkerIsKnown
<1>1. StudyInv => WorkerIsKnown
  BY DEF StudyInv, WorkerInv, HoldsSlot, IsRegistered, WorkerIsKnown, IsActive
<1> QED BY <1>1, StudyInvariant, PTL

(* The last controller is the one a status read asks, registered or        *)
(* retained.                                                               *)
LEMMA FailureFollows == StudyInv => FailureStaysReadable
<1> SUFFICES ASSUME StudyInv, NEW w \in Workers,
                    worker[w].error # "none", ~At(w, "forgotten"),
                    \A v \in Workers : v > w => worker[v] = Unborn
             PROVE  ControllerError = worker[w].error
  BY DEF FailureStaysReadable
<1>1. Last(w)
  BY DEF Last, NotBorn, Unborn
<1>2. worker[w].pc \in ActivePcs \cup {"publish", "release", "gone"}
  BY DEF StudyInv, WorkerInv, WorkersInOrder, WorkerPcs, NotBorn, Unborn, At
<1>3. CASE IsActive(w)
  <2>1. registered = w /\ w # Nobody
    BY <1>3, WorkerIsNumbered DEF StudyInv, WorkerInv, IsRegistered, IsActive
  <2> QED BY <1>3, <2>1 DEF ControllerError, ControllerFor, Get
<1>4. CASE ~IsActive(w)
  <2>1. Get = w /\ w # Nobody
    BY <1>1, <1>2, <1>4, WorkerIsNumbered
    DEF StudyInv, WorkerInv, IsRegistered, IsRetained, IsActive, Get
  <2> QED BY <1>4, <2>1 DEF ControllerError, ControllerFor, TerminalError
<1> QED BY <1>3, <1>4

(* The failure of the last attempt stays what a status read reports until  *)
(* a newer attempt, the end of its retention or a restart                  *)
(* (HpoController._finish, _terminal_controller_for).                      *)
THEOREM FailureIsReported == StudySpec => []FailureStaysReadable
BY FailureFollows, StudyInvariant, PTL

(* An approval for a formal training is true when it is given and stays    *)
(* true (_approved_for_formal over reads of different moments).            *)
THEOREM ApprovalStaysTrue == StudySpec => []ApprovedIsFinal
<1>1. StudyInv => ApprovedIsFinal
  BY DEF StudyInv
<1> QED BY <1>1, StudyInvariant, PTL

-----------------------------------------------------------------------------
(* Only the start of a training takes a winner.                            *)
LEMMA ReuseStep ==
  ASSUME StudyInv, [StudyNext]_studyVars, reused' \notin {reused, NoReuse}
  PROVE  StartFromWinner
BY DEF StudyNext, Request, Read, Work, Create, Prepare, ReadExecution, Refuse, Stop, CheckBinding,
   CheckStatus, Ask, ReadWinner, Launch, ReadStudy, ReadStatus, Answer, ReadFails, Attempt, Claim,
   SessionFails, Settle, Close, Block, FinishSession, Retry, MarkDone, Publish, Release, Busy,
   WindowCloses, OtherTakesSlot, OtherFreesSlot, RetentionEnds, Drift, Restart, OutsideWorker, studyVars

LEMMA WinnerIsBest ==
  ASSUME StudyTyped, NEW n, Winner(study, n), NEW m \in Succeeded(study)
  PROVE  /\ study[m].value <= study[n].value
         /\ m < n => study[m].value < study[n].value
<1>1. /\ m \in Nat /\ n \in Nat /\ study[m].value \in Nat /\ study[n].value \in Nat
  BY SucceededFields DEF Winner
<1>2. m = n \/ Precedes(study, n, m)
  BY DEF Winner
<1> QED BY <1>1, <1>2 DEF Precedes

(* What a training from the study takes was the winner of a study nobody   *)
(* worked on: reads of the ranking, the binding, the status and the slot   *)
(* at different moments agree (resolve_hpo_formal_training).               *)
THEOREM ReuseStaysEarned == StudySpec => ReuseIsEarned
<1> DEFINE Earned ==
      reused' \notin {reused, NoReuse} =>
       LET r == reused'
       IN /\ study[r.trial].state = "SUCCESS"
          /\ r.kind = "formal" => status = "COMPLETED"
          /\ r.quiet =>
               \A m \in Succeeded(study) :
                 /\ study[m].value <= study[r.trial].value
                 /\ m < r.trial => study[m].value < study[r.trial].value
<1>1. StudyInv /\ [StudyNext]_studyVars => Earned
  <2> SUFFICES ASSUME StudyInv, [StudyNext]_studyVars, reused' \notin {reused, NoReuse} PROVE Earned
    OBVIOUS
  <2>1. /\ loop.pc = "slot"
        /\ reused' = [kind |-> loop.op, trial |-> loop.trial, quiet |-> loop.quiet]
    BY ReuseStep DEF StartFromWinner
  <2>2. /\ loop.trial \in Succeeded(study)
        /\ loop.op = "formal" => status = "COMPLETED"
        /\ loop.quiet => Winner(study, loop.trial)
    BY <2>1 DEF StudyInv, LoopInv
  <2>3. reused'.kind = loop.op /\ reused'.trial = loop.trial /\ (reused'.quiet => loop.quiet)
    BY <2>1
  <2>4. reused'.quiet =>
          \A m \in Succeeded(study) :
            /\ study[m].value <= study[loop.trial].value
            /\ m < loop.trial => study[m].value < study[loop.trial].value
    BY <2>2, <2>3, WinnerIsBest DEF StudyInv
  <2> QED BY <2>2, <2>3, <2>4 DEF Succeeded
<1>2. StudySpec => [][Earned]_studyVars
  BY <1>1, StudyInvariant, PTL DEF StudySpec
<1> QED BY <1>2 DEF ReuseIsEarned

(* A controller asks for a recovery only when it blocked the study itself, *)
(* and never for a resume: a transient conflict is retried through         *)
(* resume() (HpoController._run).                                          *)
LEMMA ErrorsOfOthersStay ==
  ASSUME StudyInv, NEW w \in Workers, NEW v \in Workers, NEW x,
         worker' = [worker EXCEPT ![w] = x], worker'[v].error # worker[v].error
  PROVE  v = w /\ worker'[v] = x
BY DEF StudyInv, WorkerInv, WorkersInOrder

LEMMA FailureMeans ==
  ASSUME StudyInv, NEW w \in Workers, NEW v \in Workers, NEW e, Fails(w, e),
         worker'[v].error # worker[v].error
  PROVE  worker'[v].error = e
<1> DEFINE x == [worker[w] EXCEPT !.pc = "ended", !.error = e]
<1>1. x.error = e
  BY OwnFields DEF WorkerFields
<1>2. worker' = [worker EXCEPT ![w] = x]
  BY DEF Fails
<1> HIDE DEF x
<1> QED BY <1>1, <1>2, ErrorsOfOthersStay

LEMMA RetriesFollow ==
  ASSUME StudyInv, [StudyNext]_studyVars, NEW v \in Workers, worker'[v].error # worker[v].error
  PROVE  /\ worker'[v].error # "CONFLICT"
         /\ worker'[v].error = "RECOVERY" => status' = "BLOCKED"
<1>1. DOMAIN worker = Workers /\ \A u \in Workers : DOMAIN worker[u] = WorkerFields
  BY DEF StudyInv, WorkerInv, WorkersInOrder
<1>2. Unborn.error = "none" /\ Forgotten.error = "none"
  BY DEF Unborn, Forgotten
<1>3. worker' # worker
  OBVIOUS
<1>4. ASSUME NEW w \in Workers, Attempt(w) PROVE FALSE
  <2>1. worker[w].run => status = "READY"
    BY <1>4 DEF Attempt, StudyInv, StatusInv
  <2>2. PICK place : Becomes(w, place)
    BY <1>4, <2>1 DEF Attempt
  <2> QED BY <1>1, <2>2 DEF Becomes, WorkerFields
<1>5. ASSUME NEW w \in Workers, SessionFails(w) PROVE worker'[v].error = "ERROR"
  BY <1>5, FailureMeans DEF SessionFails
<1>6. ASSUME NEW w \in Workers, Block(w) PROVE status' = "BLOCKED" /\ worker'[v].error = "RECOVERY"
  BY <1>6, FailureMeans DEF Block
<1>7. ASSUME NEW w \in Workers, Busy(w) PROVE FALSE
  BY <1>1, <1>7 DEF Busy, WorkerFields
<1>8. ASSUME NEW w \in Workers, MarkDone(w) PROVE FALSE
  BY <1>1, <1>8 DEF MarkDone, Unborn
<1>9. ASSUME NEW w \in Workers,
             Claim(w) \/ Settle(w) \/ Close(w) \/ FinishSession(w) \/ Retry(w) \/ Publish(w) \/ Release(w)
      PROVE  FALSE
  <2>1. PICK place : Becomes(w, place)
    BY <1>3, <1>9 DEF Claim, Settle, Close, FinishSession, Retry, Publish, Release
  <2> QED BY <1>1, <2>1 DEF Becomes, WorkerFields
<1>10. ASSUME NEW w \in Workers, WindowCloses(w) PROVE FALSE
  BY <1>1, <1>10 DEF WindowCloses, WorkerFields
<1>11. ASSUME NEW w \in Workers, Launch(w) PROVE FALSE
  BY <1>1, <1>11 DEF Launch, WorkerFields
<1>12. CASE Stop
  BY <1>1, <1>12 DEF Stop, WorkerFields
<1>13. CASE RetentionEnds \/ Restart
  BY <1>1, <1>2, <1>13 DEF RetentionEnds, Restart
<1>14. CASE Read
  BY <1>3, <1>14 DEF Read, ReadStudy, ReadStatus, Answer, ReadFails
<1>15. CASE OtherTakesSlot \/ OtherFreesSlot \/ Drift \/ UNCHANGED studyVars
  BY <1>3, <1>15 DEF OtherTakesSlot, OtherFreesSlot, Drift, studyVars
<1>16. CASE \/ Create \/ Prepare \/ ReadExecution \/ Refuse \/ CheckBinding \/ CheckStatus
            \/ StartFromWinner \/ \E op \in {"start", "resume"} : Ask(op)
            \/ \E kind \in {"formal", "verify"} : ReadWinner(kind)
  BY <1>3, <1>16 DEF Create, Prepare, ReadExecution, Refuse, CheckBinding, CheckStatus,
     StartFromWinner, Ask, ReadWinner
<1> QED BY <1>4, <1>5, <1>6, <1>7, <1>8, <1>9, <1>10, <1>11, <1>12, <1>13, <1>14, <1>15, <1>16
     DEF StudyNext, Request, Work

(* A retry never ends as a second start, and RECOVERY is reported only for  *)
(* a study that was just blocked (HpoController._run).                     *)
THEOREM RetriesStayRecovering == StudySpec => RetriesRecover
<1>1. StudyInv /\ [StudyNext]_studyVars =>
        \A w \in Workers :
          worker'[w].error # worker[w].error =>
            /\ worker'[w].error # "CONFLICT"
            /\ worker'[w].error = "RECOVERY" => status' = "BLOCKED"
  BY RetriesFollow
<1> QED BY <1>1, StudyInvariant, PTL DEF StudySpec, RetriesRecover

-----------------------------------------------------------------------------
(* Seen from the page a study takes its course.                            *)

(* The steps that write study.json or execution.json.                      *)
LEMMA CourseWriters ==
  ASSUME [StudyNext]_studyVars
  PROVE  \/ UNCHANGED <<study, status>>
         \/ Create \/ Prepare
         \/ \E w \in Workers : Attempt(w) \/ Claim(w) \/ Settle(w) \/ Block(w) \/ FinishSession(w)
BY DEF StudyNext, Request, Read, Work, ReadExecution, Refuse, Stop, CheckBinding, CheckStatus,
   StartFromWinner, Ask, ReadWinner, Launch, ReadStudy, ReadStatus, Answer, ReadFails, SessionFails,
   Close, Retry, MarkDone, Publish, Release, Busy, WindowCloses, OtherTakesSlot, OtherFreesSlot,
   RetentionEnds, Drift, Restart, files, studyVars

TrialStates == [n \in Trials |-> study[n].state]
CourseStatus == IF status = "NONE" THEN "ABSENT" ELSE status

LEMMA CourseTrials ==
  ASSUME StudyInv
  PROVE  /\ Trials = 1..Budget /\ DOMAIN study = Trials
         /\ \A n \in Trials : TrialStates[n] = study[n].state
         /\ \A n \in Trials : \A t : study' = [study EXCEPT ![n] = t] =>
              TrialStates' = [TrialStates EXCEPT ![n] = t.state]
BY DEF Trials, StudyInv, StudyTyped, TrialStates

LEMMA CourseStarts == StudyInit => Course!Init
BY DEF StudyInit, Course!Init, Unclaimed, Trial, Trials

(* A study is created and prepared: nothing of it is claimed yet.          *)
LEMMA CoursePrepares ==
  ASSUME StudyInv, Create \/ Prepare
  PROVE  Course!Next \/ UNCHANGED Course!courseVars
<1>1. CASE Create
  BY <1>1 DEF Create, Course!courseVars
<1>2. CASE Prepare
  <2>1. status = "ABSENT" /\ status' \in {"ABSENT", "READY"} /\ study' = study
    BY <1>2 DEF Prepare, StudyInv, LoopInv
  <2>2. \A n \in Trials : TrialStates[n] = "UNCLAIMED"
    BY <2>1, CourseTrials DEF StudyInv, StatusInv, Fresh
  <2>3. CASE status' = "READY"
    <3>1. Course!Prepare
      BY <2>1, <2>2, <2>3, CourseTrials DEF Course!Prepare, Course!Outcomes, TrialStates
    <3> QED BY <3>1 DEF Course!Next
  <2> QED BY <2>1, <2>3 DEF Course!courseVars
<1> QED BY <1>1, <1>2

(* A session opens, and it blocks, pauses or completes the study.          *)
LEMMA CourseMoves ==
  ASSUME StudyInv, NEW w \in Workers, Attempt(w) \/ Block(w) \/ FinishSession(w)
  PROVE  Course!Next \/ UNCHANGED Course!courseVars
<1>1. study' = study /\ status \notin {"NONE", "ABSENT"} /\ Trials = 1..Budget
  BY ActiveMeans, CourseTrials
  DEF Attempt, Block, FinishSession, At, IsActive, ActivePcs, SessionPcs
<1>2. At(w, "session") \/ At(w, "pausing") => status = "RUNNING"
  BY DEF StudyInv, StatusInv, At, SessionPcs
<1>3. CASE Attempt(w)
  <2>1. status' = status \/ (status # "COMPLETED" /\ status' = "RUNNING")
    BY <1>3 DEF Attempt
  <2>2. CASE status # "COMPLETED" /\ status' = "RUNNING"
    <3>1. Course!Open
      BY <1>1, <2>2 DEF Course!Open
    <3> QED BY <3>1 DEF Course!Next
  <2> QED BY <1>1, <2>1, <2>2 DEF Course!courseVars
<1>4. CASE Block(w)
  <2>1. PICK n \in Trials : study[n].state = "PENDING"
    BY <1>4 DEF Block, PendingTrials
  <2>2. Course!Block
    BY <1>1, <1>2, <1>4, <2>1 DEF Block, Course!Block, Course!IsOpen
  <2> QED BY <2>2 DEF Course!Next
<1>5. CASE FinishSession(w)
  <2>1. CASE status' = "PAUSED"
    <3>1. Course!Pause
      BY <1>1, <1>2, <1>5, <2>1 DEF FinishSession, Course!Pause
    <3> QED BY <3>1 DEF Course!Next
  <2>2. CASE AllSettled /\ status' = "COMPLETED"
    <3>1. \A n \in Trials : study[n].state \notin {"UNCLAIMED", "PENDING"}
      BY <2>2 DEF AllSettled, PendingTrials, Claimed
    <3>2. Course!Complete
      BY <1>1, <1>2, <1>5, <2>2, <3>1
      DEF FinishSession, Course!Complete, Course!IsOpen, Course!IsClaimed
    <3> QED BY <3>2 DEF Course!Next
  <2> QED BY <1>5, <2>1, <2>2 DEF FinishSession
<1> QED BY <1>3, <1>4, <1>5

(* A session claims the next trial, and settles the one that is open.      *)
LEMMA CourseTrialMoves ==
  ASSUME StudyInv, NEW w \in Workers, Claim(w) \/ Settle(w)
  PROVE  Course!Next
<1>1. status = "RUNNING" /\ status' = status
  BY DEF Claim, Settle, StudyInv, StatusInv, At, SessionPcs
<1>2. CASE Claim(w)
  <2>1. PICK n \in Trials :
          Claimed(study) = 1..(n - 1) /\ study' = [study EXCEPT ![n] = Pending]
    BY <1>2 DEF Claim
  <2>2. TrialStates' = [TrialStates EXCEPT ![n] = "PENDING"]
    BY <2>1, CourseTrials, TrialRecords
  <2>3. \A m \in Trials : /\ study[m].state # "PENDING"
                          /\ study[m].state # "UNCLAIMED" <=> m < n
    BY <1>2, <2>1 DEF Claim, PendingTrials, Claimed, Trials
  <2>4. Course!Claim(n)
    BY <1>1, <2>2, <2>3, CourseTrials
    DEF Course!Claim, Course!IsOpen, Course!IsClaimed, TrialStates
  <2> QED BY <2>4, CourseTrials DEF Course!Next
<1>3. CASE Settle(w)
  <2>1. PICK n \in PendingTrials, t \in Outcomes \cup {Cancelled} :
          study' = [study EXCEPT ![n] = t]
    BY <1>3 DEF Settle
  <2>2. n \in Trials /\ study[n].state = "PENDING" /\ t.state \in Course!Outcomes
    BY <2>1 DEF PendingTrials, Outcomes, Cancelled, Trial, Course!Outcomes
  <2>3. TrialStates' = [TrialStates EXCEPT ![n] = t.state]
    BY <2>1, <2>2, CourseTrials
  <2>4. Course!Settle(n)
    BY <1>1, <2>2, <2>3, CourseTrials DEF Course!Settle, Course!IsOpen, TrialStates
  <2> QED BY <2>2, <2>4, CourseTrials DEF Course!Next
<1> QED BY <1>2, <1>3

(* Seen from the page, a study takes the course the executor takes it      *)
(* through: whatever controllers, requests, readers and restarts do, it is *)
(* claimed in order, settled once, and blocked, paused and completed only  *)
(* by a session (HpoRunner._run_session, _finish_session, _blocked).       *)
THEOREM PageSeesTheCourse == StudySpec => ImplementsCourse
<1>1. StudyInv /\ [StudyNext]_studyVars => [Course!Next]_Course!courseVars
  BY CourseWriters, CoursePrepares, CourseMoves, CourseTrialMoves DEF Course!courseVars
<1> QED BY <1>1, CourseStarts, StudyInvariant, PTL DEF StudySpec, ImplementsCourse, Course!Spec

(* A controller is known while it runs, and its failure once it ended      *)
(* (HpoController.start, _finish and the registry).                        *)
THEOREM ControllerStaysKnownAndReported == StudySpec => []ControllerIsKnown
BY ControllerStaysKnown, FailureIsReported, PTL DEF ControllerIsKnown

-----------------------------------------------------------------------------
(* The rounds of a session, for any parameters, bounds, rules, reports and *)
(* metrics, and any number of rounds and faults.  First the audit alone.   *)

(* The updates the program makes give records again. *)
LEMMA RecordUpdates ==
  ASSUME NEW m, IsRecord(m), NEW v, NEW w
  PROVE  /\ IsRecord([m EXCEPT !.facts = TRUE])
         /\ IsRecord([m EXCEPT !.attempts = @ + 1, !.accepted = TRUE])
         /\ IsRecord([m EXCEPT !.attempts = @ + 1, !.accepted = FALSE])
         /\ IsRecord([m EXCEPT !.launched = TRUE])
         /\ IsRecord([m EXCEPT !.verdict = v, !.stop = w])
<1>1. IsRecord([m EXCEPT !.facts = TRUE]) /\ IsRecord([m EXCEPT !.launched = TRUE])
  BY DEF IsRecord, AuditFields
<1>2. IsRecord([m EXCEPT !.attempts = @ + 1, !.accepted = TRUE])
  BY DEF IsRecord, AuditFields
<1>3. IsRecord([m EXCEPT !.attempts = @ + 1, !.accepted = FALSE])
  BY DEF IsRecord, AuditFields
<1>4. IsRecord([m EXCEPT !.verdict = v, !.stop = w])
  BY DEF IsRecord, AuditFields
<1> QED BY <1>1, <1>2, <1>3, <1>4

LEMMA AuditStarts == Init => AuditInv
BY DEF Init, AuditInv, AuditKnown, IsRecord, AuditFields, NewRecord, StopHasItsVerdict, EndIsTold

(* What Persist and Abort do to a record that tells no end yet.            *)
LEMMA PersistKeeps ==
  ASSUME AuditInv, pc \in {"perceive", "ask", "correct", "refused", "guard", "train", "judge"},
         UNCHANGED round, NEW rec, NEW next, Persist(rec, next),
         IsRecord(rec), rec.round = round, ~rec.failed,
         rec.verdict = rec.stop,
         next \in {"ask", "correct", "refused", "guard", "train", "stopped"},
         rec.stop = None <=> next # "stopped",
         next = "ask" => rec.attempts = 0,
         next = "correct" => rec.attempts = 1 /\ ~rec.accepted,
         next \in {"guard", "train"} => rec.accepted,
         next = "train" => rec.launched
  PROVE  AuditInv'
<1>1. CASE mem' = rec /\ disk' = rec /\ pc' = next /\ UNCHANGED outcome
  BY <1>1 DEF AuditInv, AuditKnown, IsRecord, AuditFields, StopHasItsVerdict, EndIsTold
<1>2. CASE UNCHANGED <<mem, disk, outcome>> /\ pc' = "unaudited"
  BY <1>2 DEF AuditInv, AuditKnown, IsRecord, AuditFields, StopHasItsVerdict, EndIsTold
<1> QED BY <1>1, <1>2 DEF Persist

LEMMA AbortKeeps ==
  ASSUME AuditInv, pc \notin {"stopped", "raised", "ended"}, UNCHANGED round, Abort
  PROVE  AuditInv'
BY DEF AuditInv, AuditKnown, IsRecord, AuditFields, StopHasItsVerdict, EndIsTold, Abort, Failure

LEMMA AuditStep ==
  ASSUME AuditInv, Next PROVE AuditInv'
<1>0. IsRecord(mem)
  BY DEF AuditInv, AuditKnown
<1> USE DEF AuditInv, AuditKnown, StopHasItsVerdict, EndIsTold
<1>1. CASE Perceive
  <2> DEFINE rec == [mem EXCEPT !.facts = TRUE]
  <2>1. pc = "perceive" /\ UNCHANGED round /\ Persist(rec, "ask")
    BY <1>1 DEF Perceive
  <2>2. rec.round = round /\ ~rec.failed /\ rec.stop = None
        /\ rec.attempts = 0 /\ rec.verdict = None
    BY <2>1 DEF IsRecord, AuditFields
  <2>3. IsRecord(rec)
    BY <1>0, RecordUpdates
  <2> HIDE DEF rec, AuditInv
  <2> QED BY <2>1, <2>2, <2>3, PersistKeeps
<1>2. CASE PerceptionFails \/ NoDecision \/ LaunchFails \/ ResultFails
  BY <1>2, AbortKeeps DEF PerceptionFails, NoDecision, LaunchFails, ResultFails
<1>3. CASE Respond \/ Correct
  <2> DEFINE good == [mem EXCEPT !.attempts = @ + 1, !.accepted = TRUE]
             bad == [mem EXCEPT !.attempts = @ + 1, !.accepted = FALSE]
  <2>1. \/ pc = "ask" /\ Answered("correct")
        \/ pc = "correct" /\ Answered("refused")
    BY <1>3 DEF Respond, Correct
  <2>2. /\ pc \in {"ask", "correct"} /\ UNCHANGED round
        /\ \/ Persist(good, "guard")
           \/ pc = "ask" /\ Persist(bad, "correct")
           \/ pc = "correct" /\ Persist(bad, "refused")
    BY <2>1 DEF Answered
  <2>3. good.round = round /\ ~good.failed /\ good.stop = None
        /\ good.accepted /\ good.verdict = None
    BY <2>2 DEF IsRecord, AuditFields
  <2>4. bad.round = round /\ ~bad.failed /\ bad.stop = None
        /\ ~bad.accepted /\ bad.verdict = None /\ (pc = "ask" => bad.attempts = 1)
    BY <2>2 DEF IsRecord, AuditFields
  <2>5. IsRecord(good) /\ IsRecord(bad)
    BY <1>0, RecordUpdates
  <2> HIDE DEF good, bad, AuditInv
  <2> QED BY <2>2, <2>3, <2>4, <2>5, PersistKeeps
<1>4. CASE Unaudited
  BY <1>4 DEF Unaudited, Failure, IsRecord, AuditFields
<1>5. CASE StopsBeforeTraining
  <2> DEFINE stop == StopBefore(decision)
             rec == [mem EXCEPT !.verdict = stop, !.stop = stop]
  <2>1. pc = "guard" /\ UNCHANGED round /\ Persist(rec, "stopped") /\ stop # None
    BY <1>5 DEF StopsBeforeTraining
  <2> HIDE DEF stop
  <2>2. rec.round = round /\ ~rec.failed /\ rec.stop = stop /\ rec.verdict = stop
    BY <2>1 DEF IsRecord, AuditFields
  <2>3. IsRecord(rec)
    BY <1>0, RecordUpdates
  <2> HIDE DEF rec, AuditInv
  <2> QED BY <2>1, <2>2, <2>3, PersistKeeps
<1>6. CASE LaunchTraining
  <2> DEFINE rec == [mem EXCEPT !.launched = TRUE]
  <2>1. pc = "guard" /\ UNCHANGED round /\ Persist(rec, "train")
    BY <1>6 DEF LaunchTraining
  <2>2. rec.round = round /\ ~rec.failed /\ rec.stop = None
        /\ rec.accepted /\ rec.launched /\ rec.verdict = None
    BY <2>1 DEF IsRecord, AuditFields
  <2>3. IsRecord(rec)
    BY <1>0, RecordUpdates
  <2> HIDE DEF rec, AuditInv
  <2> QED BY <2>1, <2>2, <2>3, PersistKeeps
<1>7. CASE TrainingFails
  BY <1>7 DEF TrainingFails, NextRound, NewRecord, IsRecord, AuditFields
<1>8. CASE TrainingEnds
  BY <1>8 DEF TrainingEnds, IsRecord, AuditFields
<1>9. CASE JudgeStops
  <2> DEFINE stop == StopAfter(Score(metrics[round]))
             rec == [mem EXCEPT !.verdict = stop, !.stop = stop]
  <2>1. pc = "judge" /\ UNCHANGED round /\ Persist(rec, "stopped") /\ stop # None
    BY <1>9 DEF JudgeStops
  <2> HIDE DEF stop
  <2>2. rec.round = round /\ ~rec.failed /\ rec.stop = stop /\ rec.verdict = stop
    BY <2>1 DEF IsRecord, AuditFields
  <2>3. IsRecord(rec)
    BY <1>0, RecordUpdates
  <2> HIDE DEF rec, AuditInv
  <2> QED BY <2>1, <2>2, <2>3, PersistKeeps
<1>10. CASE JudgeContinues
  BY <1>10 DEF JudgeContinues, NextRound, NewRecord, IsRecord, AuditFields
<1>11. CASE FinishStopped
  BY <1>11 DEF FinishStopped, Returned, IsRecord, AuditFields
<1>12. CASE FinishRaises
  BY <1>12 DEF FinishRaises, IsRecord, AuditFields
<1>13. CASE FailStopped
  <2> DEFINE failed == [mem EXCEPT !.failed = TRUE]
             closed == [failed EXCEPT !.status = "failed"]
  <2>1. /\ pc = "raised" /\ pc' = "ended" /\ round' = round
        /\ outcome'.status = "failed"
        /\ mem' \in {failed, closed} /\ disk' \in {disk, failed, closed}
    BY <1>13 DEF FailStopped, Returned
  <2>2. /\ IsRecord(failed) /\ failed.round = mem.round /\ failed.stop = mem.stop /\ failed.verdict = mem.verdict
        /\ IsRecord(closed) /\ closed.round = mem.round /\ closed.stop = mem.stop /\ closed.verdict = mem.verdict
    BY <1>0 DEF IsRecord, AuditFields
  <2> HIDE DEF failed, closed
  <2> QED BY <2>1, <2>2
<1>14. CASE Exhausted
  BY <1>14 DEF Exhausted, Spent, Returned, IsRecord, AuditFields
<1>15. CASE ExhaustedRaises
  BY <1>15 DEF ExhaustedRaises, Spent, IsRecord, AuditFields
<1> QED BY <1>1, <1>2, <1>3, <1>4, <1>5, <1>6, <1>7, <1>8, <1>9, <1>10, <1>11, <1>12, <1>13, <1>14, <1>15 DEF Next

LEMMA AuditInvariant == Spec => []AuditInv
<1>1. AuditInv /\ UNCHANGED vars => AuditInv'
  BY DEF vars, AuditInv, AuditKnown, IsRecord, AuditFields, StopHasItsVerdict, EndIsTold
<1> QED BY <1>1, AuditStarts, AuditStep, PTL DEF Spec

(* The file is never behind what was done, and never inconsistent in       *)
(* itself, whichever writes fail, those that close the session included    *)
(* (TuningAuditSession, _finish_stopped_tuning, _abort_tuning).            *)
THEOREM AuditStaysTrue == Spec => []AuditIsTrue
<1>1. AuditInv => AuditIsTrue
  BY DEF AuditInv, AuditKnown, AuditIsTrue, AuditLeads
<1> QED BY <1>1, AuditInvariant, PTL

-----------------------------------------------------------------------------
(* The operators.                                                           *)

(* The guardrails move a value towards what is in bounds, never past it.    *)
LEMMA ClampFits ==
  ASSUME NEW p \in Params, NEW v \in Int
  PROVE  /\ Clamp(p, v) \in Int
         /\ \A old \in Int : InBounds(p, old) =>
              /\ v <= old => v <= Clamp(p, v) /\ Clamp(p, v) <= old
              /\ old <= v => old <= Clamp(p, v) /\ Clamp(p, v) <= v
<1>1. Bounds[p].low \in Int /\ Bounds[p].high \in Int /\ Bounds[p].low <= Bounds[p].high
  BY TablesAreTyped
<1> QED BY <1>1 DEF Clamp, InBounds

LEMMA SanitizedFits ==
  ASSUME NEW r, IsChange(r.changes)
  PROVE  /\ IsChange(Sanitized(r)) /\ DOMAIN Sanitized(r) = DOMAIN r.changes
         /\ \A p \in DOMAIN r.changes : Sanitized(r)[p] = Clamp(p, r.changes[p])
BY ClampFits DEF IsChange, Sanitized

LEMMA MergedFits ==
  ASSUME NEW from \in [Params -> Int], NEW c, IsChange(c)
  PROVE  Merged(from, c) \in [Params -> Int]
BY DEF Merged, IsChange

(* Two changes of the same run that leave nothing as it was and come to the *)
(* same are the same.                                                       *)
LEMMA SameChange ==
  ASSUME NEW from \in [Params -> Int], NEW c, NEW d, IsChange(c), IsChange(d),
         Merged(from, c) = Merged(from, d),
         \A p \in DOMAIN c : c[p] # from[p], \A p \in DOMAIN d : d[p] # from[p]
  PROVE  c = d
<1>1. \A p \in Params : Merged(from, c)[p] = Merged(from, d)[p]
  OBVIOUS
<1>2. \A p \in Params : (IF p \in DOMAIN c THEN c[p] ELSE from[p]) = (IF p \in DOMAIN d THEN d[p] ELSE from[p])
  BY <1>1 DEF Merged
<1>3. DOMAIN c = DOMAIN d
  BY <1>2 DEF IsChange
<1>4. \A p \in DOMAIN c : c[p] = d[p]
  BY <1>2, <1>3 DEF IsChange
<1> QED BY <1>3, <1>4 DEF IsChange

LEMMA ResponseFits ==
  ASSUME NEW r \in Responses, WellFormed(r)
  PROVE  IsChange(r.changes)
<1>1. PICK ps \in {s \in SUBSET Params : Cardinality(s) <= 2} :
        r \in {[changes |-> c, evidence |-> e] : c \in [ps -> UNION {Suggestible[p] : p \in ps}],
                                                e \in [ps -> SUBSET Facts \ {{}}]}
  BY DEF Responses
<1>2. r.changes \in [ps -> UNION {Suggestible[p] : p \in ps}]
  BY <1>1
<1>3. \A p \in ps : r.changes[p] \in Int
  BY <1>1, <1>2, TablesAreTyped DEF WellFormed
<1> QED BY <1>1, <1>2, <1>3 DEF IsChange

(* Whichever rule is chosen, its limit is that of the parameter and the     *)
(* direction.                                                               *)
LEMMA LimitIsOfRule ==
  ASSUME NEW p, NEW dir, NEW f, Supports(f, p, dir)
  PROVE  \E r \in Rules : r.param = p /\ r.dir = dir /\ LimitOf(p, dir) = r.limit
BY DEF Supports, LimitOf

(* What the guardrails leave of a valid move is a valid move, but for the   *)
(* smallest step a ratio asks for.                                          *)
LEMMA LessIsAllowed ==
  ASSUME NEW r \in Rules, NEW old \in Int, NEW v \in Int, NEW c \in Int,
         r.dir = Direction(old, v), Within(r.limit, old, v), c # old,
         v <= old => v <= c /\ c <= old, old <= v => old <= c /\ c <= v
  PROVE  Direction(old, c) = r.dir /\ NoFurther(r.limit, old, c)
<1>1. Direction(old, c) = Direction(old, v)
  BY DEF Direction
<1>2. CASE r.limit.kind = "ratio" /\ r.dir = "down"
  BY <1>1, <1>2 DEF Direction, Within, NoFurther
<1>3. CASE r.limit.kind = "fraction" /\ r.dir = "down" /\ r.limit.by \in Nat \ {0}
  <2>1. old > 0 /\ r.limit.by * v >= old /\ v <= c
    BY <1>3 DEF Direction, Within
  <2>2. r.limit.by * c >= r.limit.by * v
    BY <2>1, <1>3
  <2> QED BY <1>1, <1>3, <2>1, <2>2 DEF Within, NoFurther
<1>4. CASE r.limit.kind = "multiple" /\ r.dir = "up" /\ r.limit.by \in Nat \ {0}
           /\ r.limit.cap \in Int \union {None}
  BY <1>1, <1>4 DEF Direction, Within, NoFurther
<1>5. CASE r.limit.kind = "add" /\ r.dir = "up" /\ r.limit.by \in Nat
  BY <1>1, <1>5 DEF Direction, Within, NoFurther
<1> QED BY <1>2, <1>3, <1>4, <1>5, TablesAreTyped

LEMMA MoveIsSupported ==
  ASSUME NEW p \in Params, NEW old \in Int, NEW v \in Int, NEW cited,
         ParameterValid(p, old, v, cited), InBounds(p, old), Clamp(p, v) # old
  PROVE  \E f \in cited :
           /\ Supports(f, p, Direction(old, Clamp(p, v)))
           /\ NoFurther(LimitOf(p, Direction(old, Clamp(p, v))), old, Clamp(p, v))
<1>1. PICK f \in cited : Supports(f, p, Direction(old, v))
  BY DEF ParameterValid
<1>2. Within(LimitOf(p, Direction(old, v)), old, v)
  BY DEF ParameterValid
<1>3. PICK r \in Rules : r.param = p /\ r.dir = Direction(old, v) /\ LimitOf(p, Direction(old, v)) = r.limit
  BY <1>1, LimitIsOfRule
<1>4. Direction(old, Clamp(p, v)) = r.dir /\ NoFurther(r.limit, old, Clamp(p, v))
  BY <1>2, <1>3, ClampFits, LessIsAllowed
<1> QED BY <1>1, <1>3, <1>4

(* A step that does not turn back leads away from every run on the way.     *)
LEMMA OneStep ==
  ASSUME NEW x \in Int, NEW y \in Int, NEW z \in Int, NEW last \in Directions \union {None},
         Direction(x, y) \in {"none", last}, z # y => last = None \/ last = Direction(y, z),
         NEW next, next = IF z # y THEN Direction(y, z) ELSE last
  PROVE  /\ next \in Directions \union {None}
         /\ Direction(x, y) \in {"none", next} /\ Direction(x, z) \in {"none", next}
         /\ Direction(z, z) = "none" /\ (z # y => z # x)
<1>1. None # "none" /\ None # "up" /\ None # "down"
  BY NoneIsApart
<1>2. CASE z = y
  BY <1>1, <1>2 DEF Direction, Directions
<1>3. CASE z > y
  BY <1>1, <1>3 DEF Direction, Directions
<1>4. CASE z < y
  BY <1>1, <1>4 DEF Direction, Directions
<1> QED BY <1>2, <1>3, <1>4

LEMMA StopReason ==
  ASSUME NEW r, StopBefore(r) = None
  PROVE  DOMAIN r.changes # {} /\ Signature(r) \notin policy.tried /\ ~Oscillates(r)
<1>1. None # "keep_params" /\ None # "repeated_change" /\ None # "oscillation"
  BY NoneIsApart
<1>2. DOMAIN r.changes # {}
  BY <1>1 DEF StopBefore
<1>3. Signature(r) \notin policy.tried
  BY <1>1, <1>2 DEF StopBefore
<1>4. ~Oscillates(r)
  BY <1>1, <1>2, <1>3 DEF StopBefore
<1> QED BY <1>2, <1>3, <1>4

LEMMA ScoreFits ==
  ASSUME NEW m \in Measured
  PROVE  /\ m = None <=> Score(m) = None
         /\ m # None => Score(m) \in Int /\ SummaryScore(m) \in Int
         /\ m # None /\ m.rest # None => SummaryScore(m) = Score(m)
<1>1. CASE m = None
  BY <1>1 DEF Score
<1>2. CASE m # None
  <2>1. m.map \in Int /\ m.rest \in Int \union {None}
    BY <1>2, TablesAreTyped DEF Measured
  <2> QED BY <1>2, <2>1, NoneIsApart DEF Score, SummaryScore
<1> QED BY <1>1, <1>2

-----------------------------------------------------------------------------
(* The steps.                                                               *)

LEMMA DecisionStarts == Init => DecisionInv
<1> SUFFICES ASSUME Init PROVE DecisionInv
  OBVIOUS
<1>1. MaxRounds \in Nat \ {0} /\ 0 \in Runs
  BY RulesAgree DEF Runs
<1>2. PICK p \in References : args = [k \in Runs |-> IF k = 0 THEN p ELSE None]
  BY DEF Init
<1>3. PICK m \in Measured :
        /\ metrics = [k \in Runs |-> IF k = 0 THEN m ELSE None]
        /\ policy = [run |-> 0, score |-> Score(m), tried |-> {}, last |-> [q \in Params |-> None]]
  BY DEF Init
<1>4. p \in [Params -> Int] /\ p # None /\ None \in Measured
  BY TablesAreTyped, NoneIsApart DEF Measured
<1>5. Score(m) \in Int \union {None}
  BY ScoreFits
<1>6. RunsTyped
  BY <1>2, <1>3, <1>4 DEF Init, RunsTyped
<1>7. PolicyTyped
  BY <1>1, <1>3, <1>5 DEF PolicyTyped
<1>8. RunsKnown /\ RoundKnown /\ TriedKnown
  <2>1. args[0] # None /\ asked = [k \in Runs |-> None]
    BY <1>1, <1>2, <1>4 DEF Init
  <2>2. \A k \in Runs \ {0} : asked[k] = None /\ args[k] = None /\ metrics[k] = None
    BY <1>2, <1>3, <2>1
  <2>3. pc = "perceive" /\ round = 1 /\ base = 0 /\ policy.run = 0 /\ outcome = None /\ asked[0] = None
    BY <1>1, <1>3, <2>1 DEF Init
  <2>4. RunsKnown
    BY <1>1, <2>1, <2>2, <2>3 DEF RunsKnown, Open, Early
  <2> QED BY <1>1, <2>1, <2>2, <2>3, <2>4 DEF RoundKnown, TriedKnown, Open, Early
<1>9. OneWay
  <2>1. \A q \in Params : Direction(p[q], p[q]) = "none"
    BY <1>4 DEF Direction
  <2>2. args[0] = p /\ base = 0 /\ round = 1
    BY <1>1, <1>2 DEF Init
  <2> QED BY <1>1, <2>1, <2>2 DEF OneWay
<1>10. BestKnown
  <2>1. metrics[0] = m /\ policy.run = 0 /\ policy.score = Score(m)
    BY <1>1, <1>3
  <2>2. \A k \in Runs : metrics[k] # None => k = 0 /\ m # None
    BY <1>3
  <2> QED BY <1>1, <2>1, <2>2, ScoreFits DEF BestKnown
<1>11. ChangeIsSupported /\ NothingTrainedTwice /\ SummaryAgrees
  BY <1>1 DEF Init, ChangeIsSupported, NothingTrainedTwice, SummaryAgrees
<1> QED BY <1>6, <1>7, <1>8, <1>9, <1>10, <1>11 DEF DecisionInv

(* A session that is over, or stops, leaves its runs as they are.           *)
LEMMA ClosingKeeps ==
  ASSUME DecisionInv, pc \in {"judge", "ended"} => pc' = "ended", pc' \in Closed, outcome' # None => pc' = "ended",
         UNCHANGED <<round, base, args, report, metrics, asked, policy>>, SummaryAgrees'
  PROVE  DecisionInv'
<1>1. RunsTyped' /\ PolicyTyped'
  BY DEF DecisionInv, RunsTyped, PolicyTyped
<1>2. RunsKnown' /\ RoundKnown' /\ TriedKnown' /\ OneWay'
  BY DEF DecisionInv, RunsKnown, AskedFits, RoundKnown, TriedKnown, OneWay, Open, Early, Closed
<1>3. BestKnown'
  BY DEF DecisionInv, BestKnown, Closed
<1>4. ChangeIsSupported' /\ NothingTrainedTwice'
  BY DEF DecisionInv, ChangeIsSupported, NothingTrainedTwice
<1> QED BY <1>1, <1>2, <1>3, <1>4 DEF DecisionInv

(* Before the training, only the facts of the reference run are added.      *)
LEMMA AskingKeeps ==
  ASSUME DecisionInv, pc \in Early, pc' \in (Early \ {"perceive"}) \union {"unaudited"},
         UNCHANGED <<round, base, args, metrics, asked, policy, outcome>>,
         report' \in [Runs -> Reports \union {None}], report'[base] # None,
         \A k \in Runs : report[k] # None => report'[k] = report[k],
         pc' = "guard" => (\E r \in Responses : Accepted(r) /\ decision = [changes |-> r.changes])'
  PROVE  DecisionInv'
<1>1. RunsTyped' /\ PolicyTyped'
  BY DEF DecisionInv, RunsTyped, PolicyTyped
<1>2. \A k \in Runs \ {0} : asked[k] # None => AskedFits(k) /\ asked[k].from \in Runs
  BY DEF DecisionInv, RunsKnown, RunsTyped, IsAsked
<1>3. \A k \in Runs : asked[k] # None => k # 0 /\ report'[asked[k].from] = report[asked[k].from]
  BY <1>2 DEF AskedFits, DecisionInv, RunsKnown
<1>4. RunsKnown'
  <2>1. \A k \in Runs \ {0} : asked[k] # None => AskedFits(k)'
    BY <1>2, <1>3 DEF AskedFits, Sanitized
  <2> QED BY <2>1 DEF DecisionInv, RunsKnown, Open, Early, Closed
<1>5. RoundKnown'
  BY DEF DecisionInv, RoundKnown, Open, Early
<1>6. TriedKnown' /\ OneWay' /\ BestKnown'
  BY DEF DecisionInv, TriedKnown, OneWay, BestKnown, Open, Early
<1>7. ChangeIsSupported'
  BY <1>3 DEF DecisionInv, ChangeIsSupported
<1>8. NothingTrainedTwice' /\ SummaryAgrees'
  BY DEF DecisionInv, NothingTrainedTwice, SummaryAgrees
<1> QED BY <1>1, <1>4, <1>5, <1>6, <1>7, <1>8 DEF DecisionInv

LEMMA PerceiveKeeps ==
  ASSUME DecisionInv, Perceive PROVE DecisionInv'
<1>1. PICK facts \in Reports : report' = [report EXCEPT ![base] = IF report[base] = None THEN facts ELSE report[base]]
  BY DEF Perceive, Analyzed
<1>2. base \in Runs /\ report \in [Runs -> Reports \union {None}] /\ facts # None
  BY NoneIsApart DEF DecisionInv, RunsKnown, RunsTyped
<1>3. /\ report' \in [Runs -> Reports \union {None}] /\ report'[base] # None
      /\ \A k \in Runs : report[k] # None => report'[k] = report[k]
  BY <1>1, <1>2
<1>4. /\ pc = "perceive" /\ pc' \in {"ask", "unaudited"}
      /\ UNCHANGED <<round, base, args, metrics, asked, policy, outcome>>
  BY DEF Perceive, Persist
<1> QED BY <1>3, <1>4, AskingKeeps DEF Early

LEMMA AnsweredKeeps ==
  ASSUME DecisionInv, Respond \/ Correct PROVE DecisionInv'
<1>1. /\ pc \in {"ask", "correct"} /\ pc' \in {"guard", "correct", "refused", "unaudited"}
      /\ UNCHANGED <<round, base, args, metrics, asked, policy, outcome, report>>
      /\ pc' = "guard" => decision' \in Decisions
  BY DEF Respond, Correct, Answered, Persist, runs
<1>2. report' \in [Runs -> Reports \union {None}] /\ report'[base] # None
  BY <1>1 DEF DecisionInv, RunsTyped, RoundKnown, Open, Early
<1>3. pc' = "guard" => (\E r \in Responses : Accepted(r) /\ decision = [changes |-> r.changes])'
  <2>1. pc' = "guard" => \E r \in Responses : Accepted(r) /\ decision' = [changes |-> r.changes]
    BY <1>1 DEF Decisions
  <2>2. ASSUME NEW r PROVE Accepted(r)' <=> Accepted(r)
    BY <1>1 DEF Accepted, WellFormed, EvidenceKnown, SemanticsValid, Package
  <2> QED BY <2>1, <2>2
<1> QED BY <1>1, <1>2, <1>3, AskingKeeps DEF Early

LEMMA AbortingKeeps ==
  ASSUME DecisionInv, PerceptionFails \/ NoDecision \/ LaunchFails \/ ResultFails \/ Unaudited
  PROVE  DecisionInv'
<1>1. /\ pc' = "ended" /\ outcome' = Failure
      /\ UNCHANGED <<round, base, args, report, metrics, asked, policy>>
  BY DEF PerceptionFails, NoDecision, LaunchFails, ResultFails, Unaudited, Abort, runs
<1>2. SummaryAgrees'
  BY <1>1 DEF SummaryAgrees, Failure
<1> QED BY <1>1, <1>2, ClosingKeeps DEF Closed

LEMMA StopsBeforeKeeps ==
  ASSUME DecisionInv, StopsBeforeTraining PROVE DecisionInv'
<1>1. /\ pc = "guard" /\ pc' \in {"stopped", "unaudited"}
      /\ UNCHANGED <<round, base, args, report, metrics, asked, policy, outcome>>
  BY DEF StopsBeforeTraining, Persist, runs
<1>2. outcome = None /\ SummaryAgrees'
  BY <1>1 DEF DecisionInv, RunsKnown, SummaryAgrees
<1> QED BY <1>1, <1>2, ClosingKeeps DEF Closed

(* What the step of a round does to one parameter of the reference run.     *)
LEMMA MovedFits ==
  ASSUME NEW r, IsChange(r.changes), ~Oscillates(r), args[base] \in [Params -> Int], PolicyTyped,
         NEW p \in Params, NEW z, z = Merged(args[base], Sanitized(r))[p]
  PROVE  /\ z \in Int
         /\ p \in DOMAIN Moved(r) <=> z # args[base][p]
         /\ p \in DOMAIN Moved(r) => Moved(r)[p] = Direction(args[base][p], z)
         /\ z # args[base][p] => policy.last[p] = None \/ policy.last[p] = Direction(args[base][p], z)
<1>1. Merged(args[base], Sanitized(r)) \in [Params -> Int]
  BY SanitizedFits, MergedFits
<1>2. DOMAIN Moved(r) = {q \in Params : Merged(args[base], Sanitized(r))[q] # args[base][q]}
  BY DEF Moved
<1>3. p \in DOMAIN Moved(r) => Moved(r)[p] = Direction(args[base][p], z)
  BY <1>2 DEF Moved
<1>4. p \in DOMAIN Moved(r) => policy.last[p] = None \/ policy.last[p] = Moved(r)[p]
  BY DEF Oscillates
<1> QED BY <1>1, <1>2, <1>3, <1>4

(* The same parameter as seen from a run on the way to the reference run.   *)
LEMMA StepFits ==
  ASSUME DecisionInv, pc \in Open, IsChange(decision.changes), ~Oscillates(decision),
         NEW j \in 0..(round - 1), j = 0 \/ metrics[j] # None,
         NEW p \in Params, NEW z, z = Merged(args[base], Sanitized(decision))[p],
         NEW next, next = IF p \in DOMAIN Moved(decision) THEN Moved(decision)[p] ELSE policy.last[p]
  PROVE  /\ args[j] \in [Params -> Int] /\ args[base] \in [Params -> Int]
         /\ next \in Directions \union {None}
         /\ Direction(args[j][p], args[base][p]) \in {"none", next}
         /\ Direction(args[j][p], z) \in {"none", next}
         /\ z # args[base][p] => z # args[j][p]
<1>1. j \in Runs /\ base \in Runs /\ args[j] # None /\ args[base] # None
  BY RulesAgree DEF DecisionInv, RunsKnown, RoundKnown, Runs
<1>2. args[j] \in [Params -> Int] /\ args[base] \in [Params -> Int]
  BY <1>1 DEF DecisionInv, RunsTyped
<1>3. Direction(args[j][p], args[base][p]) \in {"none", policy.last[p]} /\ policy.last[p] \in Directions \union {None}
  BY DEF DecisionInv, OneWay, PolicyTyped
<1>4. /\ z \in Int
      /\ p \in DOMAIN Moved(decision) <=> z # args[base][p]
      /\ p \in DOMAIN Moved(decision) => Moved(decision)[p] = Direction(args[base][p], z)
      /\ z # args[base][p] => policy.last[p] = None \/ policy.last[p] = Direction(args[base][p], z)
  BY <1>2, MovedFits DEF DecisionInv
<1>5. args[j][p] \in Int /\ args[base][p] \in Int
  BY <1>2
<1>6. next = IF z # args[base][p] THEN Direction(args[base][p], z) ELSE policy.last[p]
  BY <1>4
<1> QED BY <1>2, <1>3, <1>4, <1>5, <1>6, OneStep, SMTT(30)

LEMMA LaunchTrainingKeeps ==
  ASSUME DecisionInv, LaunchTraining PROVE DecisionInv'
<1> DEFINE old == args[base]
           ask == [from |-> base, changes |-> decision.changes]
           new == Merged(old, Sanitized(decision))
<1>1. /\ pc = "guard" /\ StopBefore(decision) = None /\ pc' \in {"train", "unaudited"}
      /\ args' = [args EXCEPT ![round] = new] /\ asked' = [asked EXCEPT ![round] = ask]
      /\ UNCHANGED <<round, base, report, metrics, decision, policy, outcome>>
  BY DEF LaunchTraining, Persist
<1>2. PICK r \in Responses : Accepted(r) /\ decision = [changes |-> r.changes]
  BY <1>1 DEF DecisionInv, RoundKnown
<1>3. IsChange(decision.changes) /\ IsChange(Sanitized(decision)) /\ decision.changes = r.changes
  BY <1>2, ResponseFits, SanitizedFits DEF Accepted
<1>0. MaxRounds \in Nat /\ round \in Nat /\ 0 \in Runs /\ \A k \in Runs : k \in Nat
  BY RulesAgree DEF DecisionInv, RunsKnown, Runs
<1>4. /\ round \in Runs \ {0} /\ base \in Runs /\ base < round
      /\ old \in [Params -> Int] /\ report[base] # None
  BY <1>1, RulesAgree DEF DecisionInv, RunsKnown, RoundKnown, RunsTyped, Runs, Open, Early
<1>5. new \in [Params -> Int] /\ new # None
  BY <1>3, <1>4, MergedFits, NoneIsApart
<1>6. IsAsked(ask) /\ ask # None
  <2>1. ask \in [from : Nat, changes : [DOMAIN decision.changes -> Int]]
    BY <1>3, <1>4 DEF IsChange, Runs
  <2> QED BY <2>1, <1>3, <1>4, NoneIsApart DEF IsAsked, IsChange
<1>7. Sanitized(ask) = Sanitized(decision)
  BY DEF Sanitized
<1>8. /\ args'[round] = new /\ asked'[round] = ask
      /\ \A k \in Runs : k # round => args'[k] = args[k] /\ asked'[k] = asked[k]
  BY <1>1, <1>4 DEF DecisionInv, RunsTyped
<1> HIDE DEF ask, new
<1>9. \A k \in Runs \ {0} : asked[k] # None => AskedFits(k) /\ k < round /\ asked[k].from \in Runs /\ args[k] # None
  BY <1>1 DEF DecisionInv, RunsKnown, RunsTyped, IsAsked, Early
<1>10. RunsTyped' /\ PolicyTyped'
  <2>1. args' \in [Runs -> [Params -> Int] \union {None}]
    BY <1>1, <1>5 DEF DecisionInv, RunsTyped
  <2>2. asked' = [k \in Runs |-> asked'[k]] /\ \A k \in Runs : asked'[k] = None \/ IsAsked(asked'[k])
    BY <1>1, <1>6, <1>8 DEF DecisionInv, RunsTyped
  <2> QED BY <1>1, <2>1, <2>2 DEF DecisionInv, RunsTyped, PolicyTyped
<1>11. ask.from = base /\ ask.changes = decision.changes
  BY DEF ask
<1>12. RunsKnown'
  <2>1. AskedFits(round)'
    <3>1. args'[base] = old
      BY <1>0, <1>4, <1>8
    <3>2. args'[round] = Merged(args'[asked'[round].from], Sanitized(asked'[round]))
      BY <1>4, <1>7, <1>8, <1>11, <3>1 DEF new
    <3>3. round <= round /\ old # None
      BY <1>0, <1>4, NoneIsApart
    <3> QED BY <1>1, <1>4, <1>8, <1>11, <3>1, <3>2, <3>3 DEF AskedFits, Sanitized
  <2>2. ASSUME NEW k \in Runs \ {0}, asked[k] # None, k # round PROVE AskedFits(k)'
    <3>1. AskedFits(k) /\ asked'[k] = asked[k] /\ args'[k] = args[k] /\ asked[k].from # round
          /\ args'[asked[k].from] = args[asked[k].from]
      BY <1>0, <1>8, <1>9, <2>2 DEF AskedFits
    <3> QED BY <1>1, <3>1 DEF AskedFits, Sanitized
  <2>3. ASSUME NEW k \in Runs \ {0}
        PROVE  /\ asked'[k] # None <=> args'[k] # None
               /\ metrics'[k] # None => asked'[k] # None
               /\ asked'[k] # None => AskedFits(k)'
               /\ pc' = "train" /\ metrics'[k] # None => k < round'
    BY <1>0, <1>1, <1>5, <1>6, <1>8, <1>9, <2>1, <2>2 DEF DecisionInv, RunsKnown, Early
  <2>4. args'[0] # None /\ asked'[0] = None
    BY <1>0, <1>4, <1>8 DEF DecisionInv, RunsKnown
  <2> QED BY <1>1, <2>3, <2>4 DEF DecisionInv, RunsKnown, Open, Early, Closed
<1>13. RoundKnown'
  <2>1. args'[base] = old
    BY <1>0, <1>4, <1>8
  <2>2. StopBefore(decision)'
    = StopBefore(decision)
    BY <1>1, <2>1 DEF StopBefore, Signature, Oscillates, Moved
  <2> QED BY <1>1, <1>4, <1>6, <1>8, <2>1, <2>2, NoneIsApart DEF DecisionInv, RoundKnown, Open, Early, ask
<1>14. TriedKnown' /\ BestKnown'
  <2>1. \A j \in 1..(round - 1) : j \in Runs /\ j # round
    BY <1>0, <1>4 DEF Runs
  <2>2. TriedKnown'
    BY <1>1, <1>8, <2>1 DEF DecisionInv, TriedKnown, Open, Early, Sanitized
  <2>3. BestKnown'
    BY <1>1 DEF DecisionInv, BestKnown
  <2> QED BY <2>2, <2>3
<1>15. OneWay'
  <2>1. \A j \in 0..(round - 1) : j \in Runs /\ j # round
    BY <1>0, <1>4 DEF Runs
  <2> QED BY <1>0, <1>1, <1>4, <1>8, <2>1 DEF DecisionInv, OneWay, Open, Early
<1>16. SummaryAgrees'
  BY <1>1 DEF DecisionInv, RunsKnown, SummaryAgrees
<1>17. ChangeIsSupported'
  <2> SUFFICES ASSUME NEW k \in Runs, asked'[k] # None, NEW p \in Params,
                      args'[k][p] # args'[asked'[k].from][p], InBounds(p, args'[asked'[k].from][p])
               PROVE  \E f \in report'[asked'[k].from] :
                        /\ Supports(f, p, Direction(args'[asked'[k].from][p], args'[k][p]))
                        /\ NoFurther(LimitOf(p, Direction(args'[asked'[k].from][p], args'[k][p])),
                                     args'[asked'[k].from][p], args'[k][p])
    BY DEF ChangeIsSupported
  <2>1. CASE k # round
    <3>1. k # 0
      BY <1>8, <2>1 DEF DecisionInv, RunsKnown
    <3>2. asked'[k] = asked[k] /\ args'[k] = args[k] /\ args'[asked[k].from] = args[asked[k].from]
      BY <1>0, <1>8, <1>9, <2>1, <3>1 DEF AskedFits
    <3> QED BY <1>1, <3>2 DEF DecisionInv, ChangeIsSupported
  <2>2. CASE k = round
    <3>1. args'[asked'[k].from] = old /\ args'[k] = new /\ report'[asked'[k].from] = Package
      BY <1>1, <1>4, <1>8, <1>11, <2>2 DEF Package
    <3>2. p \in DOMAIN r.changes /\ new[p] = Clamp(p, r.changes[p]) /\ r.changes[p] \in Int /\ old[p] \in Int
      BY <1>3, <1>4, <3>1, SanitizedFits DEF new, Merged, IsChange
    <3>3. ParameterValid(p, old[p], r.changes[p], r.evidence[p]) /\ r.evidence[p] \subseteq Package
      BY <1>2, <3>2 DEF Accepted, SemanticsValid, EvidenceKnown
    <3>4. \E f \in r.evidence[p] :
           /\ Supports(f, p, Direction(old[p], new[p]))
           /\ NoFurther(LimitOf(p, Direction(old[p], new[p])), old[p], new[p])
      BY <3>1, <3>2, <3>3, MoveIsSupported
    <3> QED BY <3>1, <3>3, <3>4
  <2> QED BY <2>1, <2>2
<1>18. NothingTrainedTwice'
  <2> SUFFICES ASSUME NEW j \in Runs, NEW k \in Runs, j < k, args'[j] # None, asked'[k] # None,
                      args'[k] = args'[j], j = 0 \/ metrics'[j] # None \/ asked'[j].from = asked'[k].from
               PROVE  \E m \in {j, k} : asked'[m] # None
                        /\ \E p \in DOMAIN asked'[m].changes :
                             Clamp(p, asked'[m].changes[p]) = args'[asked'[m].from][p]
    BY DEF NothingTrainedTwice
  <2>0. j \in Nat /\ k \in Nat /\ round \in Nat /\ k # 0
    BY <1>0, <1>4 DEF Runs
  <2>1. CASE k # round
    <3>1. asked[k] # None /\ k < round /\ asked'[k] = asked[k] /\ args'[k] = args[k]
      BY <1>8, <1>9, <2>0, <2>1
    <3>2. j < round
      BY <2>0, <3>1
    <3>3. asked'[j] = asked[j] /\ args'[j] = args[j]
      BY <1>8, <2>0, <3>2
    <3>4. ASSUME NEW m \in {j, k}, asked[m] # None PROVE args'[asked[m].from] = args[asked[m].from]
      <4>1. m \in Runs \ {0} /\ m < round
        BY <2>0, <3>1, <3>2, <3>4 DEF DecisionInv, RunsKnown
      <4>2. asked[m].from \in Runs /\ asked[m].from < m
        BY <1>9, <3>4, <4>1 DEF AskedFits
      <4>3. asked[m].from # round
        BY <1>0, <4>1, <4>2
      <4> QED BY <1>8, <4>2, <4>3
    <3>5. \E m \in {j, k} : asked[m] # None
            /\ \E p \in DOMAIN asked[m].changes : Clamp(p, asked[m].changes[p]) = args[asked[m].from][p]
      BY <1>1, <3>1, <3>3 DEF DecisionInv, NothingTrainedTwice
    <3> QED BY <3>1, <3>3, <3>4, <3>5
  <2>2. CASE k = round
    <3>1. /\ j # round /\ asked'[j] = asked[j] /\ args'[j] = args[j] /\ asked'[k] = ask /\ args'[k] = new
          /\ args'[base] = old
      BY <1>4, <1>8, <2>0, <2>2
    <3> SUFFICES ASSUME \A p \in DOMAIN decision.changes : Clamp(p, decision.changes[p]) # old[p]
                 PROVE  /\ asked[j] # None
                        /\ \E p \in DOMAIN asked[j].changes :
                             Clamp(p, asked[j].changes[p]) = args'[asked[j].from][p]
      BY <1>6, <1>11, <3>1
    <3>2. DOMAIN decision.changes # {} /\ Signature(decision) \notin policy.tried /\ ~Oscillates(decision)
      BY <1>1, StopReason
    <3>3. ~(j = 0 \/ metrics[j] # None)
      <4> SUFFICES ASSUME j = 0 \/ metrics[j] # None PROVE FALSE
        OBVIOUS
      <4>1. PICK p \in DOMAIN decision.changes : TRUE
        BY <3>2
      <4>2. p \in Params /\ new[p] = Clamp(p, decision.changes[p])
        BY <1>3, SanitizedFits DEF new, Merged, IsChange
      <4>3. new[p] # args[j][p]
        <5>1. pc \in Open /\ j \in 0..(round - 1)
          BY <1>1, <2>0, <2>2 DEF Open, Early
        <5> QED BY <1>3, <3>2, <4>2, <5>1, StepFits DEF new
      <4> QED BY <3>1, <4>3
    <3>4. j # 0 /\ metrics[j] = None /\ asked[j].from = base
      BY <1>1, <1>11, <3>1, <3>3
    <3>5. asked[j] # None /\ IsAsked(asked[j]) /\ args[j] = Merged(old, Sanitized(asked[j]))
      BY <3>1, <3>4 DEF DecisionInv, RunsKnown, RunsTyped, AskedFits
    <3>6. Sanitized(asked[j]) # Sanitized(decision)
      <4>1. j \in 1..(round - 1)
        BY <2>0, <2>2, <3>4
      <4> QED BY <1>1, <3>2, <3>5, <4>1 DEF DecisionInv, TriedKnown, Signature, Open, Early
    <3>7. PICK p \in DOMAIN Sanitized(asked[j]) : Sanitized(asked[j])[p] = old[p]
      <4>1. IsChange(Sanitized(asked[j])) /\ IsChange(Sanitized(decision))
        BY <1>3, <3>5, SanitizedFits DEF IsAsked
      <4>2. \A p \in DOMAIN Sanitized(decision) : Sanitized(decision)[p] # old[p]
        BY <1>3, SanitizedFits
      <4> QED BY <1>4, <3>1, <3>5, <3>6, <4>1, <4>2, SameChange DEF new
    <3>8. p \in DOMAIN asked[j].changes /\ Clamp(p, asked[j].changes[p]) = old[p]
      BY <3>5, <3>7, SanitizedFits DEF IsAsked
    <3> QED BY <3>1, <3>4, <3>5, <3>8
  <2> QED BY <2>1, <2>2
<1> QED BY <1>10, <1>12, <1>13, <1>14, <1>15, <1>16, <1>17, <1>18 DEF DecisionInv

LEMMA TrainingFailsKeeps ==
  ASSUME DecisionInv, TrainingFails PROVE DecisionInv'
<1>0. /\ MaxRounds \in Nat /\ round \in Nat /\ round \in Runs \ {0} /\ 0 \in Runs /\ \A k \in Runs : k \in Nat
      /\ 0 < round /\ round <= MaxRounds
  BY RulesAgree DEF DecisionInv, RunsKnown, Runs
<1>1. /\ pc = "train"
      /\ args' = [args EXCEPT ![round] = None] /\ asked' = [asked EXCEPT ![round] = None]
      /\ UNCHANGED <<base, report, metrics, policy, outcome>>
      /\ \/ pc' = "perceive" /\ round' = round + 1 /\ round < MaxRounds
         \/ pc' \in {"exhausted", "unaudited"} /\ round' = round
  BY <1>0 DEF TrainingFails, NextRound
<1>2. /\ args'[round] = None /\ asked'[round] = None
      /\ \A k \in Runs : k # round => args'[k] = args[k] /\ asked'[k] = asked[k]
  BY <1>0, <1>1 DEF DecisionInv, RunsTyped
<1>3. \A k \in Runs : asked'[k] # None =>
        /\ k # 0 /\ k < round /\ AskedFits(k) /\ asked[k].from \in Runs
        /\ asked'[k] = asked[k] /\ args'[k] = args[k] /\ args'[asked[k].from] = args[asked[k].from]
  <2> SUFFICES ASSUME NEW k \in Runs, asked'[k] # None
               PROVE  /\ k # 0 /\ k < round /\ AskedFits(k) /\ asked[k].from \in Runs
                      /\ asked'[k] = asked[k] /\ args'[k] = args[k] /\ args'[asked[k].from] = args[asked[k].from]
    OBVIOUS
  <2>1. k # round /\ asked'[k] = asked[k] /\ args'[k] = args[k]
    BY <1>2
  <2>2. k # 0 /\ AskedFits(k) /\ asked[k].from \in Runs
    BY <2>1 DEF DecisionInv, RunsKnown, RunsTyped, IsAsked
  <2>3. k <= round /\ asked[k].from < k
    BY <2>2 DEF AskedFits
  <2>4. k \in Nat /\ round \in Nat /\ asked[k].from \in Nat
    BY <1>0, <2>2
  <2>5. k < round /\ asked[k].from # round
    BY <2>1, <2>3, <2>4
  <2> QED BY <1>2, <2>1, <2>2, <2>5
<1>4. \A k \in Runs : k = 0 \/ metrics[k] # None => k < round /\ args'[k] = args[k] /\ asked'[k] = asked[k]
  <2>1. \A k \in Runs : k # 0 /\ metrics[k] # None => k < round
    BY <1>1 DEF DecisionInv, RunsKnown
  <2>2. \A k \in Runs : k = 0 \/ metrics[k] # None => k < round /\ k # round
    BY <1>0, <2>1
  <2> QED BY <1>2, <2>2
<1>5. RunsTyped' /\ PolicyTyped'
  <2>1. args' \in [Runs -> [Params -> Int] \union {None}]
    BY <1>1 DEF DecisionInv, RunsTyped
  <2>2. asked' = [k \in Runs |-> asked'[k]] /\ \A k \in Runs : asked'[k] = None \/ IsAsked(asked'[k])
    BY <1>1, <1>2 DEF DecisionInv, RunsTyped
  <2> QED BY <1>1, <2>1, <2>2 DEF DecisionInv, RunsTyped, PolicyTyped
<1>6. RunsKnown'
  <2>1. ASSUME NEW k \in Runs \ {0}, asked'[k] # None PROVE AskedFits(k)'
    <3>1. k <= round'
      BY <1>0, <1>1, <1>3, <2>1
    <3> QED BY <1>1, <1>3, <2>1, <3>1 DEF AskedFits, Sanitized
  <2>2. ASSUME NEW k \in Runs \ {0}
        PROVE  /\ asked'[k] # None <=> args'[k] # None
               /\ metrics'[k] # None => asked'[k] # None
               /\ asked'[k] # None => k < round
    BY <1>0, <1>1, <1>2, <1>3, <1>4 DEF DecisionInv, RunsKnown
  <2>3. round' \in 1..MaxRounds /\ round <= round' /\ pc' \in {"perceive", "exhausted", "unaudited"}
    BY <1>0, <1>1
  <2>4. args'[0] # None /\ asked'[0] = None
    BY <1>0, <1>4 DEF DecisionInv, RunsKnown
  <2>5. \A k \in Runs : k < round => k < round'
    BY <1>0, <2>3
  <2> QED BY <1>1, <2>1, <2>2, <2>3, <2>4, <2>5 DEF DecisionInv, RunsKnown, Open, Early, Closed
<1>7. RoundKnown'
  <2>1. base \in Runs /\ base = policy.run /\ base < round /\ args[base] # None
    BY <1>1 DEF DecisionInv, RunsKnown, RoundKnown, Open
  <2>2. args'[base] # None
    BY <1>0, <1>2, <2>1
  <2> QED BY <1>0, <1>1, <2>1, <2>2 DEF RoundKnown, Open, Early
<1>8. TriedKnown'
  <2> SUFFICES ASSUME pc' \in Open, NEW j \in 1..(round' - 1), asked'[j] # None
               PROVE  Sanitized(asked[j]) \in policy.tried /\ asked'[j] = asked[j]
    BY <1>1 DEF TriedKnown, Sanitized
  <2>1. j \in Runs
    BY <1>0, <1>1 DEF Runs, Open, Early
  <2>2. j \in 1..(round - 1) /\ asked'[j] = asked[j]
    BY <1>0, <1>3, <2>1
  <2> QED BY <1>1, <2>2 DEF DecisionInv, TriedKnown, Open
<1>9. OneWay'
  <2> SUFFICES ASSUME pc' \in Open, NEW j \in 0..(round' - 1), j = 0 \/ metrics[j] # None, NEW p \in Params
               PROVE  Direction(args'[j][p], args'[base][p]) \in {"none", policy.last[p]}
    BY <1>1 DEF OneWay
  <2>1. j \in Runs
    BY <1>0, <1>1 DEF Runs, Open, Early
  <2>2. j \in 0..(round - 1) /\ args'[j] = args[j]
    BY <1>0, <1>4, <2>1
  <2>3. args'[base] = args[base]
    BY <1>0, <1>1, <1>2 DEF DecisionInv, RunsKnown, RoundKnown, Open
  <2> QED BY <1>1, <2>2, <2>3 DEF DecisionInv, OneWay, Open
<1>10. BestKnown' /\ SummaryAgrees'
  BY <1>1 DEF DecisionInv, BestKnown, SummaryAgrees, RunsKnown
<1>11. ChangeIsSupported'
  BY <1>1, <1>3 DEF DecisionInv, ChangeIsSupported
<1>12. NothingTrainedTwice'
  <2> SUFFICES ASSUME NEW j \in Runs, NEW k \in Runs, j < k, args'[j] # None, asked'[k] # None,
                      args'[k] = args'[j], j = 0 \/ metrics'[j] # None \/ asked'[j].from = asked'[k].from
               PROVE  \E m \in {j, k} : asked'[m] # None
                        /\ \E p \in DOMAIN asked'[m].changes :
                             Clamp(p, asked'[m].changes[p]) = args'[asked'[m].from][p]
    BY DEF NothingTrainedTwice
  <2>1. j # round /\ asked'[j] = asked[j] /\ args'[j] = args[j]
    BY <1>2
  <2>2. asked'[k] = asked[k] /\ args'[k] = args[k]
    BY <1>3
  <2>3. \E m \in {j, k} : asked[m] # None
          /\ \E p \in DOMAIN asked[m].changes : Clamp(p, asked[m].changes[p]) = args[asked[m].from][p]
    BY <1>1, <2>1, <2>2 DEF DecisionInv, NothingTrainedTwice
  <2> QED BY <1>3, <2>1, <2>2, <2>3
<1> QED BY <1>5, <1>6, <1>7, <1>8, <1>9, <1>10, <1>11, <1>12 DEF DecisionInv

LEMMA TrainingEndsKeeps ==
  ASSUME DecisionInv, TrainingEnds PROVE DecisionInv'
<1>0. MaxRounds \in Nat /\ round \in Nat /\ round \in Runs \ {0} /\ \A k \in Runs : k \in Nat
  BY RulesAgree DEF DecisionInv, RunsKnown, Runs
<1>1. PICK m \in Measured : metrics' = [metrics EXCEPT ![round] = m]
  BY DEF TrainingEnds
<1>2. /\ pc = "train" /\ pc' = "judge"
      /\ UNCHANGED <<round, base, args, report, asked, decision, policy, outcome>>
  BY DEF TrainingEnds
<1>3. \A k \in Runs : k # round => metrics'[k] = metrics[k]
  BY <1>1 DEF DecisionInv, RunsTyped
<1>4. RunsTyped' /\ PolicyTyped'
  BY <1>1, <1>2 DEF DecisionInv, RunsTyped, PolicyTyped
<1>5. RunsKnown'
  <2>1. \A k \in Runs : AskedFits(k) => AskedFits(k)'
    BY <1>2 DEF AskedFits, Sanitized
  <2>2. asked[round] # None
    BY <1>2 DEF DecisionInv, RoundKnown
  <2> QED BY <1>2, <1>3, <2>1, <2>2 DEF DecisionInv, RunsKnown, Open, Early, Closed
<1>6. RoundKnown'
  <2>1. StopBefore(decision)' = StopBefore(decision)
    BY <1>2 DEF StopBefore, Signature, Oscillates, Moved
  <2> QED BY <1>2, <2>1 DEF DecisionInv, RoundKnown, Open, Early
<1>7. TriedKnown'
  BY <1>2 DEF DecisionInv, TriedKnown, Open, Sanitized
<1>8. OneWay'
  <2>1. \A j \in 0..(round - 1) : j \in Runs /\ j # round
    BY <1>0 DEF DecisionInv, RunsKnown, Runs
  <2> QED BY <1>2, <1>3, <2>1 DEF DecisionInv, OneWay, Open
<1>9. BestKnown'
  <2>1. policy.run \in Runs /\ policy.run # round
    BY <1>0, <1>2 DEF DecisionInv, RoundKnown, PolicyTyped, Open
  <2> QED BY <1>2, <1>3, <2>1 DEF DecisionInv, BestKnown
<1>10. ChangeIsSupported' /\ SummaryAgrees'
  BY <1>2 DEF DecisionInv, ChangeIsSupported, SummaryAgrees, RunsKnown
<1>11. NothingTrainedTwice'
  <2>1. \A j, k \in Runs : j < k /\ asked[k] # None => j # round
    BY <1>0 DEF DecisionInv, RunsKnown, AskedFits
  <2> QED BY <1>2, <1>3, <2>1 DEF DecisionInv, NothingTrainedTwice
<1> QED BY <1>4, <1>5, <1>6, <1>7, <1>8, <1>9, <1>10, <1>11 DEF DecisionInv

(* What the policy is after a judgement.                                    *)
LEMMA PolicyFollows ==
  ASSUME DecisionInv, pc = "judge", UNCHANGED metrics,
         policy' = Evaluated(decision, round, Score(metrics[round]))
  PROVE  /\ PolicyTyped' /\ IsChange(decision.changes) /\ ~Oscillates(decision)
         /\ policy'.run \in {policy.run, round}
         /\ policy'.run # 0 => policy'.score # None
         /\ policy'.run = round => metrics[round] # None
         /\ StopAfter(Score(metrics[round])) = None /\ metrics[round] # None => policy'.run = round
         /\ policy'.score = Score(metrics[policy'.run])
         /\ \A k \in Runs : metrics[k] # None =>
              /\ policy'.score # None /\ Score(metrics[k]) <= policy'.score
              /\ k < policy'.run => Score(metrics[k]) < policy'.score
         /\ policy'.tried = policy.tried \union {Sanitized(asked[round])}
         /\ \A p \in Params :
              policy'.last[p] = IF p \in DOMAIN Moved(decision) THEN Moved(decision)[p] ELSE policy.last[p]
<1> DEFINE score == Score(metrics[round])
<1>0. /\ MaxRounds \in Nat /\ round \in Nat /\ round \in Runs \ {0} /\ \A k \in Runs : k \in Nat
      /\ policy.run \in Runs /\ policy.run < round /\ base = policy.run
  BY RulesAgree DEF DecisionInv, RunsKnown, RoundKnown, PolicyTyped, Runs, Open
<1>1. /\ policy'.run = (IF Improves(score) THEN round ELSE policy.run)
      /\ policy'.score = (IF Improves(score) THEN score ELSE policy.score)
      /\ policy'.tried = policy.tried \union {Signature(decision)}
      /\ policy'.last = [p \in Params |-> IF p \in DOMAIN Moved(decision) THEN Moved(decision)[p] ELSE policy.last[p]]
      /\ policy' = [run |-> policy'.run, score |-> policy'.score, tried |-> policy'.tried, last |-> policy'.last]
  BY DEF Evaluated
<1>2. /\ StopBefore(decision) = None /\ asked[round] # None /\ IsAsked(asked[round])
      /\ asked[round] = [from |-> base, changes |-> decision.changes]
  BY <1>0 DEF DecisionInv, RoundKnown, RunsTyped
<1>3. IsChange(decision.changes) /\ ~Oscillates(decision) /\ Signature(decision) = Sanitized(asked[round])
  <2>1. asked[round].changes = decision.changes
    BY <1>2
  <2>2. Sanitized(decision) = Sanitized(asked[round])
    BY <2>1 DEF Sanitized
  <2> QED BY <1>2, <2>1, <2>2, StopReason DEF IsAsked, Signature
<1>4. \A k \in Runs : metrics[k] # None => Score(metrics[k]) \in Int /\ Score(metrics[k]) # None /\ k <= round
  BY ScoreFits, NoneIsApart DEF DecisionInv, RunsTyped, RunsKnown, AskedFits, Runs
<1>5. policy.score \in Int \union {None} /\ (score # None <=> metrics[round] # None)
  BY <1>0, ScoreFits DEF DecisionInv, PolicyTyped, RunsTyped
<1>6. args[base] \in [Params -> Int]
  BY <1>0 DEF DecisionInv, RunsTyped, RoundKnown, Open
<1>7. PolicyTyped'
  <2>1. ASSUME NEW p \in Params PROVE policy'.last[p] \in Directions \union {None}
    <3>1. policy.last[p] \in Directions \union {None}
      BY DEF DecisionInv, PolicyTyped
    <3>2. p \in DOMAIN Moved(decision) => Moved(decision)[p] \in Directions
      <4>1. p \in DOMAIN Moved(decision) =>
              /\ Moved(decision)[p] = Direction(args[base][p], Merged(args[base], Sanitized(decision))[p])
              /\ Merged(args[base], Sanitized(decision))[p] # args[base][p]
              /\ Merged(args[base], Sanitized(decision))[p] \in Int
        BY <1>3, <1>6, MovedFits DEF DecisionInv
      <4> QED BY <1>6, <4>1 DEF Direction, Directions
    <3> QED BY <1>1, <3>1, <3>2
  <2>2. policy'.last \in [Params -> Directions \union {None}]
    BY <1>1, <2>1
  <2>3. policy'.run \in Runs
    BY <1>0, <1>1
  <2>4. policy'.score \in Int \union {None}
    BY <1>0, <1>1, <1>4, <1>5 DEF Improves
  <2> QED BY <1>1, <2>2, <2>3, <2>4 DEF PolicyTyped
<1>8. \A k \in Runs : metrics[k] # None =>
        /\ policy'.score # None /\ Score(metrics[k]) <= policy'.score
        /\ k < policy'.run => Score(metrics[k]) < policy'.score
  <2> SUFFICES ASSUME NEW k \in Runs, metrics[k] # None
               PROVE  /\ policy'.score # None /\ Score(metrics[k]) <= policy'.score
                      /\ k < policy'.run => Score(metrics[k]) < policy'.score
    OBVIOUS
  <2>1. k # round =>
          /\ policy.score # None /\ Score(metrics[k]) <= policy.score
          /\ k < policy.run => Score(metrics[k]) < policy.score
    BY DEF DecisionInv, BestKnown
  <2>2. Score(metrics[k]) \in Int /\ k <= round
    BY <1>4
  <2>3. CASE Improves(score)
    BY <1>0, <1>1, <1>4, <1>5, <2>1, <2>2, <2>3 DEF Improves
  <2>4. CASE ~Improves(score)
    BY <1>0, <1>1, <1>4, <1>5, <2>1, <2>2, <2>4 DEF Improves
  <2> QED BY <2>3, <2>4
<1>9. /\ policy'.score = Score(metrics[policy'.run])
      /\ policy'.run # 0 => policy'.score # None
  BY <1>0, <1>1 DEF DecisionInv, BestKnown, Improves
<1>10. /\ policy'.run \in {policy.run, round}
       /\ policy'.run = round => metrics[round] # None
       /\ StopAfter(score) = None /\ metrics[round] # None => policy'.run = round
  <2>1. "no_improvement" # None
    BY NoneIsApart
  <2> QED BY <1>0, <1>1, <1>5, <2>1 DEF Improves, StopAfter
<1> QED BY <1>1, <1>3, <1>7, <1>8, <1>9, <1>10

LEMMA JudgeStopsKeeps ==
  ASSUME DecisionInv, JudgeStops PROVE DecisionInv'
<1>1. /\ pc = "judge" /\ pc' \in {"stopped", "unaudited"}
      /\ policy' = Evaluated(decision, round, Score(metrics[round]))
      /\ UNCHANGED <<round, base, args, report, metrics, asked, outcome>>
  BY DEF JudgeStops, Persist, runs
<1>2. RunsTyped' /\ PolicyTyped'
  BY <1>1, PolicyFollows DEF DecisionInv, RunsTyped
<1>3. RunsKnown'
  <2>1. \A k \in Runs : AskedFits(k) => AskedFits(k)'
    BY <1>1 DEF AskedFits, Sanitized
  <2> QED BY <1>1, <2>1 DEF DecisionInv, RunsKnown, Open, Early, Closed
<1>4. RoundKnown' /\ TriedKnown' /\ OneWay'
  BY <1>1 DEF RoundKnown, TriedKnown, OneWay, Open, Early
<1>5. BestKnown'
  BY <1>1, PolicyFollows DEF BestKnown
<1>6. ChangeIsSupported' /\ NothingTrainedTwice' /\ SummaryAgrees'
  BY <1>1 DEF DecisionInv, RunsKnown, ChangeIsSupported, NothingTrainedTwice, SummaryAgrees
<1> QED BY <1>2, <1>3, <1>4, <1>5, <1>6 DEF DecisionInv

LEMMA JudgeContinuesKeeps ==
  ASSUME DecisionInv, JudgeContinues PROVE DecisionInv'
<1>0. /\ MaxRounds \in Nat /\ round \in Nat /\ round \in Runs \ {0} /\ \A k \in Runs : k \in Nat
      /\ 0 < round /\ round <= MaxRounds /\ base \in Runs
  BY RulesAgree DEF DecisionInv, RunsKnown, Runs
<1>1. /\ pc = "judge" /\ StopAfter(Score(metrics[round])) = None
      /\ policy' = Evaluated(decision, round, Score(metrics[round]))
      /\ UNCHANGED <<args, report, metrics, asked, outcome>>
      /\ \/ pc' = "perceive" /\ round' = round + 1 /\ round < MaxRounds /\ base' = policy'.run
         \/ pc' = "exhausted" /\ round' = round /\ base' = policy'.run
         \/ pc' = "unaudited" /\ round' = round /\ base' = base
  BY <1>0 DEF JudgeContinues, NextRound, runs
<1>2. /\ base = policy.run /\ base < round /\ args[base] # None
      /\ asked[round] # None /\ args[round] = Merged(args[base], Sanitized(decision))
  <2>1. /\ base = policy.run /\ base < round /\ args[base] # None
        /\ asked[round] # None /\ asked[round] = [from |-> base, changes |-> decision.changes]
    BY <1>1 DEF DecisionInv, RoundKnown, Open
  <2>2. args[round] = Merged(args[base], Sanitized(asked[round]))
    BY <1>0, <2>1 DEF DecisionInv, RunsKnown, AskedFits
  <2>3. Sanitized(asked[round]) = Sanitized(decision)
    BY <2>1 DEF Sanitized
  <2> QED BY <2>1, <2>2, <2>3
<1>3. /\ policy'.run \in {base, round} /\ policy'.run \in Runs
      /\ policy'.run = base => metrics[round] = None
  BY <1>0, <1>1, <1>2, PolicyFollows
<1>4. RunsTyped' /\ PolicyTyped'
  BY <1>1, PolicyFollows DEF DecisionInv, RunsTyped
<1>5. RunsKnown'
  <2>1. round' \in 1..MaxRounds /\ round <= round' /\ base' \in Runs
    BY <1>0, <1>1, <1>3
  <2>2. ASSUME NEW k \in Runs, AskedFits(k) PROVE AskedFits(k)'
    <3>1. k <= round
      BY <2>2 DEF AskedFits
    <3>2. k \in Nat /\ round \in Nat /\ round' \in Nat /\ round <= round'
      BY <1>0, <2>1
    <3>3. k <= round'
      BY <3>1, <3>2
    <3> QED BY <1>1, <2>2, <3>3 DEF AskedFits, Sanitized
  <2>3. ASSUME NEW k \in Runs \ {0}, asked[k] # None, pc' \in Early PROVE k < round'
    BY <1>0, <1>1, <2>3 DEF DecisionInv, RunsKnown, AskedFits, Early
  <2> QED BY <1>1, <2>1, <2>2, <2>3 DEF DecisionInv, RunsKnown, Open, Early, Closed
<1>6. RoundKnown'
  <2>1. args[round] # None
    BY <1>0, <1>2 DEF DecisionInv, RunsKnown
  <2> QED BY <1>0, <1>1, <1>2, <1>3, <2>1 DEF RoundKnown, Open, Early
<1>7. TriedKnown'
  <2> SUFFICES ASSUME pc' \in Open, NEW j \in 1..(round' - 1), asked[j] # None
               PROVE  Sanitized(asked[j]) \in policy'.tried
    BY <1>1 DEF TriedKnown, Sanitized
  <2>1. policy'.tried = policy.tried \union {Sanitized(asked[round])}
    BY <1>1, PolicyFollows
  <2>2. CASE j = round
    BY <2>1, <2>2
  <2>3. CASE j # round
    <3>1. j \in 1..(round - 1)
      BY <1>0, <1>1, <2>3 DEF Open, Early
    <3> QED BY <1>1, <2>1, <3>1 DEF DecisionInv, TriedKnown, Open
  <2> QED BY <2>2, <2>3
<1>8. OneWay'
  <2> SUFFICES ASSUME pc' \in Open, NEW j \in 0..(round' - 1), j = 0 \/ metrics[j] # None, NEW p \in Params
               PROVE  Direction(args[j][p], args[base'][p]) \in {"none", policy'.last[p]}
    BY <1>1 DEF OneWay
  <2>1. round' = round + 1 /\ base' = policy'.run
    BY <1>1 DEF Open, Early
  <2>2. policy'.last[p] = IF p \in DOMAIN Moved(decision) THEN Moved(decision)[p] ELSE policy.last[p]
    BY <1>1, PolicyFollows
  <2>3. IsChange(decision.changes) /\ ~Oscillates(decision) /\ pc \in Open
    BY <1>1, PolicyFollows DEF Open
  <2>4. CASE j # round
    <3>1. j \in 0..(round - 1)
      BY <1>0, <2>1, <2>4
    <3>2. /\ Direction(args[j][p], args[base][p]) \in {"none", policy'.last[p]}
          /\ Direction(args[j][p], args[round][p]) \in {"none", policy'.last[p]}
      BY <1>2, <2>2, <2>3, <3>1, StepFits
    <3> QED BY <1>3, <2>1, <3>2
  <2>5. CASE j = round
    <3>1. base' = round
      BY <1>0, <1>3, <2>1, <2>5
    <3>2. args[round] \in [Params -> Int]
      BY <1>0, <1>2 DEF DecisionInv, RunsTyped, RunsKnown
    <3>3. Direction(args[round][p], args[round][p]) = "none"
      BY <3>2 DEF Direction
    <3> QED BY <2>5, <3>1, <3>3
  <2> QED BY <2>4, <2>5
<1>9. BestKnown'
  BY <1>1, PolicyFollows DEF BestKnown
<1>10. ChangeIsSupported' /\ NothingTrainedTwice' /\ SummaryAgrees'
  BY <1>1 DEF DecisionInv, RunsKnown, ChangeIsSupported, NothingTrainedTwice, SummaryAgrees
<1> QED BY <1>4, <1>5, <1>6, <1>7, <1>8, <1>9, <1>10 DEF DecisionInv

(* Where every run is measured in full, the best of the summary is the best *)
(* of the policy.                                                           *)
LEMMA BestIsThePolicys ==
  ASSUME DecisionInv, pc \in {"stopped", "raised", "exhausted"}, policy.run # 0,
         \A k \in Runs : metrics[k] # None => metrics[k].rest # None
  PROVE  Best = policy.run
<1> DEFINE scored == {k \in 1..round : metrics[k] # None}
           top == {k \in scored : \A j \in scored : SummaryScore(metrics[j]) <= SummaryScore(metrics[k])}
           b == policy.run
<1>0. MaxRounds \in Nat /\ round \in 1..MaxRounds /\ \A k \in Runs : k \in Nat
  BY RulesAgree DEF DecisionInv, RunsKnown, Runs
<1>1. \A k \in scored : k \in Runs /\ k \in Nat
  BY <1>0 DEF Runs
<1>2. b \in Runs \ {0} /\ policy.score = Score(metrics[b]) /\ policy.score # None
  BY DEF DecisionInv, PolicyTyped, BestKnown
<1>3. metrics[b] # None /\ b <= round
  BY <1>2, ScoreFits DEF DecisionInv, RunsTyped, RunsKnown, AskedFits
<1>4. b \in scored
  BY <1>0, <1>2, <1>3
<1>5. \A k \in scored :
        /\ SummaryScore(metrics[k]) \in Int /\ SummaryScore(metrics[k]) <= SummaryScore(metrics[b])
        /\ k < b => SummaryScore(metrics[k]) < SummaryScore(metrics[b])
  <2> SUFFICES ASSUME NEW k \in scored
               PROVE  /\ SummaryScore(metrics[k]) \in Int /\ SummaryScore(metrics[k]) <= SummaryScore(metrics[b])
                      /\ k < b => SummaryScore(metrics[k]) < SummaryScore(metrics[b])
    OBVIOUS
  <2>1. metrics[k] \in Measured /\ metrics[b] \in Measured /\ metrics[k] # None
    BY <1>1, <1>2 DEF DecisionInv, RunsTyped
  <2>2. SummaryScore(metrics[k]) = Score(metrics[k]) /\ SummaryScore(metrics[b]) = Score(metrics[b])
        /\ SummaryScore(metrics[k]) \in Int
    BY <1>1, <1>2, <1>3, <2>1, ScoreFits
  <2> QED BY <1>1, <1>2, <2>1, <2>2 DEF DecisionInv, BestKnown
<1> HIDE DEF scored
<1>6. b \in top /\ \A k \in top : k \in Nat /\ b <= k
  <2>1. b \in top
    BY <1>4, <1>5
  <2>2. ASSUME NEW k \in top PROVE k \in Nat /\ b <= k
    BY <1>1, <1>4, <1>5, <2>1
  <2> QED BY <2>1, <2>2
<1>7. Best = Min(top)
  BY <1>4 DEF Best, BestOf, scored
<1> HIDE DEF top
<1>8. Min(top) = b
  <2>1. \A x \in top : (\A y \in top : x <= y) => x = b
    BY <1>6
  <2> QED BY <1>6, <2>1 DEF Min
<1> QED BY <1>7, <1>8

LEMMA FinishKeeps ==
  ASSUME DecisionInv, FinishStopped \/ FailStopped \/ Exhausted PROVE DecisionInv'
<1>1. /\ pc \in {"stopped", "raised", "exhausted"} /\ pc' = "ended"
      /\ outcome'.baseline = policy.run /\ outcome'.best = Best
      /\ UNCHANGED <<round, base, args, report, metrics, asked, policy>>
  BY DEF FinishStopped, FailStopped, Exhausted, Returned, runs
<1>2. SummaryAgrees'
  <2>1. \A k \in Runs : metrics[k] # None => Score(metrics[k]) <= Score(metrics[policy.run])
    BY <1>1 DEF DecisionInv, BestKnown
  <2>2. policy.run # 0 /\ (\A k \in Runs : metrics[k] # None => metrics[k].rest # None) => Best = policy.run
    BY <1>1, BestIsThePolicys
  <2>3. metrics' = metrics
    BY <1>1
  <2> QED BY <1>1, <2>1, <2>2, <2>3 DEF SummaryAgrees, Score
<1> QED BY <1>1, <1>2, ClosingKeeps DEF Closed

LEMMA RaisingKeeps ==
  ASSUME DecisionInv, FinishRaises \/ ExhaustedRaises PROVE DecisionInv'
<1>1. /\ pc \in {"stopped", "exhausted"} /\ pc' \in {"raised", "ended"}
      /\ outcome' # None => pc' = "ended" /\ outcome'.baseline = None
      /\ UNCHANGED <<round, base, args, report, metrics, asked, policy>>
  BY DEF FinishRaises, ExhaustedRaises, runs, DecisionInv, RunsKnown
<1>2. SummaryAgrees'
  BY <1>1 DEF SummaryAgrees
<1> QED BY <1>1, <1>2, ClosingKeeps DEF Closed

LEMMA DecisionStep == DecisionInv /\ [Next]_vars => DecisionInv'
<1>1. ASSUME DecisionInv, UNCHANGED vars PROVE DecisionInv'
  <2>1. RunsTyped' /\ PolicyTyped' /\ RunsKnown'
    BY <1>1 DEF vars, DecisionInv, RunsTyped, PolicyTyped, RunsKnown, AskedFits, Sanitized
  <2>2. RoundKnown'
    BY <1>1 DEF vars, DecisionInv, RoundKnown, StopBefore, Signature, Oscillates, Moved, Accepted, WellFormed,
                EvidenceKnown, SemanticsValid, Package
  <2>3. TriedKnown' /\ OneWay' /\ BestKnown'
    BY <1>1 DEF vars, DecisionInv, TriedKnown, OneWay, BestKnown, Sanitized
  <2>4. ChangeIsSupported' /\ NothingTrainedTwice' /\ SummaryAgrees'
    BY <1>1 DEF vars, DecisionInv, ChangeIsSupported, NothingTrainedTwice, SummaryAgrees
  <2> QED BY <2>1, <2>2, <2>3, <2>4 DEF DecisionInv
<1> QED
  BY <1>1, PerceiveKeeps, AnsweredKeeps, AbortingKeeps, StopsBeforeKeeps, LaunchTrainingKeeps, TrainingFailsKeeps,
     TrainingEndsKeeps, JudgeStopsKeeps, JudgeContinuesKeeps, FinishKeeps, RaisingKeeps DEF Next

LEMMA DecisionInvariant == Spec => []DecisionInv
BY DecisionStarts, DecisionStep, PTL DEF Spec

(* What a run was trained with differs from its reference run only where    *)
(* its facts ask for it, in the direction and within the limit of a rule    *)
(* (decision_semantics.py, guardrails.py).                                  *)
THEOREM ChangesStaySupported == Spec => []ChangeIsSupported
<1>1. DecisionInv => ChangeIsSupported
  BY DEF DecisionInv
<1> QED BY <1>1, DecisionInvariant, PTL

(* No training is spent on parameters that were measured, or tried from the *)
(* same reference run, unless the guardrails undid a change (round_policy). *)
THEOREM NothingIsTrainedTwice == Spec => []NothingTrainedTwice
<1>1. DecisionInv => NothingTrainedTwice
  BY DEF DecisionInv
<1> QED BY <1>1, DecisionInvariant, PTL

(* The policy ends with the best run it measured, and the summary names the *)
(* same one (evaluate_round, _compute_best).                                *)
THEOREM SummaryStaysRight == Spec => []SummaryAgrees
<1>1. DecisionInv => SummaryAgrees
  BY DEF DecisionInv
<1> QED BY <1>1, DecisionInvariant, PTL
=============================================================================
