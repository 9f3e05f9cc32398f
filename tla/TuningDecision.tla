--------------------------- MODULE TuningDecision ---------------------------
(***************************************************************************)
(* What a session of the automatic tuning loop decides, round by round: the *)
(* facts of the reference run, the response of the model, its validation   *)
(* (decision_contract.py, decision_semantics.py, semantic_rules.py), the   *)
(* guardrails, the round policy, the audit file (audit.py) and the final   *)
(* summary (final_summary.py).  TuningLoop has the processes, the stops    *)
(* and the endings of the same loop; here a training just ends.            *)
(*                                                                         *)
(* Runs are numbered: 0 is the run the session starts from, k the run of   *)
(* round k.  Parameter values are integers in the unit of their bounds.    *)
(***************************************************************************)
EXTENDS Integers, FiniteSets, FiniteSetsExt

CONSTANTS Params,      \* tunable parameters
          Bounds,      \* [Params -> [low, high]]: PARAMETER_REGISTRY
          Suggestible, \* [Params -> values a response may propose]
          References,  \* parameters of runs a session may start from
          Facts,       \* evidence facts of the reports
          Reports,     \* sets of facts a report may have
          Rules,       \* set of [fact, param, dir, limit]: DETECT_SEMANTIC_RULES
          Marks,       \* values of mAP50 (and of mAP50-95 with it)
          MaxRounds, MaxFaults, None

Runs == 0..MaxRounds
Directions == {"up", "down"}

(* Of the rules for one parameter and direction, the code applies the      *)
(* limit of the first that fired: they all have the same one.              *)
ASSUME RulesAgree ==
  /\ MaxRounds \in Nat \ {0} /\ MaxFaults \in Nat
  /\ \A r, s \in Rules : r.param = s.param /\ r.dir = s.dir => r.limit = s.limit

(* The tables: a ratio or a fraction limits a decrease, a multiple or an    *)
(* addition an increase, and every value is a number.                      *)
ASSUME TablesAreTyped ==
  /\ Bounds \in [Params -> [low : Int, high : Int]]
  /\ \A p \in Params : Bounds[p].low <= Bounds[p].high /\ Suggestible[p] \subseteq Int
  /\ References \subseteq [Params -> Int] /\ Marks \subseteq Int
  /\ \A r \in Rules :
       LET limit == r.limit IN
       \/ limit.kind = "ratio" /\ r.dir = "down"
       \/ limit.kind = "fraction" /\ r.dir = "down" /\ limit.by \in Nat \ {0}
       \/ limit.kind = "multiple" /\ r.dir = "up" /\ limit.by \in Nat \ {0} /\ limit.cap \in Int \union {None}
       \/ limit.kind = "add" /\ r.dir = "up" /\ limit.by \in Nat

(* None is none of the values it stands for the absence of.                *)
ASSUME NoneIsApart ==
  /\ None \notin Int /\ None \notin {"up", "down", "none", "keep_params", "repeated_change", "oscillation",
                                 "no_improvement"}
  /\ None \notin Reports /\ None \notin [Params -> Int]
  /\ \A ps \in SUBSET Params : None \notin [from : Nat, changes : [ps -> Int]]

VARIABLES
  pc,       \* where the round is
  round,    \* 1..MaxRounds
  base,     \* the reference run of this round
  args,     \* [Runs -> parameters the run trained with, or None]
  report,   \* [Runs -> facts of its analysis, or None while not asked]
  metrics,  \* [Runs -> [map, rest] or None]: what its training reached
  decision, \* [changes] of this round, or None
  policy,   \* RoundState: [run, score, tried, last]
  asked,    \* [Runs -> [from, changes] of its decision, or None]
  mem, disk, \* the audit record, in memory and in its file
  outcome,  \* what the session returns, or None
  faults

vars == <<pc, round, base, args, report, metrics, decision, policy, asked, mem, disk, outcome, faults>>
runs == <<args, report, metrics, asked>>

----------------------------------------------------------------------------
(* Validation of a response.                                               *)

Direction(old, new) == IF new > old THEN "up" ELSE IF new < old THEN "down" ELSE "none"

(* _check_change_limit; the boundary is allowed. *)
Within(limit, old, new) ==
  CASE limit.kind = "ratio" -> old > 0 /\ 4 * new >= old /\ 5 * new <= 4 * old
    [] limit.kind = "multiple" -> IF old = 0 THEN limit.cap # None /\ new <= limit.cap ELSE new <= limit.by * old
    [] limit.kind = "fraction" -> old > 0 /\ limit.by * new >= old
    [] limit.kind = "add" -> new <= old + limit.by

Supports(f, p, dir) == \E r \in Rules : r.fact = f /\ r.param = p /\ r.dir = dir

Conflicts(f, p, dir) == \E r \in Rules : r.fact = f /\ r.param = p /\ r.dir # dir

LimitOf(p, dir) == (CHOOSE r \in Rules : r.param = p /\ r.dir = dir).limit

(* One changed parameter: it moves, some cited fact supports the move, none *)
(* speaks against it, and it is small enough.                              *)
ParameterValid(p, old, new, cited) ==
  LET dir == Direction(old, new) IN
  /\ dir \in Directions
  /\ \E f \in cited : Supports(f, p, dir)
  /\ ~\E f \in cited : Conflicts(f, p, dir)
  /\ Within(LimitOf(p, dir), old, new)

(* Mutant of Package: frozen once, for the session. *)
PackageOfTheStart == report[0]

(* The facts a response may cite are those of the package, which are those *)
(* of the reference run.                                                   *)
Package == report[base]

(* A response: adjust with one or two changes and evidence for each, or    *)
(* keep_params with none.                                                  *)
Responses ==
  UNION {{[changes |-> c, evidence |-> e] : c \in [ps -> UNION {Suggestible[p] : p \in ps}],
                                            e \in [ps -> SUBSET Facts \ {{}}]} :
         ps \in {s \in SUBSET Params : Cardinality(s) <= 2}}

EvidenceKnown(r) == \A p \in DOMAIN r.changes : r.evidence[p] \subseteq Package

SemanticsValid(r) ==
  \A p \in DOMAIN r.changes : ParameterValid(p, args[base][p], r.changes[p], r.evidence[p])

(* The contract; a value of another parameter stands for all it refuses.   *)
WellFormed(r) == \A p \in DOMAIN r.changes : r.changes[p] \in Suggestible[p]

Accepted(r) == WellFormed(r) /\ EvidenceKnown(r) /\ SemanticsValid(r)

Decisions == {[changes |-> r.changes] : r \in {q \in Responses : Accepted(q)}}

----------------------------------------------------------------------------
(* Guardrails.                                                             *)

(* _normalize_value: what is out of bounds is moved to the bound.          *)
Clamp(p, v) ==
  IF v < Bounds[p].low THEN Bounds[p].low ELSE IF v > Bounds[p].high THEN Bounds[p].high ELSE v

Sanitized(r) == [p \in DOMAIN r.changes |-> Clamp(p, r.changes[p])]

Merged(from, changes) == [p \in Params |-> IF p \in DOMAIN changes THEN changes[p] ELSE from[p]]

----------------------------------------------------------------------------
(* Round policy.                                                           *)

(* Mutant of Signature: the values asked for, not those executed. *)
SignatureOfRequest(r) == r.changes

Signature(r) == Sanitized(r)

Moved(r) ==
  LET new == Merged(args[base], Sanitized(r)) IN
  [p \in {q \in Params : new[q] # args[base][q]} |-> Direction(args[base][p], new[p])]

Oscillates(r) ==
  \E p \in DOMAIN Moved(r) : policy.last[p] # None /\ policy.last[p] # Moved(r)[p]

(* evaluate_decision_before_training *)
StopBefore(r) ==
  CASE DOMAIN r.changes = {} -> "keep_params"
    [] DOMAIN r.changes # {} /\ Signature(r) \in policy.tried -> "repeated_change"
    [] DOMAIN r.changes # {} /\ Signature(r) \notin policy.tried /\ Oscillates(r) -> "oscillation"
    [] OTHER -> None

(* What the analysis of a run may find.                                    *)
Measured == {None} \union [map : Marks, rest : Marks \union {None}]

(* The score of a round, ten-fold.  Without precision and recall it falls  *)
(* back on mAP50 and mAP50-95 alone; without metrics there is none.        *)
Score(m) ==
  IF m = None THEN None ELSE IF m.rest = None THEN 10 * m.map ELSE 6 * m.map + 4 * m.rest

(* final_summary.composite_score: what is missing counts as nothing.       *)
SummaryScore(m) == 6 * m.map + 4 * (IF m.rest = None THEN 0 ELSE m.rest)

(* Mutant of Improves: the first round is not compared with the run the    *)
(* session starts from.                                                    *)
ImprovesAtFirst(score) == score # None /\ (policy.run = 0 \/ score > policy.score)

Improves(score) == score # None /\ (policy.score = None \/ score > policy.score)

(* evaluate_round, with its default of one round without improvement.      *)
Evaluated(r, k, score) ==
  [run |-> IF Improves(score) THEN k ELSE policy.run,
   score |-> IF Improves(score) THEN score ELSE policy.score,
   tried |-> policy.tried \union {Signature(r)},
   last |-> [p \in Params |-> IF p \in DOMAIN Moved(r) THEN Moved(r)[p] ELSE policy.last[p]]]

StopAfter(score) == IF score # None /\ ~Improves(score) THEN "no_improvement" ELSE None

----------------------------------------------------------------------------
(* The audit.  A record of the round and the session's stop reason.        *)

NewRecord == [round |-> 0, facts |-> FALSE, attempts |-> 0, accepted |-> FALSE,
              launched |-> FALSE, verdict |-> None, failed |-> FALSE,
              stop |-> None, status |-> "running"]

Fault == faults < MaxFaults /\ faults' = faults + 1

(* Mutant of Persist: a failed write is only logged. *)
PersistGoesOn(rec, next) ==
  \/ mem' = rec /\ disk' = rec /\ pc' = next /\ UNCHANGED <<faults, outcome>>
  \/ Fault /\ pc' = next /\ UNCHANGED <<mem, disk, outcome>>

(* update_iteration, record_round_verdict: the file is replaced, or memory *)
(* is put back and the session is aborted.                                 *)
Persist(rec, next) ==
  \/ mem' = rec /\ disk' = rec /\ pc' = next /\ UNCHANGED <<faults, outcome>>
  \/ Fault /\ pc' = "unaudited" /\ UNCHANGED <<mem, disk, outcome>>

(* _compute_best and the summary: the first of the best of these rounds.   *)
BestOf(rounds) ==
  LET scored == {k \in rounds : metrics[k] # None} IN
  IF scored = {} THEN None
  ELSE Min({k \in scored : \A j \in scored : SummaryScore(metrics[j]) <= SummaryScore(metrics[k])})

Best == BestOf(1..round)

(* A session that is aborted: its summary is of the rounds before.         *)
Failure == [status |-> "failed", stop |-> None, baseline |-> None, best |-> BestOf(1..(round - 1))]

(* fail_iteration after a failed write, except for the write before a      *)
(* launch, and _abort_tuning: the record may reach the file with the       *)
(* summary of the earlier rounds, the end of the session does not.         *)
Unaudited ==
  /\ pc = "unaudited"
  /\ mem' = [mem EXCEPT !.failed = args[round] = None \/ mem.launched]
  /\ \/ disk' = mem' /\ UNCHANGED faults
     \/ Fault /\ UNCHANGED disk
  /\ outcome' = Failure
  /\ pc' = "ended"
  /\ UNCHANGED <<round, base, runs, decision, policy>>

(* _abort_tuning with another failure, which is recorded first. *)
Abort ==
  /\ mem' = [mem EXCEPT !.failed = TRUE, !.status = "failed"]
  /\ disk' = mem'
  /\ outcome' = Failure
  /\ pc' = "ended"

----------------------------------------------------------------------------
(* A round.                                                                *)

(* The newest valid report that names the run: the one of its analysis.    *)
Analyzed(run) ==
  \E facts \in Reports : report' = [report EXCEPT ![run] = IF @ = None THEN facts ELSE @]

(* Perception and fact package.                                            *)
Perceive ==
  /\ pc = "perceive" /\ Analyzed(base)
  /\ Persist([mem EXCEPT !.facts = TRUE], "ask")
  /\ UNCHANGED <<round, base, args, metrics, asked, decision, policy>>

(* A report or the facts are missing or invalid.                           *)
PerceptionFails ==
  /\ pc = "perceive" /\ Fault /\ Abort
  /\ UNCHANGED <<round, base, runs, decision, policy>>

(* A response is validated, and its result persisted before anything       *)
(* follows from it.                                                        *)
Answered(refused) ==
  /\ \/ \E d \in Decisions :
          decision' = d /\ Persist([mem EXCEPT !.attempts = @ + 1, !.accepted = TRUE], "guard")
     \/ /\ {r \in Responses : ~Accepted(r)} # {} /\ decision' = None
        /\ Persist([mem EXCEPT !.attempts = @ + 1, !.accepted = FALSE], refused)
  /\ UNCHANGED <<round, base, runs, policy>>

Respond == pc = "ask" /\ Answered("correct")

(* One correction.                                                         *)
Correct == pc = "correct" /\ Answered("refused")

(* The provider fails, or the correction is refused too.                   *)
NoDecision ==
  /\ \/ pc = "refused" /\ UNCHANGED faults
     \/ pc \in {"ask", "correct"} /\ Fault
  /\ Abort
  /\ UNCHANGED <<round, base, runs, decision, policy>>

----------------------------------------------------------------------------
(* The end of a session.                                                   *)

(* What a session returns that got as far as naming its baseline.          *)
Returned(status, stop) == [status |-> status, stop |-> stop, baseline |-> policy.run, best |-> Best]

(* The summary is written next to the best run, then the audit is closed    *)
(* and the history written.                                                *)
FinishStopped ==
  /\ pc = "stopped"
  /\ mem' = [mem EXCEPT !.status = "completed"] /\ disk' = mem'
  /\ outcome' = Returned("completed", mem.stop)
  /\ pc' = "ended"
  /\ UNCHANGED <<round, base, runs, decision, policy, faults>>

(* audit.finalize or the write of the history raises: the session is over   *)
(* in memory, and in the file if it was the history.                       *)
FinishRaises ==
  /\ pc = "stopped" /\ Fault
  /\ mem' = [mem EXCEPT !.status = "completed"] /\ disk' \in {disk, mem'}
  /\ pc' = "raised"
  /\ UNCHANGED <<round, base, runs, decision, policy, outcome>>

(* The handler of the loop: fail_iteration, and _abort_tuning, which writes *)
(* a summary again and, if the failure of the round was written, closes the *)
(* audit as failed.  If it was not, the summary may still take it along.    *)
FailStopped ==
  /\ pc = "raised"
  /\ LET failed == [mem EXCEPT !.failed = TRUE] IN
     \/ mem' = [failed EXCEPT !.status = "failed"] /\ disk' = mem' /\ UNCHANGED faults
     \/ mem' = [failed EXCEPT !.status = "failed"] /\ disk' = failed /\ Fault
     \/ mem' = failed /\ disk' \in {disk, failed} /\ Fault
  /\ outcome' = Returned("failed", mem.stop)
  /\ pc' = "ended"
  /\ UNCHANGED <<round, base, runs, decision, policy>>

(* The audit of a session that has used up its rounds.                     *)
Spent ==
  IF Best # None THEN [mem EXCEPT !.status = "completed", !.stop = "budget_exhausted"]
  ELSE [mem EXCEPT !.status = "failed"]

Exhausted ==
  /\ pc = "exhausted"
  /\ mem' = Spent /\ disk' = mem'
  /\ outcome' = Returned(mem'.status, mem'.stop)
  /\ pc' = "ended"
  /\ UNCHANGED <<round, base, runs, decision, policy, faults>>

(* After the rounds no handler is left: the call raises.                   *)
ExhaustedRaises ==
  /\ pc = "exhausted" /\ Fault
  /\ mem' = Spent /\ disk' \in {disk, mem'}
  /\ outcome' = [status |-> "raised", stop |-> None, baseline |-> None, best |-> None]
  /\ pc' = "ended"
  /\ UNCHANGED <<round, base, runs, decision, policy>>

(* A pointless decision ends the session without a training.               *)
StopsBeforeTraining ==
  /\ pc = "guard" /\ StopBefore(decision) # None
  /\ Persist([mem EXCEPT !.verdict = StopBefore(decision), !.stop = StopBefore(decision)], "stopped")
  /\ UNCHANGED <<round, base, runs, decision, policy>>

----------------------------------------------------------------------------
(* The training.                                                           *)

NextRound(ref, rec) ==
  /\ base' = ref /\ decision' = None /\ disk' = rec
  /\ IF round < MaxRounds
     THEN /\ round' = round + 1 /\ pc' = "perceive"
          /\ mem' = [NewRecord EXCEPT !.round = round + 1]
     ELSE round' = round /\ pc' = "exhausted" /\ mem' = rec

LaunchTraining ==
  /\ pc = "guard" /\ StopBefore(decision) = None
  /\ args' = [args EXCEPT ![round] = Merged(args[base], Sanitized(decision))]
  /\ asked' = [asked EXCEPT ![round] = [from |-> base, changes |-> decision.changes]]
  /\ Persist([mem EXCEPT !.launched = TRUE], "train")
  /\ UNCHANGED <<round, base, report, metrics, decision, policy>>

(* The guardrails' record, the preflight, the command or the launch fails. *)
LaunchFails ==
  /\ pc = "guard" /\ Fault /\ Abort
  /\ UNCHANGED <<round, base, runs, decision, policy>>

(* The training fails, or the probe gives it up: the next round has the    *)
(* same reference and knows nothing of this change.                        *)
TrainingFails ==
  /\ pc = "train"
  /\ asked' = [asked EXCEPT ![round] = None] /\ args' = [args EXCEPT ![round] = None]
  /\ \/ /\ NextRound(base, [mem EXCEPT !.failed = TRUE])
        /\ UNCHANGED <<faults, outcome>>
     \/ /\ Fault /\ pc' = "unaudited"
        /\ UNCHANGED <<round, base, decision, mem, disk, outcome>>
  /\ UNCHANGED <<report, metrics, policy>>

(* It ends, with the metrics its analysis finds, or with none.             *)
TrainingEnds ==
  /\ pc = "train"
  /\ \E m \in Measured : metrics' = [metrics EXCEPT ![round] = m]
  /\ pc' = "judge"
  /\ UNCHANGED <<round, base, args, report, asked, decision, policy, mem, disk, outcome, faults>>

(* The result cannot be written: the handler of the loop.                  *)
ResultFails ==
  /\ pc = "judge" /\ Fault /\ Abort
  /\ UNCHANGED <<round, base, runs, decision, policy>>

(* The verdict and the stop reason reach the file together.                *)
JudgeStops ==
  LET stop == StopAfter(Score(metrics[round])) IN
  /\ pc = "judge" /\ stop # None
  /\ policy' = Evaluated(decision, round, Score(metrics[round]))
  /\ Persist([mem EXCEPT !.verdict = stop, !.stop = stop], "stopped")
  /\ UNCHANGED <<round, base, runs, decision>>

JudgeContinues ==
  /\ pc = "judge" /\ StopAfter(Score(metrics[round])) = None
  /\ policy' = Evaluated(decision, round, Score(metrics[round]))
  /\ \/ /\ NextRound(policy'.run, [mem EXCEPT !.verdict = "continue"])
        /\ UNCHANGED <<faults, outcome>>
     \/ /\ Fault /\ pc' = "unaudited"
        /\ UNCHANGED <<round, base, decision, mem, disk, outcome>>
  /\ UNCHANGED runs

Init ==
  /\ pc = "perceive" /\ round = 1 /\ base = 0 /\ decision = None
  /\ \E p \in References : args = [k \in Runs |-> IF k = 0 THEN p ELSE None]
  /\ \E m \in Measured :
       /\ metrics = [k \in Runs |-> IF k = 0 THEN m ELSE None]
       /\ policy = [run |-> 0, score |-> Score(m), tried |-> {}, last |-> [p \in Params |-> None]]
  /\ report = [k \in Runs |-> None] /\ asked = [k \in Runs |-> None]
  /\ mem = [NewRecord EXCEPT !.round = 1] /\ disk = NewRecord
  /\ outcome = None /\ faults = 0

Next ==
  \/ Perceive \/ PerceptionFails \/ Respond \/ Correct \/ NoDecision \/ Unaudited
  \/ StopsBeforeTraining \/ LaunchTraining \/ LaunchFails
  \/ TrainingFails \/ TrainingEnds \/ ResultFails \/ JudgeStops \/ JudgeContinues
  \/ FinishStopped \/ FinishRaises \/ FailStopped \/ Exhausted \/ ExhaustedRaises

Spec == Init /\ [][Next]_vars

----------------------------------------------------------------------------
(* As Within, without the smallest step a ratio asks for: a value that the *)
(* guardrails moved lies between the old one and the one suggested.        *)
NoFurther(limit, old, new) ==
  IF limit.kind = "ratio" THEN 4 * new >= old ELSE Within(limit, old, new)

InBounds(p, v) == v = Clamp(p, v)

(* What a run was trained with differs from its reference run only where   *)
(* the analysis of that run has a fact that asks for it, in the direction  *)
(* and within the limit of the rule: neither the correction of a refused   *)
(* response nor the guardrails nor a change of the reference run in        *)
(* between get around the validation.                                      *)
ChangeIsSupported ==
  \A k \in Runs : asked[k] # None =>
    LET old == args[asked[k].from] IN
    \A p \in Params : args[k][p] # old[p] /\ InBounds(p, old[p]) =>
      \E f \in report[asked[k].from] :
        LET dir == Direction(old[p], args[k][p]) IN
        Supports(f, p, dir) /\ NoFurther(LimitOf(p, dir), old[p], args[k][p])

(* A session never spends a training on parameters it has measured, on     *)
(* those it started from, or on those it tried from the same reference     *)
(* run, unless the guardrails moved a change that was asked for back to    *)
(* what was there.                                                         *)
NothingTrainedTwice ==
  \A j, k \in Runs :
    /\ j < k /\ args[j] # None /\ asked[k] # None /\ args[k] = args[j]
    /\ j = 0 \/ metrics[j] # None \/ asked[j].from = asked[k].from
    => \E m \in {j, k} : asked[m] # None
         /\ \E p \in DOMAIN asked[m].changes :
              Clamp(p, asked[m].changes[p]) = args[asked[m].from][p]

(* What follows from a step of the decision follows only once the file     *)
(* tells it: a correction is asked for after the refusal is written, the   *)
(* decision is used and the training runs after they are.                  *)
AuditLeads ==
  /\ pc = "correct" => disk.attempts = 1 /\ ~disk.accepted
  /\ pc = "guard" => disk.accepted
  /\ pc \in {"train", "judge"} => disk.round = round /\ disk.accepted /\ disk.launched
  /\ pc = "stopped" => disk.stop # None

(* The file never has a stop reason without the verdict it comes from, not *)
(* after a failed write of the verdict followed by a good write either, and *)
(* the round it stopped after is a failed one there only if the session     *)
(* could not be closed.                                                    *)
StopHasItsVerdict ==
  disk.stop \notin {None, "budget_exhausted"} =>
    /\ disk.verdict = disk.stop
    /\ disk.failed => pc = "ended" /\ outcome.status = "failed"

(* A session that returns as completed is closed as that in the file, with  *)
(* the same stop reason.                                                   *)
EndIsTold ==
  outcome # None /\ outcome.status = "completed" => disk.status = "completed" /\ disk.stop = outcome.stop

(* The run the policy ends with is none worse than any it measured, and    *)
(* the summary, which scores the rounds on its own, names the same one     *)
(* where all metrics are there and the policy did not keep the reference.  *)
SummaryAgrees ==
  outcome # None /\ outcome.baseline # None =>
    LET b == outcome.baseline
        measured == {k \in Runs : metrics[k] # None} IN
    /\ \A k \in measured : metrics[b] # None => Score(metrics[k]) <= Score(metrics[b])
    /\ b # 0 /\ (\A k \in measured : metrics[k].rest # None) => outcome.best = b

(* The file is never behind what was done, nor inconsistent in itself.     *)
AuditIsTrue == AuditLeads /\ StopHasItsVerdict /\ EndIsTold
=============================================================================
