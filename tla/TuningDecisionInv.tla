-------------------------- MODULE TuningDecisionInv -------------------------
(* The inductive invariant of TuningDecision: what the audit has told, and *)
(* what is known of the runs, the round and the policy, where a session is. *)
EXTENDS TuningDecision

-----------------------------------------------------------------------------
(* The audit on its own: which of its fields are set where, in memory and   *)
(* in the file.                                                             *)
AuditFields == {"round", "facts", "attempts", "accepted", "launched", "verdict", "failed", "stop", "status"}

IsRecord(m) == m = [f \in AuditFields |-> m[f]]

AuditKnown ==
  /\ IsRecord(mem) /\ IsRecord(disk)
  /\ mem.round = round
  /\ pc \in {"ask", "correct", "refused", "guard", "train", "judge", "stopped"} => disk = mem
  /\ pc \in {"perceive", "ask"} => mem.attempts = 0
  /\ pc = "correct" => mem.attempts = 1 /\ ~mem.accepted
  /\ pc \in {"guard", "train", "judge"} => mem.accepted
  /\ pc \in {"train", "judge"} => mem.launched
  /\ pc \notin {"stopped", "raised", "ended"} => mem.stop = None
  /\ pc \notin {"stopped", "raised", "exhausted", "ended"} => mem.verdict = None
  /\ pc \notin {"exhausted", "ended"} => ~mem.failed
  /\ pc = "stopped" => mem.stop # None
  /\ pc \in {"stopped", "raised"} => mem.verdict = mem.stop /\ disk.stop = mem.stop /\ ~disk.failed
  /\ pc # "ended" => outcome = None

AuditInv == AuditKnown /\ StopHasItsVerdict /\ EndIsTold

-----------------------------------------------------------------------------
(* What a session knows.                                                    *)
IsChange(c) == DOMAIN c \in SUBSET Params /\ c \in [DOMAIN c -> Int]

IsAsked(a) == a = [from |-> a.from, changes |-> a.changes] /\ a.from \in Runs /\ IsChange(a.changes)

Early == {"perceive", "ask", "correct", "refused", "guard"}
Open == Early \union {"train", "judge"}
Closed == {"stopped", "raised", "unaudited", "exhausted", "ended"}

RunsTyped ==
  /\ args \in [Runs -> [Params -> Int] \union {None}]
  /\ report \in [Runs -> Reports \union {None}]
  /\ metrics \in [Runs -> Measured]
  /\ asked = [k \in Runs |-> asked[k]] /\ \A k \in Runs : asked[k] = None \/ IsAsked(asked[k])

PolicyTyped ==
  /\ policy = [run |-> policy.run, score |-> policy.score, tried |-> policy.tried, last |-> policy.last]
  /\ policy.run \in Runs /\ policy.score \in Int \union {None}
  /\ policy.last \in [Params -> Directions \union {None}]

(* A run that was asked for trains with what was asked, from an earlier run *)
(* whose parameters and facts are there.                                    *)
AskedFits(k) ==
  /\ k <= round /\ asked[k].from < k
  /\ args[asked[k].from] # None /\ report[asked[k].from] # None
  /\ args[k] = Merged(args[asked[k].from], Sanitized(asked[k]))

(* What is there of the runs, and where the round is.                       *)
RunsKnown ==
  /\ round \in 1..MaxRounds /\ base \in Runs /\ pc \in Open \union Closed
  /\ args[0] # None /\ asked[0] = None
  /\ \A k \in Runs \ {0} :
       /\ asked[k] # None <=> args[k] # None
       /\ metrics[k] # None => asked[k] # None
       /\ asked[k] # None => AskedFits(k)
       /\ pc \in Early /\ asked[k] # None => k < round
       /\ pc = "train" /\ metrics[k] # None => k < round
  /\ outcome # None => pc = "ended"

RoundKnown ==
  /\ pc \in Open => base = policy.run /\ base < round /\ args[base] # None
  /\ pc \in Open \ {"perceive"} => report[base] # None
  /\ pc = "guard" => \E r \in Responses : Accepted(r) /\ decision = [changes |-> r.changes]
  /\ pc \in {"train", "judge"} =>
       /\ StopBefore(decision) = None
       /\ asked[round] = [from |-> base, changes |-> decision.changes]
       /\ asked[round] # None

(* The policy has every change that was trained to the end.                 *)
TriedKnown ==
  pc \in Open => \A j \in 1..(round - 1) : asked[j] # None => Sanitized(asked[j]) \in policy.tried

(* From the first run, and from every measured one, to the reference run    *)
(* each parameter has moved only in the direction the policy remembers.     *)
OneWay ==
  pc \in Open => \A j \in 0..(round - 1) : j = 0 \/ metrics[j] # None =>
    \A p \in Params : Direction(args[j][p], args[base][p]) \in {"none", policy.last[p]}

(* The best run of the policy is better than those before it, and no worse  *)
(* than those after it, but for one it has not judged.                      *)
BestKnown ==
  /\ policy.score = Score(metrics[policy.run])
  /\ policy.run # 0 => policy.score # None
  /\ \A k \in Runs : metrics[k] # None /\ ~(pc \in {"judge", "ended"} /\ k = round) =>
       /\ policy.score # None /\ Score(metrics[k]) <= policy.score
       /\ k < policy.run => Score(metrics[k]) < policy.score

DecisionInv ==
  /\ RunsTyped /\ PolicyTyped /\ RunsKnown /\ RoundKnown /\ TriedKnown /\ OneWay /\ BestKnown
  /\ ChangeIsSupported /\ NothingTrainedTwice /\ SummaryAgrees
=============================================================================
