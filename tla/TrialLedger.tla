----------------------------- MODULE TrialLedger -----------------------------
(***************************************************************************)
(* What the HPO executor promises of a study, whatever crashes: trials are *)
(* claimed one by one within the budget, a trial is trained at most once,  *)
(* one training runs at a time, and a claimed trial is settled exactly     *)
(* once, when nothing of it runs any more.  HpoExecution implements it.    *)
(***************************************************************************)
EXTENDS Naturals

CONSTANTS Budget, Outcomes, Open

VARIABLES
  claimed,  \* how many trials of the budget are claimed
  started,  \* the trials a process was created for
  training, \* the trials whose process runs
  outcome   \* what a trial was settled with, Open until then

vars == <<claimed, started, training, outcome>>

Init ==
  /\ claimed = 0
  /\ started = {}
  /\ training = {}
  /\ outcome = [n \in 1..Budget |-> Open]

Unsettled(n) == n \in 1..claimed /\ outcome[n] = Open

Claim ==
  /\ claimed < Budget
  /\ \A n \in 1..claimed : ~Unsettled(n)
  /\ claimed' = claimed + 1
  /\ UNCHANGED <<started, training, outcome>>

Start(n) ==
  /\ Unsettled(n)
  /\ n \notin started
  /\ training = {}
  /\ started' = started \cup {n}
  /\ training' = {n}
  /\ UNCHANGED <<claimed, outcome>>

End(n) ==
  /\ n \in training
  /\ training' = training \ {n}
  /\ UNCHANGED <<claimed, started, outcome>>

Settle(n) ==
  /\ Unsettled(n)
  /\ n \notin training
  /\ \E o \in Outcomes : outcome' = [outcome EXCEPT ![n] = o]
  /\ UNCHANGED <<claimed, started, training>>

Next ==
  \/ Claim
  \/ \E n \in 1..Budget : Start(n) \/ End(n) \/ Settle(n)

Spec == Init /\ [][Next]_vars
=============================================================================
