----------------------------- MODULE StudyCourse -----------------------------
(***************************************************************************)
(* The course of one study as its two files tell it, whoever writes them:  *)
(* the status of execution.json and the states of the trials of            *)
(* study.json.  HpoExecution writes them one file at a time between        *)
(* crashes, StudyControl moves them under the routes of the page; both     *)
(* implement it, so neither takes a study where the other's rules forbid.  *)
(***************************************************************************)
EXTENDS Naturals

CONSTANT Budget

VARIABLES
  status,  \* of the execution, "ABSENT" before it is prepared
  states   \* of the trials; an interrupted trial is a failed one

courseVars == <<status, states>>

Outcomes == {"SUCCESS", "FAILED", "CANCELLED"}

Init ==
  /\ status = "ABSENT"
  /\ states = [n \in 1..Budget |-> "UNCLAIMED"]

IsOpen(n) == states[n] = "PENDING"
IsClaimed(n) == states[n] # "UNCLAIMED"

(* A study is bound once, before any of its trials has a result.           *)
Prepare ==
  /\ status = "ABSENT"
  /\ \A n \in 1..Budget : states[n] \notin Outcomes
  /\ status' = "READY"
  /\ UNCHANGED states

(* A session opens from any status but the last; nothing is taken back.    *)
Open ==
  /\ status \notin {"ABSENT", "COMPLETED"}
  /\ status' = "RUNNING"
  /\ UNCHANGED states

(* The next trial, when none is open.                                      *)
Claim(n) ==
  /\ status = "RUNNING"
  /\ \A m \in 1..Budget : ~IsOpen(m) /\ (IsClaimed(m) <=> m < n)
  /\ states' = [states EXCEPT ![n] = "PENDING"]
  /\ UNCHANGED status

Settle(n) ==
  /\ status = "RUNNING"
  /\ IsOpen(n)
  /\ \E o \in Outcomes : states' = [states EXCEPT ![n] = o]
  /\ UNCHANGED status

(* What cannot be decided is about a trial that is open.                   *)
Block ==
  /\ status = "RUNNING"
  /\ \E n \in 1..Budget : IsOpen(n)
  /\ status' = "BLOCKED"
  /\ UNCHANGED states

Pause ==
  /\ status = "RUNNING"
  /\ status' = "PAUSED"
  /\ UNCHANGED states

Complete ==
  /\ status = "RUNNING"
  /\ \A n \in 1..Budget : IsClaimed(n) /\ ~IsOpen(n)
  /\ status' = "COMPLETED"
  /\ UNCHANGED states

Next ==
  \/ Prepare \/ Open \/ Block \/ Pause \/ Complete
  \/ \E n \in 1..Budget : Claim(n) \/ Settle(n)

Spec == Init /\ [][Next]_courseVars
=============================================================================
