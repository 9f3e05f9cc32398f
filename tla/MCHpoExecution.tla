--------------------------- MODULE MCHpoExecution ---------------------------
(* Two callers and three trials, the last of them one the guardrails       *)
(* reject.                                                                 *)
EXTENDS HpoExecutionInv

CONSTANTS r1, r2

TwoRunners == {r1, r2}
LastUnsafe == {Budget}
=============================================================================
