----------------------------- MODULE CommandOnce -----------------------------
(***************************************************************************)
(* What an idempotency key promises the callers of a command: the command  *)
(* may be executed more than once, but the key gets one outcome, which is  *)
(* an execution that took place or a failure, and a caller that is told of *)
(* an execution is told of that one.                                       *)
(***************************************************************************)
CONSTANT Execution

VARIABLES
  executed,  \* the executions of the command
  open,      \* the key has no outcome yet
  outcome,   \* the execution that is the outcome: none while open or failed
  answered   \* the executions callers were told of

vars == <<executed, open, outcome, answered>>

Init ==
  /\ executed = {}
  /\ open = TRUE
  /\ outcome = {}
  /\ answered = {}

Execute ==
  /\ \E e \in Execution \ executed : executed' = executed \cup {e}
  /\ UNCHANGED <<open, outcome, answered>>

\* The caller whose execution becomes the outcome need not hear of it.
Settle ==
  /\ open
  /\ open' = FALSE
  /\ outcome' \in {{}} \cup {{e} : e \in executed}
  /\ answered' \in {answered, answered \cup outcome'}
  /\ UNCHANGED executed

Answer ==
  /\ answered' = answered \cup outcome
  /\ UNCHANGED <<executed, open, outcome>>

Next == Execute \/ Settle \/ Answer

Spec == Init /\ [][Next]_vars
=============================================================================
