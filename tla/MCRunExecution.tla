--------------------------- MODULE MCRunExecution ---------------------------
(* RunExecution on small instances.                                         *)
EXTENDS RunClaims, TLC

\* (Bound) A recovery that has yet to read the run, its events or its jobs meets
\* executions, not other requests; once it has read them it meets both.
ReadsAlone ==
  \A v, w \in Worker :
    v # w /\ request[v].pc \in {"recover", "events", "newest"} => request[w].pc = "idle"

WorkerSymmetry == Permutations(Worker)
=============================================================================
