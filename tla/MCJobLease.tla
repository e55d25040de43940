----------------------------- MODULE MCJobLease -----------------------------
(* JobLease on small instances, with the mutants its runs are tested by.    *)
EXTENDS JobLease, TLC

WorkerSymmetry == Permutations(Worker)
=============================================================================
