---------------------------- MODULE JobOwnership ----------------------------
(***************************************************************************)
(* What a leased background job promises to the code that runs under it,   *)
(* with no clock, no heartbeat and no optimistic update: a job has one     *)
(* owner, only the owner's writes reach its payload, ownership changes     *)
(* only by a claim, and a settled job never changes again.  JobLease is    *)
(* the protocol of packages/db/src/operational-repository.ts that has to   *)
(* implement it; RunExecution relies on it.                                *)
(***************************************************************************)
EXTENDS Naturals

CONSTANTS Worker, None

VARIABLES
  status,    \* of the background_jobs row; "settled" is completed or failed
  owner,     \* workerId of the row's workerLease
  progress,  \* number of checkpoints in the row's payload
  writer     \* the worker whose update reached the payload last

vars == <<status, owner, progress, writer>>

Init ==
  /\ status = "queued"
  /\ owner = None
  /\ progress = 0
  /\ writer = None

Claim(w) ==
  /\ status \in {"queued", "running"}
  /\ status' = "running"
  /\ owner' = w
  /\ UNCHANGED <<progress, writer>>

Checkpoint(w) ==
  /\ status = "running"
  /\ owner = w
  /\ progress' = progress + 1
  /\ writer' = w
  /\ UNCHANGED <<status, owner>>

Release(w) ==
  /\ status = "running"
  /\ owner = w
  /\ status' \in {"queued", "settled"}
  /\ writer' = w
  /\ UNCHANGED <<owner, progress>>

Next == \E w \in Worker : Claim(w) \/ Checkpoint(w) \/ Release(w)

Spec == Init /\ [][Next]_vars
=============================================================================
