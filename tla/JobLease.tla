------------------------------ MODULE JobLease ------------------------------
(***************************************************************************)
(* The lease on one row of background_jobs: claimBackgroundJob,            *)
(* renewBackgroundJobLease and updateBackgroundJobWithLease of             *)
(* packages/db/src/operational-repository.ts, run by the workers of        *)
(* RunExecutionStateService and the heartbeat of RunStreamingExecution-    *)
(* Service.  A claim is one transaction; a renewal and an update are a     *)
(* SELECT and a later UPDATE guarded by the updatedAt that was read.       *)
(*                                                                         *)
(* Time is relative.  "idle" is now - updatedAt and "ttl" is expiresAt -   *)
(* now, in ticks, cut off where the code stops telling values apart, so    *)
(* time is unbounded and the state space finite.  Two writes of the row    *)
(* are taken to carry different updatedAt (a millisecond timestamp): the   *)
(* guarded UPDATE succeeds iff no write came between, which "fresh" says.  *)
(***************************************************************************)
EXTENDS Naturals

CONSTANTS
  Worker,       \* workerId of each server process
  None,
  LeaseTicks,   \* leaseSeconds
  MaxProgress   \* bound on the checkpoints of one job

ASSUME LeaseTicksAssumption == LeaseTicks \in Nat \ {0}
ASSUME MaxProgressAssumption == MaxProgress \in Nat
ASSUME NoneAssumption == None \notin Worker

VARIABLES
  status, owner, progress, writer,  \* the row, as in JobOwnership
  idle,      \* ticks since updatedAt, at most LeaseTicks
  ttl,       \* ticks until workerLease.expiresAt, 0 once it has passed
  main,      \* the worker's execution: its updateBackgroundJobWithLease calls
  beat,      \* its heartbeat: its renewBackgroundJobLease calls
  outcome    \* what the worker's last leased call returned

row == <<status, owner, progress, writer, idle, ttl>>
vars == <<row, main, beat, outcome>>

Age == 0 .. LeaseTicks
Goal == {"checkpoint", "finish", "requeue"}
NoMain == [pc |-> "idle", goal |-> "checkpoint", stamp |-> 0,
           fresh |-> FALSE, aborted |-> FALSE]
NoBeat == [pc |-> "idle", now |-> 0, fresh |-> FALSE, orphan |-> FALSE]

MainFlow == [pc : {"idle", "working", "stamped", "selected"}, goal : Goal,
             stamp : Age, fresh : BOOLEAN, aborted : BOOLEAN]
BeatFlow == [pc : {"idle", "selected"}, now : Age, fresh : BOOLEAN,
             orphan : BOOLEAN]

\* Types of the row and of the two flows of a worker.
TypeOK ==
  /\ status \in {"queued", "running", "settled"}
  /\ owner \in Worker \cup {None}
  /\ progress \in 0 .. MaxProgress
  /\ writer \in Worker \cup {None}
  /\ idle \in Age
  /\ ttl \in Age
  /\ main \in [Worker -> MainFlow]
  /\ beat \in [Worker -> BeatFlow]
  /\ outcome \in [Worker -> {"none", "committed", "lost"}]

Init ==
  /\ status = "queued"
  /\ owner = None
  /\ progress = 0
  /\ writer = None
  /\ idle = 0
  /\ ttl = 0
  /\ main = [w \in Worker |-> NoMain]
  /\ beat = [w \in Worker |-> NoBeat]
  /\ outcome = [w \in Worker |-> "none"]

-----------------------------------------------------------------------------
\* The checks both leased calls make on the row they have read.
Holds(w) == status = "running" /\ owner = w /\ ttl > 0

\* (Mutant) The guarded UPDATE loses its comparison of updatedAt.
Outdated_NotCompared(flows) == flows

\* A write of the row outdates every copy of it that was read before.
Outdated(flows) == [w \in Worker |-> [flows[w] EXCEPT !.fresh = FALSE]]

\* The execution of w is over (clearInterval): a heartbeat in flight still ends.
Stopped(flows, w) ==
  [flows EXCEPT ![w] = IF @.pc = "selected" THEN [@ EXCEPT !.orphan = TRUE] ELSE @]

\* (Mutant) Only queued jobs are claimed, stale running ones are forgotten.
Claimable_QueuedOnly == status = "queued"

\* claimableBackgroundJobWhere.
Claimable == status = "queued" \/ (status = "running" /\ idle = LeaseTicks)

\* claimBackgroundJob: SELECT ... FOR UPDATE SKIP LOCKED and UPDATE in one
\* transaction.
Claim(w) ==
  /\ main[w].pc = "idle"
  /\ Claimable
  /\ status' = "running"
  /\ owner' = w
  /\ idle' = 0
  /\ ttl' = LeaseTicks
  /\ main' = [Outdated(main) EXCEPT ![w] = [NoMain EXCEPT !.pc = "working"]]
  /\ beat' = Outdated(beat)
  /\ outcome' = [outcome EXCEPT ![w] = "none"]
  /\ UNCHANGED <<progress, writer>>

\* The caller of updateBackgroundJobWithLease builds the record to write, with
\* updatedAt: new Date(), before the call reads the row.  Once its provider
\* stream was aborted the execution only finishes.
BeginUpdate(w, goal) ==
  /\ main[w].pc = "working"
  /\ main[w].aborted => goal = "finish"
  /\ goal = "checkpoint" => progress < MaxProgress
  /\ main' = [main EXCEPT ![w] =
                [@ EXCEPT !.pc = "stamped", !.goal = goal, !.stamp = 0]]
  /\ UNCHANGED <<row, beat, outcome>>

\* updateBackgroundJobWithLease returned undefined: a checkpoint and a pause
\* throw, a finish returns; each ends the execution.
Lose(w) ==
  /\ main' = [main EXCEPT ![w] = NoMain]
  /\ beat' = Stopped(beat, w)
  /\ outcome' = [outcome EXCEPT ![w] = "lost"]
  /\ UNCHANGED row

UpdateSelect(w) ==
  /\ main[w].pc = "stamped"
  /\ IF Holds(w)
     THEN /\ main' = [main EXCEPT ![w].pc = "selected", ![w].fresh = TRUE]
          /\ UNCHANGED <<row, beat, outcome>>
     ELSE Lose(w)

CommitUpdate(w) ==
  /\ idle' = main[w].stamp
  /\ writer' = w
  /\ outcome' = [outcome EXCEPT ![w] = "committed"]
  /\ \/ /\ main[w].goal = "checkpoint"
        /\ progress' = progress + 1
        /\ main' = [Outdated(main) EXCEPT ![w].pc = "working", ![w].stamp = 0]
        /\ beat' = Outdated(beat)
        /\ UNCHANGED status
     \/ /\ main[w].goal # "checkpoint"
        /\ status' = IF main[w].goal = "finish" THEN "settled" ELSE "queued"
        /\ main' = [Outdated(main) EXCEPT ![w] = NoMain]
        /\ beat' = Outdated(Stopped(beat, w))
        /\ UNCHANGED progress
  /\ UNCHANGED <<owner, ttl>>

\* (Mutant) The UPDATE trusts the check made when the row was read.
UpdateWrite_Unguarded(w) == main[w].pc = "selected" /\ CommitUpdate(w)

UpdateWrite(w) ==
  /\ main[w].pc = "selected"
  /\ IF main[w].fresh THEN CommitUpdate(w) ELSE Lose(w)

\* One turn of the heartbeat.  renewBackgroundJobLease returning undefined
\* aborts the provider stream of the execution that started the heartbeat.
Abort(w) == main' = [main EXCEPT ![w].aborted = @ \/ ~beat[w].orphan]

RenewSelect(w) ==
  /\ main[w].pc # "idle"
  /\ beat[w].pc = "idle"
  /\ IF Holds(w)
     THEN /\ beat' = [beat EXCEPT ![w] = [NoBeat EXCEPT !.pc = "selected",
                                                        !.fresh = TRUE]]
          /\ UNCHANGED main
     ELSE Abort(w) /\ UNCHANGED beat
  /\ UNCHANGED <<row, outcome>>

RenewWrite(w) ==
  /\ beat[w].pc = "selected"
  /\ IF beat[w].fresh
     THEN /\ idle' = beat[w].now
          /\ ttl' = LeaseTicks - beat[w].now
          /\ main' = Outdated(main)
          /\ beat' = [Outdated(beat) EXCEPT ![w] = NoBeat]
     ELSE /\ Abort(w)
          /\ beat' = [beat EXCEPT ![w] = NoBeat]
          /\ UNCHANGED <<idle, ttl>>
  /\ UNCHANGED <<status, owner, progress, writer, outcome>>

\* The process dies with everything it holds in memory.
Crash(w) ==
  /\ main[w].pc # "idle" \/ beat[w].pc # "idle"
  /\ main' = [main EXCEPT ![w] = NoMain]
  /\ beat' = [beat EXCEPT ![w] = NoBeat]
  /\ UNCHANGED <<row, outcome>>

Older(age) == IF age < LeaseTicks THEN age + 1 ELSE age

Tick ==
  /\ idle' = Older(idle)
  /\ ttl' = IF ttl > 0 THEN ttl - 1 ELSE 0
  /\ main' = [w \in Worker |-> IF main[w].pc \in {"stamped", "selected"}
                               THEN [main[w] EXCEPT !.stamp = Older(@)]
                               ELSE main[w]]
  /\ beat' = [w \in Worker |-> IF beat[w].pc = "selected"
                               THEN [beat[w] EXCEPT !.now = Older(@)]
                               ELSE beat[w]]
  /\ UNCHANGED <<status, owner, progress, writer, outcome>>

Next ==
  \/ Tick
  \/ \E w \in Worker :
       \/ Claim(w)
       \/ \E goal \in Goal : BeginUpdate(w, goal)
       \/ UpdateSelect(w)
       \/ UpdateWrite(w)
       \/ RenewSelect(w)
       \/ RenewWrite(w)
       \/ Crash(w)

Spec == Init /\ [][Next]_vars

\* Time passes, calls in flight return, and something keeps polling for work.
Fairness ==
  /\ WF_vars(Tick)
  /\ WF_vars(\E w \in Worker : Claim(w))
  /\ \A w \in Worker : WF_vars(RenewWrite(w))

FairSpec == Spec /\ Fairness

-----------------------------------------------------------------------------
Working(w) == main[w].pc # "idle"

\* The reason the guarded UPDATE is enough: a copy of the row that no later
\* write has outdated was read by the worker that still owns the running job.
FreshCopyIsOwners ==
  \A w \in Worker :
    /\ main[w].fresh => status = "running" /\ owner = w
    /\ beat[w].fresh => status = "running" /\ owner = w

\* The protocol gives what JobOwnership promises: after a takeover no write of
\* the previous worker, checkpoint or settlement, reaches the row, and a
\* heartbeat in flight never revives a job that was settled or taken over.
Ownership == INSTANCE JobOwnership
  WITH status <- status, owner <- owner, progress <- progress, writer <- writer
ImplementsOwnership == Ownership!Spec

\* A takeover needs a full lease without a heartbeat: whoever loses the job had
\* let its lease run out or had given the job back.  (Stated of the lease in
\* the row, which is what renewals extend; claims look at updatedAt.)
LiveLeaseNotStolen ==
  [][owner' # owner => ~(status = "running" /\ ttl > 0)]_vars

\* A leased call that reports a lost lease is right: the worker no longer holds
\* the job (run-execution-state-service.ts reports it as lost ownership).
LostMeansLost ==
  [][\A w \in Worker :
       outcome'[w] = "lost" /\ outcome[w] # "lost" => ~Holds(w)]_vars

\* A job whose worker died or gave up is claimed again, however many heartbeats
\* were in flight when that happened.
AbandonedIsReclaimed ==
  (status = "running" /\ \A w \in Worker : ~Working(w))
     ~> (status # "running" \/ \E w \in Worker : Working(w))
=============================================================================
