----------------------------- MODULE ToolDispatch -----------------------------
(***************************************************************************)
(* One tool operation that is dispatched to external workers: its enqueue  *)
(* under an idempotency key (tool-operation-dispatch.ts), the life of its  *)
(* background job (tool-operation-dispatch-requests.ts) and the loop of a  *)
(* worker (packages/cli/src/tool-dispatch-worker.ts).                      *)
(*                                                                         *)
(* Completing, failing, cancelling and expiring read the job, check it and *)
(* write it by id in one read committed transaction: nothing holds the row *)
(* in between, so the two halves are two actions.  A claim locks the row.  *)
(* The lease names the account a worker signs in with, which several       *)
(* worker processes may share.  Every caller leases for the same time, so  *)
(* a job is stale when its lease has run out; JobLease has the general     *)
(* case.  Renewals keep "live" TRUE; what they leave open is that the      *)
(* lease of a working worker runs out at any time (a lost renewal).        *)
(*                                                                         *)
(* A payload is deleted after its transaction, by a call whose failure is  *)
(* swallowed and which dies with its server: "left" has the payloads that  *)
(* are left to the expiry of the bucket.                                   *)
(***************************************************************************)
EXTENDS Naturals

CONSTANTS
  Worker,       \* worker processes
  Account,      \* the account of each worker
  Operator,     \* callers of cancel and expire
  Enqueuer,     \* concurrent enqueues with one idempotency key
  None,
  MaxAttempts   \* dispatchRequestMaxAttempts

ASSUME MaxAttemptsAssumption == MaxAttempts \in Nat \ {0}
ASSUME AccountAssumption == DOMAIN Account = Worker
ASSUME CallerAssumption == Worker \cap Operator = {}
ASSUME NoneAssumption == None \notin Enqueuer

VARIABLES
  status,    \* of the job; "absent" before the enqueue commits
  lease,     \* payload.workerLease: account, attempt and whether it is live
  stored,    \* whose dispatch payload is in the object store
  left,      \* whose payload nobody deletes any more: a fault of its deletion
  ref,       \* the enqueue whose payload the job refers to
  enqueue,   \* where each enqueue is
  worker,    \* where each worker is in executeClaimedDispatchRequest
  call,      \* terminal call of each caller between its read and its write
  cleanup,   \* a terminal call has yet to delete the payload
  executed   \* how often the operation was sent to the connector

job == <<status, lease, ref>>
store == <<stored, left>>
vars == <<job, store, enqueue, worker, call, cleanup, executed>>

Terminal == {"completed", "failed"}
Caller == Worker \cup Operator
Accounts == {Account[w] : w \in Worker}
NoCall == "none"

\* Types of the job, the payload store and the callers.
TypeOK ==
  /\ status \in {"absent", "queued", "running"} \cup Terminal
  /\ lease \in [account : Accounts \cup {None}, attempt : 0 .. MaxAttempts + 1,
                live : BOOLEAN]
  /\ {stored, left} \subseteq SUBSET Enqueuer
  /\ ref \in Enqueuer \cup {None}
  /\ enqueue \in [Enqueuer -> {"start", "stored", "drop", "done"}]
  /\ worker \in [Worker -> {"idle", "claimed", "ready", "executed", "error"}]
  /\ call \in [Caller -> Terminal \cup {NoCall}]
  /\ cleanup \in BOOLEAN
  /\ executed \in Nat

Init ==
  /\ status = "absent"
  /\ lease = [account |-> None, attempt |-> 0, live |-> FALSE]
  /\ stored = {}
  /\ left = {}
  /\ ref = None
  /\ enqueue = [e \in Enqueuer |-> "start"]
  /\ worker = [w \in Worker |-> "idle"]
  /\ call = [c \in Caller |-> NoCall]
  /\ cleanup = FALSE
  /\ executed = 0

-----------------------------------------------------------------------------
\* enqueueToolOperationDispatch: a replay returns, else the payload is stored.
StorePayload(e) ==
  /\ enqueue[e] = "start"
  /\ IF status = "absent"
     THEN /\ stored' = stored \cup {e}
          /\ enqueue' = [enqueue EXCEPT ![e] = "stored"]
     ELSE /\ enqueue' = [enqueue EXCEPT ![e] = "done"]
          /\ UNCHANGED stored
  /\ UNCHANGED <<job, left, worker, call, cleanup, executed>>

\* (Mutant) A replay inside the transaction keeps the payload it has stored.
CommitEnqueue_KeepsReplay(e) ==
  /\ enqueue[e] = "stored"
  /\ enqueue' = [enqueue EXCEPT ![e] = "done"]
  /\ IF status = "absent"
     THEN status' = "queued" /\ ref' = e
     ELSE UNCHANGED <<status, ref>>
  /\ UNCHANGED <<lease, store, worker, call, cleanup, executed>>

\* (Mutant) A replay deletes the payload of the job it has found.
CommitEnqueue_DeletesFound(e) ==
  /\ enqueue[e] = "stored"
  /\ enqueue' = [enqueue EXCEPT ![e] = "done"]
  /\ IF status = "absent"
     THEN status' = "queued" /\ ref' = e /\ UNCHANGED stored
     ELSE stored' = stored \ {ref} /\ UNCHANGED <<status, ref>>
  /\ UNCHANGED <<lease, left, worker, call, cleanup, executed>>

\* Its transaction creates the job, unless it finds the job or runs into its
\* deterministic id: then the payload that it has stored is to be deleted.
CommitEnqueue(e) ==
  /\ enqueue[e] = "stored"
  /\ IF status = "absent"
     THEN /\ status' = "queued" /\ ref' = e
          /\ enqueue' = [enqueue EXCEPT ![e] = "done"]
     ELSE /\ enqueue' = [enqueue EXCEPT ![e] = "drop"]
          /\ UNCHANGED <<status, ref>>
  /\ UNCHANGED <<lease, store, worker, call, cleanup, executed>>

\* The transaction fails; the catch block is to delete the payload.
FailEnqueue(e) ==
  /\ enqueue[e] = "stored"
  /\ enqueue' = [enqueue EXCEPT ![e] = "drop"]
  /\ UNCHANGED <<job, store, worker, call, cleanup, executed>>

\* deleteStoredPayload, after the transaction.
DropPayload(e) ==
  /\ enqueue[e] = "drop"
  /\ enqueue' = [enqueue EXCEPT ![e] = "done"]
  /\ stored' = stored \ {e}
  /\ UNCHANGED <<job, left, worker, call, cleanup, executed>>

\* It fails and the failure is swallowed, or the server dies before it, perhaps
\* between the store and the transaction.
LoseEnqueue(e) ==
  /\ enqueue[e] \in {"stored", "drop"}
  /\ enqueue' = [enqueue EXCEPT ![e] = "done"]
  /\ left' = left \cup {e}
  /\ UNCHANGED <<job, stored, worker, call, cleanup, executed>>

-----------------------------------------------------------------------------
\* (Mutant) Only queued jobs are claimed.
Claimable_QueuedOnly == status = "queued"

\* (Mutant) A failed job is claimed again.
Claimable_Failed ==
  status \in {"queued", "failed"} \/ (status = "running" /\ ~lease.live)

\* claimableBackgroundJobWhere.
Claimable == status = "queued" \/ (status = "running" /\ ~lease.live)

\* (Mutant) A dead letter is compared with the attempts before this claim.
Exhausted_OffByOne == lease.attempt > MaxAttempts

\* lease.attempt > dispatchRequestMaxAttempts, for the lease of this claim.
Exhausted == lease.attempt + 1 > MaxAttempts

\* claimToolOperationDispatchRequest: the job, or no job and a dead letter.
Claim(w) ==
  /\ worker[w] = "idle"
  /\ call[w] = NoCall
  /\ Claimable
  /\ lease' = [account |-> Account[w], attempt |-> lease.attempt + 1, live |-> TRUE]
  /\ IF Exhausted
     THEN status' = "failed" /\ cleanup' = TRUE /\ UNCHANGED worker
     ELSE /\ status' = "running"
          /\ worker' = [worker EXCEPT ![w] = "claimed"]
          /\ UNCHANGED cleanup
  /\ UNCHANGED <<ref, store, enqueue, call, executed>>

\* findClaimedDispatchRequest.
Holds(w) == status = "running" /\ lease.account = Account[w] /\ lease.live

\* resolveClaimPayload through readToolOperationDispatchRequestPayload.
ReadPayload(w) ==
  /\ worker[w] = "claimed"
  /\ worker' = [worker EXCEPT ![w] =
                  IF Holds(w) /\ ref \in stored THEN "ready" ELSE "error"]
  /\ UNCHANGED <<job, store, enqueue, call, cleanup, executed>>

\* executeToolDispatchHttpRequest: an answer, or an error before or after the
\* connector has acted.
Execute(w) ==
  /\ worker[w] = "ready"
  /\ \/ executed' = executed + 1 /\ worker' = [worker EXCEPT ![w] = "executed"]
     \/ executed' \in {executed, executed + 1} /\ worker' = [worker EXCEPT ![w] = "error"]
  /\ UNCHANGED <<job, store, enqueue, call, cleanup>>

\* The heartbeat failed, or the complete call did not reach the server.
LoseCompletion(w) ==
  /\ worker[w] = "executed"
  /\ worker' = [worker EXCEPT ![w] = "error"]
  /\ UNCHANGED <<job, store, enqueue, call, cleanup, executed>>

\* completeToolOperationDispatchRequest reads the job.
ReadForCompletion(w) ==
  /\ worker[w] = "executed"
  /\ call[w] = NoCall
  /\ IF Holds(w)
     THEN /\ call' = [call EXCEPT ![w] = "completed"]
          /\ worker' = [worker EXCEPT ![w] = "idle"]
     ELSE /\ worker' = [worker EXCEPT ![w] = "error"]
          /\ UNCHANGED call
  /\ UNCHANGED <<job, store, enqueue, cleanup, executed>>

\* failToolOperationDispatchRequest reads the job; a refusal ends the worker's
\* process, which is started again.
ReadForFailure(w) ==
  /\ worker[w] = "error"
  /\ call[w] = NoCall
  /\ call' = [call EXCEPT ![w] = IF Holds(w) THEN "failed" ELSE NoCall]
  /\ worker' = [worker EXCEPT ![w] = "idle"]
  /\ UNCHANGED <<job, store, enqueue, cleanup, executed>>

\* findCancellableDispatchRequest, cancelLinkedDispatchRequests, and the list of
\* expireToolOperationDispatchRequests, whose timeouts may have passed.
ReadForOperator(o) ==
  /\ call[o] = NoCall
  /\ status \in {"queued", "running"}
  /\ call' = [call EXCEPT ![o] = "failed"]
  /\ UNCHANGED <<job, store, enqueue, worker, cleanup, executed>>

\* updateBackgroundJob: the UPDATE by id, with the copy the caller has read.
Write(c) ==
  /\ call[c] # NoCall
  /\ status' = call[c]
  /\ call' = [call EXCEPT ![c] = NoCall]
  /\ cleanup' = TRUE
  /\ UNCHANGED <<lease, ref, store, enqueue, worker, executed>>

\* deleteDispatchPayloadObject after the commit.
DeletePayload ==
  /\ cleanup
  /\ cleanup' = FALSE
  /\ stored' = stored \ {ref}
  /\ UNCHANGED <<job, left, enqueue, worker, call, executed>>

\* It fails and the failure is swallowed, or the server dies before it.
LoseDeletion ==
  /\ cleanup
  /\ cleanup' = FALSE
  /\ left' = left \cup {ref}
  /\ UNCHANGED <<job, stored, enqueue, worker, call, executed>>

-----------------------------------------------------------------------------
\* The lease runs out: its worker is gone, paused, or its renewals are lost.
ExpireLease ==
  /\ status = "running"
  /\ lease.live
  /\ lease' = [lease EXCEPT !.live = FALSE]
  /\ UNCHANGED <<status, ref, store, enqueue, worker, call, cleanup, executed>>

\* A worker process dies; a call of its that the server has begun goes on.
Crash(w) ==
  /\ worker[w] # "idle"
  /\ worker' = [worker EXCEPT ![w] = "idle"]
  /\ UNCHANGED <<job, store, enqueue, call, cleanup, executed>>

WorkerStep(w) ==
  \/ ReadPayload(w) \/ Execute(w) \/ LoseCompletion(w)
  \/ ReadForCompletion(w) \/ ReadForFailure(w)

EnqueueStep(e) ==
  StorePayload(e) \/ CommitEnqueue(e) \/ FailEnqueue(e) \/ DropPayload(e)

Next ==
  \/ \E e \in Enqueuer : EnqueueStep(e) \/ LoseEnqueue(e)
  \/ \E w \in Worker : Claim(w) \/ WorkerStep(w) \/ Crash(w)
  \/ \E o \in Operator : ReadForOperator(o)
  \/ \E c \in Caller : Write(c)
  \/ DeletePayload
  \/ LoseDeletion
  \/ ExpireLease

Spec == Init /\ [][Next]_vars

\* Workers poll, servers finish what they have begun, and the lease of a job
\* that nobody settles runs out.  Nothing keeps workers from crashing, or a
\* deletion from failing.
Fairness ==
  /\ WF_vars(\E w \in Worker : Claim(w))
  /\ \A w \in Worker : WF_vars(WorkerStep(w))
  /\ \A c \in Caller : WF_vars(Write(c))
  /\ WF_vars(ExpireLease)
  /\ WF_vars(DeletePayload)
  /\ \A e \in Enqueuer : WF_vars(EnqueueStep(e))

FairSpec == Spec /\ Fairness

-----------------------------------------------------------------------------
\* However many workers crash or lose their lease, the operation is sent to the
\* connector at most MaxAttempts times.
ExecutionsBounded == executed <= MaxAttempts

\* A job that a worker may still claim or work on has its payload in the store,
\* whichever of the concurrent enqueues has created it.
PayloadAvailable == status \in {"queued", "running"} => ref \in stored

\* Once settled a job never runs again: what overlaps can only replace one
\* outcome by another, and no further attempt is made.
SettledStaysSettled == [][(status \in Terminal) => (status' \in Terminal)]_vars

\* Every request is settled at last, even when each worker that claims it
\* crashes: the attempts run out and the next claim writes the dead letter.
RequestSettles == status = "queued" ~> status \in Terminal

\* Once the request is settled the payloads go from the store, its own and those
\* of the enqueues that found the job there: what stays is the payload whose
\* deletion failed or whose server died, which the expiry of the bucket removes.
PayloadDeleted == status \in Terminal ~> stored \subseteq left

-----------------------------------------------------------------------------
\* (Refuted) "Tool operation dispatch request is already terminal." Two calls
\* that overlap both pass that check, and the later one replaces the outcome.
OutcomeIsFinal == [][(status \in Terminal) => (status' = status)]_vars

\* (Refuted) A request whose lease was lost is executed again.
ExecutedOnce == executed <= 1
=============================================================================
