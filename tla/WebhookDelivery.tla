--------------------------- MODULE WebhookDelivery ---------------------------
(***************************************************************************)
(* The event of one terminal run on its way to the webhook subscriptions:  *)
(* drainRunTerminalOutbox (run-terminal-effects.ts) over the run's outbox  *)
(* job, WebhookService.emit and retryDueDeliveries, WebhookDeliveryEngine, *)
(* and the rows of webhook_deliveries (webhook-repository.ts).             *)
(*                                                                         *)
(* A drain claims the job and delivers to every enabled subscription, a    *)
(* few at once and so in any order; a delivery's id is derived from the    *)
(* job, so every drain meets the same row.  The drain holds the job's      *)
(* lease without renewing it, and each delivery under a lease of its own.  *)
(* A retrier claims the failed deliveries that are due, in one batch.      *)
(* Each drain of this model is of another process (JobLease has two calls  *)
(* of one worker).                                                         *)
(*                                                                         *)
(* HookInit, HookNext and their like have a name of their own so that a    *)
(* module can extend this one and RunEventLog.                             *)
(***************************************************************************)
EXTENDS Naturals, FiniteSets

CONSTANTS
  Drain,         \* drains of the outbox
  Retrier,       \* calls of retryDueDeliveries
  Subscription,
  None,
  MaxAttempts,   \* maxWebhookAttempts (5)
  MaxFaults      \* bound on crashes, errors and lost leases

ASSUME MaxAttemptsAssumption == MaxAttempts \in Nat \ {0}
ASSUME MaxFaultsAssumption == MaxFaults \in Nat
ASSUME SenderAssumption == Drain \cap Retrier = {} /\ None \notin Drain \cup Retrier

Sender == Drain \cup Retrier

VARIABLES
  job,        \* the outbox job: status, the drain that leased it, lease live
  enabled,    \* subscriptions that are not disabled
  delivery,   \* per subscription: status, attemptCount, nextAttemptAt
  lease,      \* per subscription: the sender whose token the row has, and live
  drain,      \* of each drain: idle, emitting, or lanes of a rejected emit
  attempt,    \* per sender and subscription: how far the attempt is
  posts,      \* per subscription: requests sent
  faults,     \* crashes, errors and lost leases so far
  overruns    \* those that were a delivery's lease lost by a working sender

hookVars == <<job, enabled, delivery, lease, drain, attempt, posts, faults, overruns>>

NoDelivery == [status |-> "absent", attempts |-> 0, due |-> "never"]
NoLease == [by |-> None, live |-> FALSE]
\* An attempt that is over, or was never begun.
Over == {"none", "done"}
\* An attempt that holds the delivery's lease token.
Holding == {"fetch", "post", "ok", "error", "unavailable"}

\* Types of the job, the deliveries and the senders.
HookTypeOK ==
  /\ job \in [status : {"queued", "running", "completed"},
              by : Drain \cup {None}, live : BOOLEAN]
  /\ enabled \subseteq Subscription
  /\ delivery \in [Subscription ->
       [status : {"absent", "pending", "delivered", "failed"},
        attempts : 0 .. MaxAttempts, due : {"never", "later", "now"}]]
  /\ lease \in [Subscription -> [by : Sender \cup {None}, live : BOOLEAN]]
  /\ drain \in [Drain -> {"idle", "emit", "broken"}]
  /\ attempt \in [Sender -> [Subscription -> Over \cup Holding \cup {"todo", "claim"}]]
  /\ posts \in [Subscription -> Nat]
  /\ faults \in 0 .. MaxFaults
  /\ overruns \in 0 .. MaxFaults

HookInit ==
  /\ job = [status |-> "queued", by |-> None, live |-> FALSE]
  /\ enabled = Subscription
  /\ delivery = [s \in Subscription |-> NoDelivery]
  /\ lease = [s \in Subscription |-> NoLease]
  /\ drain = [d \in Drain |-> "idle"]
  /\ attempt = [a \in Sender |-> [s \in Subscription |-> "none"]]
  /\ posts = [s \in Subscription |-> 0]
  /\ faults = 0
  /\ overruns = 0

\* The attempt of a on s moves on.
Advance(a, s, to) == attempt' = [attempt EXCEPT ![a][s] = to]

-----------------------------------------------------------------------------
\* (Mutant) A job whose drain died is not claimed again.
Claimable_QueuedOnly == job.status = "queued"

\* What claimBackgroundJob claims.
Claimable == job.status = "queued" \/ (job.status = "running" /\ ~job.live)

\* claimBackgroundJob, and emit's list of the enabled subscriptions.
ClaimJob(d) ==
  /\ drain[d] = "idle"
  /\ Claimable
  /\ job' = [status |-> "running", by |-> d, live |-> TRUE]
  /\ drain' = [drain EXCEPT ![d] = "emit"]
  /\ attempt' = [attempt EXCEPT ![d] =
       [s \in Subscription |-> IF s \in enabled THEN "todo" ELSE "none"]]
  /\ UNCHANGED <<enabled, delivery, lease, posts, faults, overruns>>

\* deliver: createWebhookDelivery, which leaves a row that exists alone; only a
\* pending delivery is attempted.
CreateDelivery(d, s) ==
  /\ attempt[d][s] = "todo"
  /\ delivery' = [delivery EXCEPT ![s].status = IF @ = "absent" THEN "pending" ELSE @]
  /\ Advance(d, s, IF delivery'[s].status = "pending" THEN "claim" ELSE "done")
  /\ UNCHANGED <<job, enabled, lease, drain, posts, faults, overruns>>

\* claimWebhookDelivery: pending, and leaseAvailableAt.
ClaimDelivery(d, s) ==
  /\ attempt[d][s] = "claim"
  /\ IF delivery[s].status = "pending" /\ ~lease[s].live
     THEN lease' = [lease EXCEPT ![s] = [by |-> d, live |-> TRUE]] /\ Advance(d, s, "post")
     ELSE Advance(d, s, "done") /\ UNCHANGED lease
  /\ UNCHANGED <<job, enabled, delivery, drain, posts, faults, overruns>>

\* (Mutant) Deliveries that were answered are due as well.
Due_AnyStatus(s) ==
  /\ delivery[s].status # "pending"
  /\ delivery[s].due # "later"
  /\ delivery[s].attempts < MaxAttempts
  /\ ~lease[s].live

\* (Mutant) The lease of a delivery does not keep other senders away.
Due_DespiteLease(s) ==
  /\ delivery[s].status = "failed"
  /\ delivery[s].due = "now"
  /\ delivery[s].attempts < MaxAttempts

\* What claimDueWebhookDeliveries selects.
Due(s) ==
  /\ delivery[s].status = "failed"
  /\ delivery[s].due = "now"
  /\ delivery[s].attempts < MaxAttempts
  /\ ~lease[s].live

\* retryDueDeliveries claims its batch.
ClaimDue(r) ==
  /\ \A s \in Subscription : attempt[r][s] \in Over
  /\ \E s \in Subscription : Due(s)
  /\ lease' = [s \in Subscription |->
                 IF Due(s) THEN [by |-> r, live |-> TRUE] ELSE lease[s]]
  /\ attempt' = [attempt EXCEPT ![r] =
       [s \in Subscription |-> IF Due(s) THEN "fetch" ELSE "none"]]
  /\ UNCHANGED <<job, enabled, delivery, drain, posts, faults, overruns>>

\* It reads the subscription again before it attempts the delivery.
FetchSubscription(r, s) ==
  /\ attempt[r][s] = "fetch"
  /\ Advance(r, s, IF s \in enabled THEN "post" ELSE "unavailable")
  /\ UNCHANGED <<job, enabled, delivery, lease, drain, posts, faults, overruns>>

-----------------------------------------------------------------------------
\* attemptDelivery: the request is sent, or fails on its way.
Post(a, s) ==
  /\ attempt[a][s] = "post"
  /\ \/ posts' = [posts EXCEPT ![s] = @ + 1] /\ Advance(a, s, "ok")
     \/ posts' \in {posts, [posts EXCEPT ![s] = @ + 1]} /\ Advance(a, s, "error")
  /\ UNCHANGED <<job, enabled, delivery, lease, drain, faults, overruns>>

\* (Mutant) A failed attempt is not scheduled again.
Answered_NoRetry(old, result) ==
  CASE result = "ok" -> [status |-> "delivered", attempts |-> old.attempts + 1, due |-> "never"]
    [] result = "error" -> [status |-> "failed", attempts |-> old.attempts + 1, due |-> "never"]
    [] result = "unavailable" -> [old EXCEPT !.status = "failed", !.due = "never"]

\* The row attemptDelivery and completeUnavailableClaim write.
Answered(old, result) ==
  CASE result = "ok" -> [status |-> "delivered", attempts |-> old.attempts + 1, due |-> "never"]
    [] result = "error" -> [status |-> "failed", attempts |-> old.attempts + 1, due |-> "later"]
    [] result = "unavailable" -> [old EXCEPT !.status = "failed", !.due = "never"]

\* completeWebhookDeliveryAttempt: token and expiry; else nothing is written.
CompleteAttempt(a, s) ==
  /\ attempt[a][s] \in {"ok", "error", "unavailable"}
  /\ Advance(a, s, "done")
  /\ IF lease[s].by = a /\ lease[s].live
     THEN /\ delivery' = [delivery EXCEPT ![s] = Answered(@, attempt[a][s])]
          /\ lease' = [lease EXCEPT ![s] = NoLease]
     ELSE UNCHANGED <<delivery, lease>>
  /\ UNCHANGED <<job, enabled, drain, posts, faults, overruns>>

\* (Mutant) A drain whose emit has thrown completes its job.
CompletesJob_AfterError(d) == job.status = "running" /\ job.by = d /\ job.live

\* updateBackgroundJobWithLease, reached only when emit has returned.
CompletesJob(d) ==
  drain[d] = "emit" /\ job.status = "running" /\ job.by = d /\ job.live

\* Every delivery of the drain is over, those of a rejected emit's lanes too.
EndDrain(d) ==
  /\ drain[d] # "idle"
  /\ \A s \in Subscription : attempt[d][s] \in Over
  /\ drain' = [drain EXCEPT ![d] = "idle"]
  /\ job' = IF CompletesJob(d) THEN [job EXCEPT !.status = "completed"] ELSE job
  /\ UNCHANGED <<enabled, delivery, lease, attempt, posts, faults, overruns>>

-----------------------------------------------------------------------------
\* disable and bulkDisable; nothing enables a subscription again.
Disable(s) ==
  /\ s \in enabled
  /\ enabled' = enabled \ {s}
  /\ UNCHANGED <<job, delivery, lease, drain, attempt, posts, faults, overruns>>

\* nextAttemptAt passes.
ComeDue(s) ==
  /\ delivery[s].due = "later"
  /\ delivery' = [delivery EXCEPT ![s].due = "now"]
  /\ UNCHANGED <<job, enabled, lease, drain, attempt, posts, faults, overruns>>

\* A lease whose holder is gone runs out: the job's once emit is over or has
\* rejected, whatever its detached lanes still do.
ExpireAbandonedJob ==
  /\ job.status = "running" /\ job.live /\ drain[job.by] # "emit"
  /\ job' = [job EXCEPT !.live = FALSE]
  /\ UNCHANGED <<enabled, delivery, lease, drain, attempt, posts, faults, overruns>>

ExpireAbandonedDelivery(s) ==
  /\ lease[s].live
  /\ attempt[lease[s].by][s] \notin Holding
  /\ lease' = [lease EXCEPT ![s].live = FALSE]
  /\ UNCHANGED <<job, enabled, delivery, drain, attempt, posts, faults, overruns>>

Fault == faults < MaxFaults /\ faults' = faults + 1

\* emit takes longer than the 60 s of the job's lease.
OutlastJobLease ==
  /\ Fault
  /\ job.status = "running" /\ job.live /\ drain[job.by] = "emit"
  /\ job' = [job EXCEPT !.live = FALSE]
  /\ UNCHANGED <<enabled, delivery, lease, drain, attempt, posts, overruns>>

\* An attempt takes longer than its lease: a paused process, a slow lookup.
OutlastDeliveryLease(s) ==
  /\ Fault
  /\ overruns' = overruns + 1
  /\ lease[s].live
  /\ attempt[lease[s].by][s] \in Holding
  /\ lease' = [lease EXCEPT ![s].live = FALSE]
  /\ UNCHANGED <<job, enabled, delivery, drain, attempt, posts>>

\* A step of one delivery throws: emit rejects at once.  The other lanes of
\* mapWithConcurrency go on, detached; with their lane gone, some deliveries
\* that were still ahead are never begun.
Throw(d, s) ==
  /\ Fault
  /\ attempt[d][s] \notin Over
  /\ \E ahead \in SUBSET {t \in Subscription : attempt[d][t] = "todo"} :
       attempt' = [attempt EXCEPT ![d] = [t \in Subscription |->
                     IF t \in ahead \cup {s} THEN "done" ELSE attempt[d][t]]]
  /\ drain' = [drain EXCEPT ![d] = "broken"]
  /\ UNCHANGED <<job, enabled, delivery, lease, posts, overruns>>

\* The sender's process dies.
Crash(a) ==
  /\ Fault
  /\ \E s \in Subscription : attempt[a][s] \notin Over
  /\ attempt' = [attempt EXCEPT ![a] = [s \in Subscription |-> "none"]]
  /\ drain' = [d \in Drain |-> IF d = a THEN "idle" ELSE drain[d]]
  /\ UNCHANGED <<job, enabled, delivery, lease, posts, overruns>>

-----------------------------------------------------------------------------
AttemptStep(a, s) == Post(a, s) \/ CompleteAttempt(a, s)
DrainStep(d) ==
  \/ EndDrain(d)
  \/ \E s \in Subscription : CreateDelivery(d, s) \/ ClaimDelivery(d, s)

HookNext ==
  \/ \E d \in Drain : ClaimJob(d) \/ DrainStep(d)
  \/ \E r \in Retrier : ClaimDue(r) \/ \E s \in Subscription : FetchSubscription(r, s)
  \/ \E a \in Sender, s \in Subscription : AttemptStep(a, s)
  \/ \E s \in Subscription : Disable(s) \/ ComeDue(s)
  \/ ExpireAbandonedJob \/ OutlastJobLease
  \/ \E s \in Subscription : ExpireAbandonedDelivery(s) \/ OutlastDeliveryLease(s)
  \/ \E d \in Drain, s \in Subscription : Throw(d, s)
  \/ \E a \in Sender : Crash(a)

HookSpec == HookInit /\ [][HookNext]_hookVars

\* Drains are started every second, the retry job on its schedule; requests
\* time out and time passes.
HookFairness ==
  /\ WF_hookVars(\E d \in Drain : ClaimJob(d))
  /\ \A d \in Drain : WF_hookVars(DrainStep(d))
  /\ WF_hookVars(\E r \in Retrier : ClaimDue(r))
  /\ \A r \in Retrier, s \in Subscription : WF_hookVars(FetchSubscription(r, s))
  /\ \A a \in Sender, s \in Subscription : WF_hookVars(AttemptStep(a, s))
  /\ WF_hookVars(ExpireAbandonedJob)
  /\ \A s \in Subscription : WF_hookVars(ComeDue(s)) /\ WF_hookVars(ExpireAbandonedDelivery(s))

HookFairSpec == HookSpec /\ HookFairness

-----------------------------------------------------------------------------
InFlight(s) == {a \in Sender : attempt[a][s] \in {"ok", "error"}}

\* Every request a subscriber receives is one of its counted attempts, one
\* whose answer is still to be recorded, or the price of a fault: no drain or
\* retry that overlaps another sends the event again by itself.
PostsAccounted ==
  \A s \in Subscription :
    posts[s] <= delivery[s].attempts + Cardinality(InFlight(s)) + faults

\* The outbox job is completed only when each enabled subscription has its row:
\* errors, crashes and lost leases never lose the event of a run.
CompletedJobReachedAll ==
  job.status = "completed" =>
    \A s \in enabled : delivery[s].status # "absent"

\* A delivered event is not sent again, unless an attempt outlasts its lease.
DeliveredNotRepeated ==
  [][\A s \in Subscription :
       delivery[s].status = "delivered" /\ overruns = 0 => posts'[s] = posts[s]]_hookVars

\* The outbox job is completed at last.
OutboxDrains == <>(job.status = "completed")

\* A failed delivery is retried until it is delivered, its attempts are used up
\* or its subscription is disabled.
FailedIsRetried ==
  \A s \in Subscription : delivery[s].status = "failed" ~>
    \/ delivery[s].status = "delivered"
    \/ delivery[s].attempts = MaxAttempts
    \/ s \notin enabled

-----------------------------------------------------------------------------
\* (Refuted) "crash replay does not recreate delivered webhook records": the
\* record is kept, but the event is sent again when a crash, or the end of the
\* lease, comes between the answer and its record.
SentOncePerAttempt ==
  \A s \in Subscription :
    posts[s] <= delivery[s].attempts + Cardinality(InFlight(s))

\* (Refuted) A delivery does not stay pending: the job is completed by a drain
\* that has passed over a pending delivery under another drain's lease, or the
\* answer was discarded for its lease; only failed deliveries are retried.
PendingSettles ==
  \A s \in Subscription : delivery[s].status = "pending" ~> delivery[s].status # "pending"
=============================================================================
