---------------------------- MODULE RunExecution ----------------------------
(***************************************************************************)
(* The life of one run across the server processes of packages/core/src/   *)
(* services: execution (RunStreamingExecutionService and RunExecution-     *)
(* StateService), suspension for a tool approval or a tool dispatch and    *)
(* its continuation (RunContinuationService), cancellation and completion  *)
(* (RunTerminalService, run-terminal-effects), and recovery (RunRecovery-  *)
(* Coordinator).  An action is one transaction or one statement on the     *)
(* database, with the memory of its process that changes with it; two      *)
(* awaits of the code are two actions.                                     *)
(*                                                                         *)
(* The leased calls on the execution job are taken at the level of         *)
(* JobOwnership, which JobLease implements: a write succeeds only for the  *)
(* owner of a running job, and may fail even then (the renewal of the same *)
(* worker outdated it).  "live" is the lease: a job whose lease lapsed may *)
(* be claimed.  Content-policy approvals are left out.                     *)
(***************************************************************************)
EXTENDS Naturals, Sequences, FiniteSets

CONSTANTS
  Worker,         \* server processes
  None,
  MaxJobs,        \* bound: execution jobs ever created for the run
  MaxOutput,      \* bound: message.delta parts of the answer
  MaxToolCalls,   \* maxModelToolCalls
  MaxFaults,      \* bound: crashes, stalls and rejected calls
  MaxRequests,    \* bound: requests on the run in flight
  SecretsMayReject,  \* whether resolveRunProviderApiKeys may reject
  Suspensions     \* how the agent's tools may suspend a run

ASSUME BoundsAssumption ==
  /\ MaxJobs \in Nat \ {0}
  /\ MaxOutput \in Nat
  /\ MaxToolCalls \in Nat
  /\ MaxFaults \in Nat
  /\ MaxRequests \in Nat
ASSUME SecretsAssumption == SecretsMayReject \in BOOLEAN
ASSUME SuspensionsAssumption == Suspensions \subseteq {"approval", "dispatch"}
ASSUME NoneAssumption == None \notin Worker

VARIABLES
  status,    \* runs.status
  effects,   \* times the terminal effects of the run were committed
  log,       \* what run_events tell a reader, in the order of insertion
  quiet,     \* the last event is older than runRecoveryStaleMs
  jobs,      \* the background_jobs rows of type run.execution:<run>
  approval,  \* the tool call that needs approval
  dispatch,  \* the tool.operation.dispatch_request job linked to the run
  exec,      \* the execution of the run in each process
  request,   \* the request on the run each process is serving
  faults     \* crashes, stalls and rejected calls so far

vars == <<status, effects, log, quiet, jobs, approval, dispatch, exec,
          request, faults>>

JobId == 1 .. MaxJobs
Part == 0 .. MaxOutput
Settled == {"completed", "failed", "cancelled"}          \* isTerminalRunStatus
RunStatus == {"queued", "running", "waiting_tool_approval"} \cup Settled

Output == {"message.started", "message.delta", "tool.requested"}
Waiting == {"run.waiting_tool_approval", "run.waiting_tool_dispatch"}
Terminal == {"run.completed", "run.failed", "run.cancelled"}

\* shown: the parts a reader puts together, those after the last message.started
\* (assistantContentFromRunEvents); written: the last part ever logged; ended:
\* the last event is a terminal one; seen: which of Milestone occur; overtaken:
\* processes holding a sequence number below that of the last event.
Milestone == {"run.continuing", "run.waiting_tool_dispatch"}
Log == [shown : Seq(1 .. MaxOutput), written : Part, ended : BOOLEAN,
        seen : SUBSET Milestone, overtaken : SUBSET Worker]
NoLog == [shown |-> <<>>, written |-> 0, ended |-> FALSE, seen |-> {},
          overtaken |-> {}]

\* (Mutant) A tool call is not taken for output.
Marking_Text == {"message.delta"} \cup Waiting

\* The events at which checkpoint() sets assistantOutputStarted.
Marking == {"message.delta", "tool.requested"} \cup Waiting

\* part: the last part that the messages of the checkpoint tell the provider of;
\* text: its assistantContent; started: assistantOutputStarted of the payload.
Job == [status : {"absent", "queued", "running", "settled"},
        owner : Worker \cup {None}, live : BOOLEAN,
        started : BOOLEAN, part : Part, text : Seq(1 .. MaxOutput)]
NoJob == [status |-> "absent", owner |-> None, live |-> FALSE,
          started |-> FALSE, part |-> 0, text |-> <<>>]

ExecPc == {"idle", "list", "create", "claim", "begin", "stream",
           "checkpoint", "tool", "failing", "suspend", "finish", "announce"}

\* event: the one being processed; part: the last part of the answer the
\* provider was told of or produced; text: the parts of assistantContent;
\* calls: modelToolCallCount (a chunk of several tool calls is one call); mark:
\* assistantOutputStarted in executionJob, the copy of the row that it writes
\* back; late: the copies of it that heartbeats have yet to bring; ceded: the job
\* was claimed since (workerLease.attempt moved on), maybe by this very process;
\* retry: the recovery begins it.
Exec == [pc : ExecPc, job : JobId \cup {0}, part : Part,
         text : Seq(1 .. MaxOutput), calls : 0 .. MaxToolCalls,
         event : Output \cup Waiting \cup {"none"}, mark : BOOLEAN,
         late : SUBSET BOOLEAN, ceded : BOOLEAN, aborted : BOOLEAN,
         retry : BOOLEAN]
NoExec == [pc |-> "idle", job |-> 0, part |-> 0, text |-> <<>>, calls |-> 0,
           event |-> "none", mark |-> FALSE, late |-> {}, ceded |-> FALSE,
           aborted |-> FALSE, retry |-> FALSE]

RequestPc == {"idle", "cancel", "resume", "continue", "await", "requeue",
              "announce", "readback", "recover", "examine", "seize", "fail",
              "events", "newest", "reconcile", "close"}
Request == [pc : RequestPc, seen : RunStatus, job : JobId \cup {0}]
NoRequest == [pc |-> "idle", seen |-> "running", job |-> 0]
Serving(pc) == [NoRequest EXCEPT !.pc = pc]

TypeOK ==
  /\ status \in RunStatus
  /\ effects \in Nat
  /\ log \in Log
  /\ quiet \in BOOLEAN
  /\ jobs \in [JobId -> Job]
  /\ approval \in {"none", "pending", "approved", "denied", "consumed"}
  /\ dispatch \in {"none", "queued", "claimed", "answered", "withdrawn"}
  /\ exec \in [Worker -> Exec]
  /\ request \in [Worker -> Request]
  /\ faults \in 0 .. MaxFaults

\* persistPreparedRunStart created the run and beginExecution was called.
Init ==
  /\ status = "running"
  /\ effects = 0
  /\ log = NoLog
  /\ quiet = FALSE
  /\ jobs = [j \in JobId |-> NoJob]
  /\ approval = "none"
  /\ dispatch = "none"
  /\ \E w \in Worker :
       exec = [v \in Worker |-> IF v = w THEN [NoExec EXCEPT !.pc = "list"]
                                ELSE NoExec]
  /\ request = [w \in Worker |-> NoRequest]
  /\ faults = 0

-----------------------------------------------------------------------------
\* sequencer.assign and append, without a look at the run.
Logged(event) ==
  [log EXCEPT !.ended = event \in Terminal,
              !.shown = IF event = "message.started" THEN <<>> ELSE @,
              !.seen = @ \cup ({event} \cap Milestone),
              !.overtaken = {w \in Worker : exec[w].event \in Waiting}]

Persist(event) == log' = Logged(event) /\ quiet' = FALSE

PersistDelta(part) ==
  /\ log' = [Logged("message.delta") EXCEPT
               !.shown = Append(@, part),
               !.written = IF part > @ THEN part ELSE @]
  /\ quiet' = FALSE

\* A waiting event gets its sequence number before the run is marked and is
\* appended after the job is finished: what was logged in between stays the last.
Assigned(w) == [log EXCEPT !.overtaken = @ \ {w}]

PersistAssigned(w, event) ==
  IF w \in log.overtaken
  THEN /\ log' = [Assigned(w) EXCEPT !.seen = @ \cup ({event} \cap Milestone)]
       /\ UNCHANGED quiet
  ELSE /\ log' = [Logged(event) EXCEPT !.overtaken = @ \ {w}]
       /\ quiet' = FALSE

Active(j) == jobs[j].status \in {"queued", "running"}
ActiveJobs == {j \in JobId : Active(j)}
\* (Mutant) A running job is never claimed again.
Claimable_QueuedOnly(j) == jobs[j].status = "queued"

Claimable(j) ==
  \/ jobs[j].status = "queued"
  \/ jobs[j].status = "running" /\ ~jobs[j].live
Owns(w, j) == j \in JobId /\ jobs[j].status = "running" /\ jobs[j].owner = w

Newest(j, S) == j \in S /\ \A k \in S : k <= j
Oldest(j, S) == j \in S /\ \A k \in S : j <= k

\* activeRuns.has: from the claim to the end of the execution.
Executing(w) ==
  exec[w].pc \notin {"idle", "list", "create", "claim", "announce"}

\* claimBackgroundJob outdates the claims that executions still go by.
Ceded(j) ==
  [v \in Worker |->
     [exec[v] EXCEPT !.ceded = @ \/ (Executing(v) /\ exec[v].job = j)]]

Claimed(j, w) ==
  [jobs EXCEPT ![j] = [@ EXCEPT !.status = "running", !.owner = w,
                                !.live = TRUE]]

\* (Mutant) The audit row and the outbox job get ids of their own.
Settle_FreshIds(outcome, event) ==
  /\ status \notin Settled
  /\ status' = outcome
  /\ effects' = effects + 1
  /\ Persist(event)

\* persistTerminalRunInRepository, one transaction.  The audit row and the
\* outbox job have ids made of the run's: a second commit of the effects
\* conflicts, and the transaction throws.
Settle(outcome, event) ==
  /\ status \notin Settled
  /\ effects = 0
  /\ status' = outcome
  /\ effects' = effects + 1
  /\ Persist(event)

AlreadySettled == status \in Settled /\ UNCHANGED <<status, effects, log, quiet>>

SettleThrows ==
  /\ status \notin Settled
  /\ effects > 0
  /\ UNCHANGED <<status, effects, log, quiet>>

\* The execution rejects.  Its callers do not catch ("void execute(...)"), so
\* the process may end with it.
Throw(w) ==
  /\ exec' = [exec EXCEPT ![w] = NoExec]
  /\ request' \in {request, [request EXCEPT ![w] = NoRequest]}

\* A server process takes one more request on the run.
Free(w) ==
  /\ request[w].pc = "idle"
  /\ Cardinality({v \in Worker : request[v].pc # "idle"}) < MaxRequests

Fault == faults < MaxFaults /\ faults' = faults + 1

Step(w, pc) == exec' = [exec EXCEPT ![w] = [@ EXCEPT !.pc = pc]]

-----------------------------------------------------------------------------
(* RunExecutionStateService.claim                                           *)

ClaimList(w) ==
  /\ exec[w].pc = "list"
  /\ \/ ActiveJobs = {} /\ Step(w, "create")
     \/ \E j \in JobId :
          /\ Newest(j, ActiveJobs)
          /\ exec' = [exec EXCEPT ![w] = [@ EXCEPT !.pc = "claim", !.job = j]]
  /\ UNCHANGED <<status, effects, log, quiet, jobs, approval, dispatch,
                 request, faults>>

\* createBackgroundJob, or its rejection once the bound MaxJobs is reached.
CreateJob(w) ==
  /\ exec[w].pc = "create"
  /\ \/ \E j \in JobId :
          /\ Oldest(j, {k \in JobId : jobs[k].status = "absent"})
          /\ jobs' = [jobs EXCEPT ![j] =
                        [NoJob EXCEPT !.status = "queued",
                                      !.started = exec[w].text # <<>>,
                                      !.part = exec[w].part,
                                      !.text = exec[w].text]]
          /\ exec' = [exec EXCEPT ![w] = [@ EXCEPT !.pc = "claim", !.job = j]]
          /\ UNCHANGED request
     \/ /\ \A k \in JobId : jobs[k].status # "absent"
        /\ Throw(w)
        /\ UNCHANGED jobs
  /\ UNCHANGED <<status, effects, log, quiet, approval, dispatch, faults>>

\* claimBackgroundJob of that job, then readCheckpoint.  When the claim or the
\* read fails the execution returns; a claimed job stays claimed.
TakeJob(w) ==
  LET j == exec[w].job IN
  /\ exec[w].pc = "claim"
  /\ \/ /\ Claimable(j)
        /\ jobs' = Claimed(j, w)
        /\ \/ /\ exec' = [Ceded(j) EXCEPT ![w] =
                            [@ EXCEPT !.pc = "begin", !.text = jobs[j].text,
                                      !.mark = jobs[j].started,
                                      !.retry = FALSE]]
              /\ UNCHANGED faults
           \/ Fault /\ exec' = [Ceded(j) EXCEPT ![w] = NoExec]
     \/ /\ ~Claimable(j)
        /\ exec' = [exec EXCEPT ![w] = NoExec]
        /\ UNCHANGED <<jobs, faults>>
  /\ UNCHANGED <<status, effects, log, quiet, approval, dispatch, request>>

-----------------------------------------------------------------------------
(* RunStreamingExecutionService.execute                                     *)

\* An event that was appended is checkpointed next.
Emit(w, event) ==
  exec' = [exec EXCEPT ![w] = [@ EXCEPT !.pc = "checkpoint", !.event = event]]

\* The provider's message starts, and again after a tool call the model reasoned
\* about; resolving the provider's secrets comes first and may reject.
Begin(w) ==
  /\ exec[w].pc = "begin"
  /\ Persist("message.started")
  /\ Emit(w, "message.started")
  /\ UNCHANGED <<status, effects, jobs, approval, dispatch, request, faults>>

SecretsReject(w) ==
  /\ exec[w].pc = "begin"
  /\ exec[w].event = "none"
  /\ SecretsMayReject
  /\ Throw(w)
  /\ UNCHANGED <<status, effects, log, quiet, jobs, approval, dispatch, faults>>

Streaming(w) == exec[w].pc = "stream" /\ ~exec[w].aborted

Delta(w) ==
  LET part == exec[w].part + 1 IN
  /\ Streaming(w)
  /\ part <= MaxOutput
  /\ PersistDelta(part)
  /\ exec' = [exec EXCEPT ![w] =
                [@ EXCEPT !.pc = "checkpoint", !.event = "message.delta",
                          !.part = part, !.text = Append(exec[w].text, part)]]
  /\ UNCHANGED <<status, effects, jobs, approval, dispatch, request, faults>>

ToolCall(w) ==
  /\ Streaming(w)
  /\ Persist("tool.requested")
  /\ Emit(w, "tool.requested")
  /\ UNCHANGED <<status, effects, jobs, approval, dispatch, request, faults>>

\* The provider stream ended: with run.failed after a failed tool call, with
\* run.cancelled when it was aborted, by a cancellation in this process or by a
\* heartbeat that failed.  completeRun asks for no lease.
Complete(w) ==
  /\ exec[w].pc \in {"stream", "failing"}
  /\ \/ /\ \/ Streaming(w) /\ Settle("completed", "run.completed")
           \/ /\ exec[w].pc = "failing" \/ Streaming(w)
              /\ Settle("failed", "run.failed")
           \/ exec[w].pc = "stream" /\ Settle("cancelled", "run.cancelled")
           \/ AlreadySettled
        /\ exec' = [exec EXCEPT ![w] =
                      [NoExec EXCEPT !.pc = "finish", !.job = exec[w].job]]
        /\ UNCHANGED request
     \/ SettleThrows /\ Throw(w)
  /\ UNCHANGED <<jobs, approval, dispatch, faults>>

\* executionState.checkpoint.  Even the owner may find its lease lost.
AfterCheckpoint(event) ==
  CASE event = "tool.requested" -> "tool"
    [] event \in Waiting -> "finish"
    [] OTHER -> "stream"

\* What the checkpoint writes: the mark of the copy, or that of the event.
Marks(w) == exec[w].mark \/ exec[w].event \in Marking

\* (Mutant) The update asks for a running job and not for its owner.
Checkpoint_Unfenced(w) ==
  LET j == exec[w].job IN
  /\ exec[w].pc = "checkpoint"
  /\ jobs[j].status = "running"
  /\ jobs' = [jobs EXCEPT ![j] =
                [@ EXCEPT !.started = Marks(w), !.text = exec[w].text]]
  /\ exec' = [exec EXCEPT ![w] =
                [@ EXCEPT !.pc = AfterCheckpoint(exec[w].event),
                          !.mark = Marks(w)]]
  /\ UNCHANGED <<status, effects, log, quiet, approval, dispatch, request,
                 faults>>

Checkpoint(w) ==
  LET j == exec[w].job IN
  /\ exec[w].pc = "checkpoint"
  /\ Owns(w, j)
  /\ jobs' = [jobs EXCEPT ![j] =
                [@ EXCEPT !.started = Marks(w), !.text = exec[w].text]]
  /\ exec' = [exec EXCEPT ![w] =
                [@ EXCEPT !.pc = AfterCheckpoint(exec[w].event),
                          !.mark = Marks(w)]]
  /\ UNCHANGED <<status, effects, log, quiet, approval, dispatch, request,
                 faults>>

LoseCheckpoint(w) ==
  /\ exec[w].pc = "checkpoint"
  /\ IF Owns(w, exec[w].job) THEN Fault ELSE UNCHANGED faults
  /\ Throw(w)
  /\ UNCHANGED <<status, effects, log, quiet, jobs, approval, dispatch>>

\* A tool runs only for a running run, and maxModelToolCalls times at most.
Callable(w) == status = "running" /\ exec[w].calls < MaxToolCalls

\* The model's tool call (executeForRun): answered (after reasoning the message
\* starts again), failed or refused, left to an approval, or queued for an
\* external worker.
RunTool(w) ==
  /\ exec[w].pc = "tool"
  /\ \/ /\ Callable(w)
        /\ \E pc \in {"stream", "begin"} :
             exec' = [exec EXCEPT ![w] = [@ EXCEPT !.pc = pc,
                                                   !.calls = exec[w].calls + 1]]
        /\ UNCHANGED <<approval, dispatch, log>>
     \/ Step(w, "failing") /\ UNCHANGED <<approval, dispatch, log>>
     \/ /\ Callable(w)
        /\ exec' = [exec EXCEPT ![w] = [@ EXCEPT !.pc = "suspend",
                                          !.event = "run.waiting_tool_approval"]]
        /\ "approval" \in Suspensions
        /\ approval = "none"
        /\ approval' = "pending"
        /\ log' = Assigned(w)
        /\ UNCHANGED dispatch
     \/ /\ Callable(w)
        /\ exec' = [exec EXCEPT ![w] = [@ EXCEPT !.pc = "suspend",
                                          !.event = "run.waiting_tool_dispatch"]]
        /\ "dispatch" \in Suspensions
        /\ dispatch = "none"
        /\ dispatch' = "queued"
        /\ log' = Assigned(w)
        /\ UNCHANGED approval
  /\ UNCHANGED <<status, effects, quiet, jobs, request, faults>>

\* (Mutant) Nothing is written to the run.
Suspend_Unmarked(w) ==
  /\ exec[w].pc = "suspend"
  /\ Step(w, "checkpoint")
  /\ UNCHANGED <<status, effects, log, quiet, jobs, approval, dispatch, request,
                 faults>>

\* markWaiting or markQueued: updateRun does not look at the run's status.
Suspend(w) ==
  /\ exec[w].pc = "suspend"
  /\ status' = IF exec[w].event = "run.waiting_tool_approval"
               THEN "waiting_tool_approval" ELSE "queued"
  /\ Step(w, "checkpoint")
  /\ UNCHANGED <<effects, log, quiet, jobs, approval, dispatch, request, faults>>

\* executionState.finish deletes the checkpoint with the job's last write, and
\* returns the job unchanged when the lease was lost.  Lease and mark of a
\* settled job are read by nobody.
Closed(j) == [jobs EXCEPT ![j] = [NoJob EXCEPT !.status = "settled"]]

Finish(w) ==
  LET j == exec[w].job IN
  /\ exec[w].pc = "finish"
  /\ (Owns(w, j) /\ jobs' = Closed(j)) \/ UNCHANGED jobs
  /\ exec' = [exec EXCEPT ![w] =
                IF @.event \in Waiting
                THEN [NoExec EXCEPT !.pc = "announce", !.event = exec[w].event]
                ELSE NoExec]
  /\ UNCHANGED <<status, effects, log, quiet, approval, dispatch, request,
                 faults>>

Announce(w) ==
  /\ exec[w].pc = "announce"
  /\ PersistAssigned(w, exec[w].event)
  /\ exec' = [exec EXCEPT ![w] = NoExec]
  /\ UNCHANGED <<status, effects, jobs, approval, dispatch, request, faults>>

\* A heartbeat renews the lease and leaves the row it wrote as executionJob: at
\* once, or after the answer to a later checkpoint.  (The renewal that fails is
\* the abort in Complete.)
Renew(w) ==
  LET j == exec[w].job IN
  /\ Executing(w)
  /\ Owns(w, j)
  /\ \/ /\ exec' = [exec EXCEPT ![w] = [@ EXCEPT !.mark = jobs[j].started]]
        /\ UNCHANGED faults
     \/ /\ Fault
        /\ exec' = [exec EXCEPT ![w] =
                      [@ EXCEPT !.late = exec[w].late \cup {jobs[j].started}]]
  /\ UNCHANGED <<status, effects, log, quiet, jobs, approval, dispatch, request>>

LateRenewal(w) ==
  /\ \E mark \in exec[w].late :
       exec' = [exec EXCEPT ![w] = [@ EXCEPT !.mark = mark,
                                             !.late = exec[w].late \ {mark}]]
  /\ UNCHANGED <<status, effects, log, quiet, jobs, approval, dispatch, request,
                 faults>>

-----------------------------------------------------------------------------
(* RunTerminalService.cancel                                                *)

CancelRead(w) ==
  /\ Free(w)
  /\ status \notin Settled
  /\ request' = [request EXCEPT ![w] = [Serving("cancel") EXCEPT !.seen = status]]
  /\ exec' = [exec EXCEPT ![w] =
                [@ EXCEPT !.aborted = exec[w].aborted \/ Executing(w)]]
  /\ UNCHANGED <<status, effects, log, quiet, jobs, approval, dispatch, faults>>

\* One transaction; it withdraws the dispatch of a run that was read as queued.
CancelCommit(w) ==
  /\ request[w].pc = "cancel"
  /\ \/ /\ Settle("cancelled", "run.cancelled")
        /\ dispatch' = IF /\ request[w].seen = "queued"
                          /\ dispatch \in {"queued", "claimed"}
                       THEN "withdrawn" ELSE dispatch
     \/ (AlreadySettled \/ SettleThrows) /\ UNCHANGED dispatch
  /\ request' = [request EXCEPT ![w] = NoRequest]
  /\ UNCHANGED <<jobs, approval, exec, faults>>

-----------------------------------------------------------------------------
(* Tool approvals: ToolApprovalCommandService.decide, executeRunTool and    *)
(* RunContinuationService.                                                  *)

Approve ==
  /\ approval = "pending"
  /\ approval' = "approved"
  /\ UNCHANGED <<status, effects, log, quiet, jobs, dispatch, exec, request,
                 faults>>

\* One transaction: a waiting run is cancelled with its events and nothing else.
Deny ==
  /\ approval = "pending"
  /\ approval' = "denied"
  /\ IF status = "waiting_tool_approval"
     THEN /\ status' = "cancelled"
          /\ Persist("run.cancelled")
     ELSE UNCHANGED <<status, log, quiet>>
  /\ UNCHANGED <<effects, jobs, dispatch, exec, request, faults>>

\* executeRunTool with the approval: the tool runs in this process, or it is
\* queued for an external worker.
ExecuteApproved(w) ==
  /\ Free(w)
  /\ approval = "approved"
  /\ status \in {"running", "waiting_tool_approval"}
  /\ approval' = "consumed"
  /\ \/ request' = [request EXCEPT ![w] = Serving("resume")] /\ UNCHANGED dispatch
     \/ /\ "dispatch" \in Suspensions
        /\ dispatch = "none"
        /\ dispatch' = "queued"
        /\ request' = [request EXCEPT ![w] = Serving("await")]
  /\ UNCHANGED <<status, effects, log, quiet, jobs, exec, faults>>

\* resumeAfterApprovedTool and resumeAfterDispatchRequestReadback read the run.
ResumeRead(w) ==
  /\ request[w].pc \in {"resume", "readback"}
  /\ LET expected == IF request[w].pc = "resume"
                     THEN "waiting_tool_approval" ELSE "queued" IN
     request' = [request EXCEPT ![w] = IF status = expected
                                       THEN Serving("continue") ELSE NoRequest]
  /\ UNCHANGED <<status, effects, log, quiet, jobs, approval, dispatch, exec,
                 faults>>

\* markContinuing (one transaction, no look at the status) and execute, with the
\* text the events show as assistantContentPrefix.
Continue(w) ==
  /\ request[w].pc = "continue"
  /\ exec[w].pc = "idle"
  /\ status' = "running"
  /\ Persist("run.continuing")
  /\ exec' = [exec EXCEPT ![w] =
                [NoExec EXCEPT !.pc = "list", !.part = log.written,
                               !.text = log.shown]]
  /\ request' = [request EXCEPT ![w] = NoRequest]
  /\ UNCHANGED <<effects, jobs, approval, dispatch, faults>>

\* waitForDispatchRequest: read, updateRun, and the event (the dispatch request
\* is new, so no event of it can be there yet).
AwaitRead(w) ==
  /\ request[w].pc = "await"
  /\ request' = [request EXCEPT ![w] = IF status \in Settled
                                       THEN NoRequest ELSE Serving("requeue")]
  /\ UNCHANGED <<status, effects, log, quiet, jobs, approval, dispatch, exec,
                 faults>>

Requeue(w) ==
  /\ request[w].pc = "requeue"
  /\ status' = "queued"
  /\ request' = [request EXCEPT ![w] = Serving("announce")]
  /\ UNCHANGED <<effects, log, quiet, jobs, approval, dispatch, exec, faults>>

AnnounceDispatch(w) ==
  /\ request[w].pc = "announce"
  /\ Persist("run.waiting_tool_dispatch")
  /\ request' = [request EXCEPT ![w] = NoRequest]
  /\ UNCHANGED <<status, effects, jobs, approval, dispatch, exec, faults>>

-----------------------------------------------------------------------------
(* The dispatch request (tool-operation-dispatch-requests.ts), as far as    *)
(* the run depends on it.                                                   *)

ClaimDispatch ==
  /\ dispatch = "queued"
  /\ dispatch' = "claimed"
  /\ UNCHANGED <<status, effects, log, quiet, jobs, approval, exec, request,
                 faults>>

\* The worker's complete or fail, then the readback in the same HTTP request.
AnswerDispatch(w) ==
  /\ Free(w)
  /\ dispatch = "claimed"
  /\ dispatch' = "answered"
  /\ request' = [request EXCEPT ![w] = Serving("readback")]
  /\ UNCHANGED <<status, effects, log, quiet, jobs, approval, exec, faults>>

\* An operator cancels or expires the dispatch request: no readback follows.
WithdrawDispatch ==
  /\ dispatch \in {"queued", "claimed"}
  /\ dispatch' = "withdrawn"
  /\ UNCHANGED <<status, effects, log, quiet, jobs, approval, exec, request,
                 faults>>

-----------------------------------------------------------------------------
(* RunRecoveryCoordinator.recover, run by any reader of the chat            *)

\* listRuns, for reconcileSettledExecutions: what the run was read as decides, for
\* a queued run (settledExecutionOutcome) with its events.
ReconcileRead(w) ==
  /\ Free(w)
  /\ status # "running"
  /\ request' = [request EXCEPT ![w] =
                   Serving(IF status = "queued" THEN "events" ELSE "newest")]
  /\ UNCHANGED <<status, effects, log, quiet, jobs, approval, dispatch, exec,
                 faults>>

ReconcileEvents(w) ==
  /\ request[w].pc = "events"
  /\ request' = [request EXCEPT ![w] =
                   IF "run.waiting_tool_dispatch" \in log.seen
                   THEN Serving("newest") ELSE NoRequest]
  /\ UNCHANGED <<status, effects, log, quiet, jobs, approval, dispatch, exec,
                 faults>>

\* The newest active job is listed.
ReconcileList(w) ==
  /\ request[w].pc = "newest"
  /\ \/ \E j \in JobId :
          /\ Newest(j, ActiveJobs)
          /\ request' = [request EXCEPT ![w] =
                           [Serving("reconcile") EXCEPT !.job = j]]
     \/ ActiveJobs = {} /\ request' = [request EXCEPT ![w] = NoRequest]
  /\ UNCHANGED <<status, effects, log, quiet, jobs, approval, dispatch, exec,
                 faults>>

\* claimBackgroundJob by type takes the oldest claimable job.
Seizable == {j \in JobId : Claimable(j)}

ReconcileClaim(w) ==
  /\ request[w].pc = "reconcile"
  /\ \/ \E j \in JobId :
          /\ Oldest(j, Seizable)
          /\ jobs' = Claimed(j, w)
          /\ exec' = Ceded(j)
          /\ request' = [request EXCEPT ![w] =
                           IF j = @.job THEN [@ EXCEPT !.pc = "close"]
                           ELSE NoRequest]
     \/ /\ Seizable = {}
        /\ request' = [request EXCEPT ![w] = NoRequest]
        /\ UNCHANGED <<jobs, exec>>
  /\ UNCHANGED <<status, effects, log, quiet, approval, dispatch, faults>>

CloseJob(w) ==
  LET j == request[w].job IN
  /\ request[w].pc = "close"
  /\ (Owns(w, j) /\ jobs' = Closed(j)) \/ UNCHANGED jobs
  /\ request' = [request EXCEPT ![w] = NoRequest]
  /\ UNCHANGED <<status, effects, log, quiet, approval, dispatch, exec, faults>>

\* recover: the run is read as running, and later, unless this process executes
\* it, its last event as old.
RecoverRead(w) ==
  /\ Free(w)
  /\ status = "running"
  /\ request' = [request EXCEPT ![w] = Serving("recover")]
  /\ UNCHANGED <<status, effects, log, quiet, jobs, approval, dispatch, exec,
                 faults>>

RecoverEvents(w) ==
  /\ request[w].pc = "recover"
  /\ request' = [request EXCEPT ![w] = IF quiet /\ ~Executing(w)
                                       THEN Serving("examine") ELSE NoRequest]
  /\ UNCHANGED <<status, effects, log, quiet, jobs, approval, dispatch, exec,
                 faults>>

\* The newest active job decides: without one the run fails, before output it is
\* executed again, after output (or with an unreadable checkpoint) it is seized.
Examine(w) ==
  /\ request[w].pc = "examine"
  /\ \/ /\ ActiveJobs = {}
        /\ request' = [request EXCEPT ![w] = Serving("fail")]
        /\ UNCHANGED <<exec, faults>>
     \/ \E j \in JobId :
          /\ Newest(j, ActiveJobs)
          /\ ~jobs[j].started
          /\ exec[w].pc = "idle"
          /\ exec' = [exec EXCEPT ![w] =
                        [NoExec EXCEPT !.pc = "list", !.retry = TRUE,
                                       !.part = jobs[j].part,
                                       !.text = jobs[j].text]]
          /\ request' = [request EXCEPT ![w] = NoRequest]
          /\ UNCHANGED faults
     \/ \E j \in JobId :
          /\ Newest(j, ActiveJobs)
          /\ IF jobs[j].started THEN UNCHANGED faults ELSE Fault
          /\ request' = [request EXCEPT ![w] = Serving("seize")]
          /\ UNCHANGED exec
  /\ UNCHANGED <<status, effects, log, quiet, jobs, approval, dispatch>>

Seize(w) ==
  /\ request[w].pc = "seize"
  /\ \/ \E j \in JobId :
          /\ Oldest(j, Seizable)
          /\ jobs' = Claimed(j, w)
          /\ exec' = Ceded(j)
          /\ request' = [request EXCEPT ![w] =
                           [Serving("fail") EXCEPT !.job = j]]
     \/ /\ Seizable = {}
        /\ request' = [request EXCEPT ![w] = NoRequest]
        /\ UNCHANGED <<jobs, exec>>
  /\ UNCHANGED <<status, effects, log, quiet, approval, dispatch, faults>>

FailRun(w) ==
  /\ request[w].pc = "fail"
  /\ \/ /\ Settle("failed", "run.failed") \/ AlreadySettled
        /\ request' = [request EXCEPT ![w] =
                         IF @.job = 0 THEN NoRequest
                         ELSE [@ EXCEPT !.pc = "close"]]
     \/ SettleThrows /\ request' = [request EXCEPT ![w] = NoRequest]
  /\ UNCHANGED <<jobs, approval, dispatch, exec, faults>>

-----------------------------------------------------------------------------
(* Time and failures                                                        *)

\* leaseSeconds pass without a renewal that reaches the database: a fault when a
\* process is there to renew the lease.
Heartbeating(j) ==
  \E w \in Worker : Executing(w) /\ exec[w].job = j /\ Owns(w, j)

Lapse(j) ==
  /\ jobs[j].status = "running"
  /\ jobs[j].live
  /\ IF Heartbeating(j) THEN Fault ELSE UNCHANGED faults
  /\ jobs' = [jobs EXCEPT ![j] = [@ EXCEPT !.live = FALSE]]
  /\ UNCHANGED <<status, effects, log, quiet, approval, dispatch, exec, request>>

\* runRecoveryStaleMs pass without an event: of a running run, or of one that was
\* running when a recovery has read it.
GoQuiet ==
  /\ status = "running" \/ \E w \in Worker : request[w].pc = "recover"
  /\ ~quiet
  /\ quiet' = TRUE
  /\ UNCHANGED <<status, effects, log, jobs, approval, dispatch, exec, request,
                 faults>>

\* The process dies, or a call of the execution or of the request rejects.
Crash(w) ==
  /\ Fault
  /\ exec[w].pc # "idle" \/ request[w].pc # "idle"
  /\ \/ Throw(w)
     \/ request' = [request EXCEPT ![w] = NoRequest] /\ UNCHANGED exec
  /\ UNCHANGED <<status, effects, log, quiet, jobs, approval, dispatch>>

-----------------------------------------------------------------------------
Execution(w) ==
  \/ ClaimList(w) \/ CreateJob(w) \/ TakeJob(w)
  \/ Begin(w) \/ SecretsReject(w) \/ Delta(w) \/ ToolCall(w)
  \/ Checkpoint(w) \/ LoseCheckpoint(w)
  \/ RunTool(w) \/ Suspend(w) \/ Finish(w) \/ Announce(w) \/ Complete(w)

Serve(w) ==
  \/ CancelCommit(w)
  \/ ResumeRead(w) \/ Continue(w)
  \/ AwaitRead(w) \/ Requeue(w) \/ AnnounceDispatch(w)
  \/ ReconcileClaim(w) \/ CloseJob(w)
  \/ Examine(w) \/ Seize(w) \/ FailRun(w)

Client(w) == CancelRead(w) \/ ExecuteApproved(w) \/ AnswerDispatch(w)

Look(w) == ReconcileEvents(w) \/ ReconcileList(w) \/ RecoverEvents(w)

Recovery(w) == ReconcileRead(w) \/ RecoverRead(w) \/ Look(w)

Next ==
  \/ \E w \in Worker :
       \/ Execution(w) \/ Serve(w) \/ Client(w) \/ Recovery(w)
       \/ Renew(w) \/ LateRenewal(w) \/ Crash(w)
  \/ Approve \/ Deny \/ ClaimDispatch \/ WithdrawDispatch
  \/ \E j \in JobId : Lapse(j)
  \/ GoQuiet

Spec == Init /\ [][Next]_vars

\* Calls return; time passes for a job nobody heartbeats and for a run nobody
\* writes; somebody keeps reading the chat in a process that does not execute it.
Fairness ==
  /\ \A w \in Worker : WF_vars(Execution(w)) /\ WF_vars(Serve(w)) /\ WF_vars(Look(w))
  /\ \A j \in JobId : WF_vars(Lapse(j) /\ ~Heartbeating(j))
  /\ WF_vars(GoQuiet)
  /\ WF_vars(\E w \in Worker : RecoverRead(w) /\ ~Executing(w))

FairSpec == Spec /\ Fairness

-----------------------------------------------------------------------------
\* The terminal effects of a run (event, usage, audit row, assistant message,
\* webhook job) are committed at most once, and a run that ended otherwise than
\* by a denied tool approval has them.
TerminalEffectsOnce ==
  /\ effects <= 1
  /\ status \in Settled => effects = 1 \/ approval = "denied"

\* While the claim under which a tool runs is the last one, the job says in the
\* database that output has started, so the recovery that reads the job will not
\* execute the run again.
ToolRunIsMarked ==
  \A w \in Worker :
    /\ exec[w].pc \in {"tool", "suspend", "failing"}
    /\ Owns(w, exec[w].job)
    /\ ~exec[w].ceded
    => jobs[exec[w].job].started

\* The checkpoint of an execution whose claim is the last one holds the answer as
\* the execution has it: no other process writes into it, and a crash now costs
\* at most the part in hand.
CheckpointIsCurrent ==
  \A w \in Worker :
    /\ exec[w].pc \in {"begin", "stream", "tool", "suspend", "failing"}
    /\ Owns(w, exec[w].job)
    /\ ~exec[w].ceded
    => jobs[exec[w].job].text = exec[w].text

\* No execution job is closed while the run it executes is still running: the
\* recovery would take such a run for one that never started.
ClosedJobLeftRunning ==
  (\E j \in JobId : jobs[j].status = "settled")
     => status # "running" \/ "run.continuing" \in log.seen

\* A running run without terminal effects stops running, whatever crashes.
OrphanSettles ==
  (status = "running" /\ effects = 0) ~> (status # "running" \/ effects = 1)
=============================================================================
