--------------------------- MODULE PolicyApproval ---------------------------
(***************************************************************************)
(* The content-policy pause of one run: RunPolicyApprovalLifecycle (pause, *)
(* approve, deny, expire, resume) beside the execution that pauses, the    *)
(* recovery and the cancellation of the run, on several server processes.  *)
(*                                                                         *)
(* Transactions are read committed: pause and approve read the run, decide *)
(* and write its status without a condition, so each is a read and a       *)
(* commit here.  The UPDATE of the approval row locks it until its         *)
(* transaction ends.  The answer is a sequence of parts; a text is the     *)
(* number of the last part it holds.                                       *)
(*                                                                         *)
(* Completed, failed and cancelled are one status, "ended", and waiting    *)
(* stands for waiting_tool_approval: no tool call waits in this module.    *)
(***************************************************************************)
EXTENDS Naturals

CONSTANTS
  Process,       \* server processes
  None,
  MaxParts,      \* bound on the parts of the answer
  MaxApprovals,  \* bound on the pauses of the run
  MaxFaults      \* bound on crashes and stalls

ASSUME MaxPartsAssumption == MaxParts \in Nat
ASSUME MaxApprovalsAssumption == MaxApprovals \in Nat
ASSUME MaxFaultsAssumption == MaxFaults \in Nat
ASSUME NoneAssumption == None \notin Process

Approval == 1 .. MaxApprovals
NoApproval == 0

VARIABLES
  status,     \* of the run
  effects,    \* commits of its terminal transaction
  approvals,  \* state of each approval row
  overdue,    \* pending approvals whose expiresAt has passed
  blocked,    \* those that expireDue does not get to
  job,        \* the execution job of the run
  exec,       \* the execution of the run in each process
  request,    \* the request on the run that each process serves
  quiet,      \* no event of the run for runRecoveryStaleMs
  repeated,   \* a part of the answer was logged twice
  contended,  \* two processes granted one approval and both resumed the run, or
              \* one executed it after its job was closed
  faults      \* crashes and stalls so far

run == <<status, effects, quiet>>
due == <<overdue, blocked>>
world == <<contended, faults>>
vars == <<run, approvals, due, job, exec, request, repeated, world>>

Refused == {"denied", "expired"}
NoExec == [pc |-> "idle", text |-> 0, next |-> 1, aborted |-> FALSE]
Job == [status : {"queued", "running", "closed"}, owner : Process \cup {None},
        live : BOOLEAN, started : BOOLEAN, text : 0 .. MaxParts,
        approval : Approval \cup {NoApproval}]

\* What a request keeps across its awaits: the approval it decides, the job it
\* has read, the status it has read, whether it has claimed the job.
NoJob == [status |-> "closed", owner |-> None, live |-> FALSE,
          started |-> FALSE, text |-> 0, approval |-> NoApproval]
NoRequest == [pc |-> "idle", approval |-> NoApproval, copy |-> NoJob,
              seen |-> "running", claimed |-> FALSE]

\* Types, and the terminal transaction commits at most once.
TypeOK ==
  /\ status \in {"running", "waiting", "ended"}
  /\ effects \in 0 .. 1
  /\ approvals \in [Approval -> {"absent", "pending", "approved"} \cup Refused]
  /\ {overdue, blocked} \subseteq SUBSET Approval
  /\ job \in Job
  /\ exec \in [Process -> [pc : {"idle", "claim", "stream", "logged", "held",
                                 "pause", "finish"},
                           text : 0 .. MaxParts, next : 1 .. MaxParts + 1,
                           aborted : BOOLEAN]]
  /\ request \in [Process ->
       [pc : {"idle", "decide", "approve", "resume", "cancel", "examine", "seize", "fail",
              "settle", "close"},
        approval : Approval \cup {NoApproval}, copy : Job,
        seen : {"running", "waiting", "ended"}, claimed : BOOLEAN]]
  /\ {quiet, repeated, contended} \subseteq BOOLEAN
  /\ faults \in 0 .. MaxFaults

\* A process has started the run, claimed its job and opened the stream.
Init ==
  /\ status = "running"
  /\ effects = 0
  /\ approvals = [a \in Approval |-> "absent"]
  /\ overdue = {}
  /\ blocked = {}
  /\ \E w \in Process :
       /\ job = [NoJob EXCEPT !.status = "running", !.owner = w, !.live = TRUE]
       /\ exec = [p \in Process |->
                    IF p = w THEN [NoExec EXCEPT !.pc = "stream"] ELSE NoExec]
  /\ request = [p \in Process |-> NoRequest]
  /\ quiet = FALSE
  /\ repeated = FALSE
  /\ contended = FALSE
  /\ faults = 0

-----------------------------------------------------------------------------
Higher(m, n) == IF m < n THEN n ELSE m

Fault == faults < MaxFaults /\ faults' = faults + 1

\* The leased calls of w go through.
Owns(w) == job.status = "running" /\ job.owner = w /\ job.live

\* (Mutant) A job that a dead process left running is never claimed again.
Claimable_QueuedOnly == job.status = "queued"

Claimable == job.status = "queued" \/ (job.status = "running" /\ ~job.live)

Claimed(w) == [job EXCEPT !.status = "running", !.owner = w, !.live = TRUE]

\* A job keeps its lease in its payload; it counts while the job runs.
Released(j, s) == [j EXCEPT !.status = s, !.owner = None, !.live = FALSE]

\* A new job, with the answer that the execution was given.
Opened(w) == [NoJob EXCEPT !.status = "running", !.owner = w, !.live = TRUE,
                           !.started = exec[w].text > 0, !.text = exec[w].text]

\* (Mutant) The guarded UPDATE of finalizeRun sets the status and the caller
\* leaves usage, audit row, message and outbox job out.
Finalize_StatusOnly == status' = "ended" /\ quiet' = FALSE /\ UNCHANGED effects

\* persistTerminalRunInRepository: nothing for a run that has ended.
Finalize ==
  IF status = "ended"
  THEN UNCHANGED run
  ELSE status' = "ended" /\ effects' = effects + 1 /\ quiet' = FALSE

\* It throws when the ids of the audit row and the outbox job are taken.
FinalizeThrows == status # "ended" /\ effects > 0

GoTo(w, pc) == exec' = [exec EXCEPT ![w].pc = pc]
Leave(w) == exec' = [exec EXCEPT ![w] = NoExec]
Reply(w) == request' = [request EXCEPT ![w] = NoRequest]
Proceed(w, pc) == request' = [request EXCEPT ![w].pc = pc]

-----------------------------------------------------------------------------
\* claim: the job and the text so far, a job of its own when the run has none
\* left; a process that cannot have it goes away.  The part to come next was
\* settled by what the provider is told.
Claim(w) ==
  /\ exec[w].pc = "claim"
  /\ IF Claimable \/ job.status = "closed"
     THEN /\ job' = IF Claimable THEN Claimed(w) ELSE Opened(w)
          /\ exec' = [exec EXCEPT ![w].pc = "stream", ![w].text = job'.text]
     ELSE Leave(w) /\ UNCHANGED job
  /\ contended' = (contended \/ job.status = "closed")
  /\ UNCHANGED <<run, approvals, due, request, repeated, faults>>

\* A part passes the policy and is appended to the event log.
Deliver(w) ==
  /\ exec[w].pc = "stream"
  /\ ~exec[w].aborted
  /\ exec[w].next <= MaxParts
  /\ repeated' = (repeated \/ exec[w].next <= exec[w].text)
  /\ exec' = [exec EXCEPT ![w].pc = "logged", ![w].next = @ + 1,
                          ![w].text = Higher(@, exec[w].next)]
  /\ quiet' = FALSE
  /\ UNCHANGED <<status, effects, approvals, due, job, request, world>>

Checkpointed(w) == [job EXCEPT !.started = TRUE, !.text = exec[w].text]

\* Its checkpoint, which rejects when the lease is lost.
Checkpoint(w) ==
  /\ exec[w].pc = "logged"
  /\ IF Owns(w)
     THEN job' = Checkpointed(w) /\ GoTo(w, "stream")
     ELSE Leave(w) /\ UNCHANGED job
  /\ UNCHANGED <<run, approvals, due, request, repeated, world>>

\* The policy holds the answer back: pause writes the checkpoint,
PauseCheckpoint(w) ==
  /\ exec[w].pc = "stream"
  /\ \E a \in Approval : approvals[a] = "absent"
  /\ IF Owns(w)
     THEN /\ job' = Checkpointed(w)
          /\ exec' = [exec EXCEPT ![w] = [NoExec EXCEPT !.pc = "held", !.aborted = exec[w].aborted]]
     ELSE Leave(w) /\ UNCHANGED job
  /\ UNCHANGED <<run, approvals, due, request, repeated, world>>

\* its transaction reads the run,
PauseRead(w) ==
  /\ exec[w].pc = "held"
  /\ IF status = "running" THEN GoTo(w, "pause") ELSE Leave(w)
  /\ UNCHANGED <<run, approvals, due, job, request, repeated, world>>

NextApproval(a) ==
  /\ approvals[a] = "absent"
  /\ \A b \in Approval : b < a => approvals[b] # "absent"

\* and commits the approval, the status and the release of the job, all of them
\* or nothing when the lease is lost.  The process forgets the execution.
PauseCommit(w) ==
  /\ exec[w].pc = "pause"
  /\ Leave(w)
  /\ \/ /\ Owns(w)
        /\ \E a \in Approval :
             /\ NextApproval(a)
             /\ approvals' = [approvals EXCEPT ![a] = "pending"]
             /\ job' = [Released(job, "queued") EXCEPT !.approval = a]
        /\ status' = "waiting"
        /\ quiet' = FALSE
        /\ UNCHANGED effects
     \/ /\ ~Owns(w) \/ \A a \in Approval : approvals[a] # "absent"
        /\ UNCHANGED <<run, approvals, job>>
  /\ UNCHANGED <<due, request, repeated, world>>

\* The stream ends, or is aborted, and complete finalises the run.
Complete(w) ==
  /\ exec[w].pc = "stream"
  /\ IF FinalizeThrows
     THEN Leave(w) /\ UNCHANGED run
     ELSE Finalize /\ exec' = [exec EXCEPT ![w] = [NoExec EXCEPT !.pc = "finish"]]
  /\ UNCHANGED <<approvals, due, job, request, repeated, world>>

Finish(w) ==
  /\ exec[w].pc = "finish"
  /\ job' = IF Owns(w) THEN Released(job, "closed") ELSE job
  /\ Leave(w)
  /\ UNCHANGED <<run, approvals, due, request, repeated, world>>

\* The heartbeat of an execution that has lost its job aborts it.
LoseLease(w) ==
  /\ exec[w].pc \notin {"idle", "claim", "finish"}
  /\ ~Owns(w)
  /\ ~exec[w].aborted
  /\ exec' = [exec EXCEPT ![w].aborted = TRUE]
  /\ UNCHANGED <<run, approvals, due, job, request, repeated, world>>

-----------------------------------------------------------------------------
Locked(a) ==
  \E w \in Process : request[w].pc = "approve" /\ request[w].approval = a

\* (Mutant) The UPDATE of the approval row is not made conditional on its state,
\* which the request has read before.
Open_AsRead(a) == approvals[a] = "pending"

\* transitionContentPolicyApproval finds the row as it expects it.
Open(a) == approvals[a] = "pending" /\ ~Locked(a)

Decided(a, s) ==
  /\ approvals' = [approvals EXCEPT ![a] = s]
  /\ overdue' = overdue \ {a}
  /\ blocked' = blocked \ {a}

\* resolve reads the approval: pending, and in time.
Decide(w, a) ==
  /\ request[w].pc = "idle"
  /\ approvals[a] = "pending"
  /\ a \notin overdue
  /\ request' = [request EXCEPT ![w] = [NoRequest EXCEPT !.pc = "decide", !.approval = a]]
  /\ UNCHANGED <<run, approvals, due, job, exec, repeated, world>>

\* approve: its transaction has the approval, and reads the run and the job.
ApproveRead(w) ==
  LET a == request[w].approval IN
  /\ request[w].pc = "decide"
  /\ Open(a)
  /\ IF status = "waiting" /\ job.approval = a
     THEN request' = [request EXCEPT ![w].pc = "approve", ![w].copy = job]
     ELSE Reply(w)
  /\ UNCHANGED <<run, approvals, due, job, exec, repeated, world>>

\* Or it comes too late.  An approval that another process has granted is
\* returned like its own, and the run is resumed again.
ApproveLate(w) ==
  LET a == request[w].approval IN
  /\ request[w].pc = "decide"
  /\ approvals[a] # "pending"
  /\ IF approvals[a] = "approved"
     THEN Proceed(w, "resume") /\ contended' = TRUE
     ELSE Reply(w) /\ UNCHANGED contended
  /\ UNCHANGED <<run, approvals, due, job, exec, repeated, faults>>

\* It writes the job as it read it, and the status.
ApproveCommit(w) ==
  LET a == request[w].approval IN
  /\ request[w].pc = "approve"
  /\ Decided(a, "approved")
  /\ job' = Released(request[w].copy, "queued")
  /\ status' = "running"
  /\ quiet' = FALSE
  /\ request' = [request EXCEPT ![w].pc = "resume", ![w].copy = NoJob]
  /\ UNCHANGED <<effects, exec, repeated, world>>

\* (Mutant) The provider is told the conversation without the answer so far.
Told_Conversation(text) == 1

\* The part the provider goes on with when the answer so far is in its messages.
Told(text) == text + 1

Executed(w, next) ==
  exec' = [exec EXCEPT ![w] = [NoExec EXCEPT !.pc = "claim", !.next = next, !.text = job.text]]

\* resumeApproved: execute with the checkpoint, unless the run has moved on.
Resume(w) ==
  /\ request[w].pc = "resume"
  /\ exec[w].pc = "idle"
  /\ IF /\ status = "running"
        /\ job.approval = request[w].approval
        /\ job.status # "closed"
     THEN Executed(w, Told(job.text))
     ELSE UNCHANGED exec
  /\ Reply(w)
  /\ UNCHANGED <<run, approvals, due, job, repeated, world>>

\* (Mutant) A refusal leaves the run waiting.
Terminate_LeavesRun(a, s) ==
  /\ Open(a)
  /\ Decided(a, s)
  /\ UNCHANGED run

\* (Mutant) A refusal of an approval whose run no longer waits is rejected.
Terminate_WaitingOnly(a, s) ==
  /\ Open(a)
  /\ status = "waiting"
  /\ Decided(a, s)
  /\ ~FinalizeThrows
  /\ Finalize

\* terminate: a transaction that fails a run that waits; when finalizing the
\* run throws, the approval stays as it is.
Terminate(a, s) ==
  /\ Open(a)
  /\ Decided(a, s)
  /\ IF status = "waiting"
     THEN ~FinalizeThrows /\ Finalize
     ELSE UNCHANGED run

\* The request of a denial has read the approval in time.
Deny(a) ==
  /\ Terminate(a, "denied")
  /\ UNCHANGED <<job, exec, request, repeated, world>>

\* expireDue, or a decision that comes too late.
Expire(a) ==
  /\ a \in overdue
  /\ Terminate(a, "expired")
  /\ UNCHANGED <<job, exec, request, repeated, world>>

\* expireDue goes through the approvals of the organisation in the order in which
\* they fell due, and ends at the first one that throws,
ExpireDue ==
  \E a \in overdue \ blocked :
    /\ \A b \in overdue : a <= b
    /\ Expire(a)

\* which may be that of another run that came back after its end.
Block(a) ==
  /\ a \in overdue \ blocked
  /\ blocked' = blocked \cup {a}
  /\ UNCHANGED <<run, approvals, overdue, job, exec, request, repeated, world>>

Elapse(a) ==
  /\ approvals[a] = "pending"
  /\ a \notin overdue
  /\ overdue' = overdue \cup {a}
  /\ UNCHANGED <<run, approvals, blocked, job, exec, request, repeated, world>>

-----------------------------------------------------------------------------
\* cancel reads the run, aborts the execution of its own process,
CancelRead(w) ==
  /\ request[w].pc = "idle"
  /\ status # "ended"
  /\ Proceed(w, "cancel")
  /\ exec' = IF exec[w].pc \in {"idle", "claim", "finish"}
             THEN exec ELSE [exec EXCEPT ![w].aborted = TRUE]
  /\ UNCHANGED <<run, approvals, due, job, repeated, world>>

\* and finalises the run.
CancelCommit(w) ==
  /\ request[w].pc = "cancel"
  /\ IF FinalizeThrows THEN UNCHANGED run ELSE Finalize
  /\ Reply(w)
  /\ UNCHANGED <<approvals, due, job, exec, repeated, world>>

\* recover finds a run that runs, that its process does not execute, and that
\* has logged nothing for long.
RecoverRead(w) ==
  /\ request[w].pc = "idle"
  /\ status = "running"
  /\ exec[w].pc \in {"idle", "claim"}
  /\ quiet
  /\ Proceed(w, "examine")
  /\ UNCHANGED <<run, approvals, due, job, exec, repeated, world>>

\* Executed again: a run without output, or one that was held back before.
Retryable == job.status # "closed" /\ (~job.started \/ job.approval # NoApproval)

Examine(w) ==
  /\ request[w].pc = "examine"
  /\ exec[w].pc = "idle"
  /\ IF Retryable
     THEN Executed(w, 1) /\ Reply(w)
     ELSE /\ UNCHANGED exec
          /\ Proceed(w, IF job.status = "closed" THEN "fail" ELSE "seize")
  /\ UNCHANGED <<run, approvals, due, job, repeated, world>>

Seize(w) ==
  /\ request[w].pc = "seize"
  /\ IF Claimable
     THEN /\ job' = Claimed(w)
          /\ request' = [request EXCEPT ![w].pc = "fail", ![w].claimed = TRUE]
     ELSE Reply(w) /\ UNCHANGED job
  /\ UNCHANGED <<run, approvals, due, exec, repeated, world>>

FailRun(w) ==
  /\ request[w].pc = "fail"
  /\ IF FinalizeThrows
     THEN Reply(w) /\ UNCHANGED run
     ELSE /\ Finalize
          /\ IF request[w].claimed THEN Proceed(w, "close") ELSE Reply(w)
  /\ UNCHANGED <<approvals, due, job, exec, repeated, world>>

\* reconcileSettledExecutions finds a run that ended, or waits,
ReconcileRead(w) ==
  /\ request[w].pc = "idle"
  /\ status # "running"
  /\ request' = [request EXCEPT ![w].pc = "settle", ![w].seen = status]
  /\ UNCHANGED <<run, approvals, due, job, exec, repeated, world>>

\* (Mutant) It closes the job of a run that waits for a policy approval too.
Kept_Never(seen) == FALSE

\* It leaves the job of a run that waits for a policy approval alone.
Kept(seen) == seen = "waiting" /\ job.approval # NoApproval

\* and claims its job to close it.
Reconcile(w) ==
  /\ request[w].pc = "settle"
  /\ IF Claimable /\ ~Kept(request[w].seen)
     THEN job' = Claimed(w) /\ Proceed(w, "close")
     ELSE Reply(w) /\ UNCHANGED job
  /\ UNCHANGED <<run, approvals, due, exec, repeated, world>>

\* finishExecution of a job that a recovery claimed.
CloseJob(w) ==
  /\ request[w].pc = "close"
  /\ job' = IF Owns(w) THEN Released(job, "closed") ELSE job
  /\ Reply(w)
  /\ UNCHANGED <<run, approvals, due, exec, repeated, world>>

-----------------------------------------------------------------------------
\* Somebody works on the job and keeps its lease.
Busy == \E w \in Process : \/ exec[w].pc \notin {"idle", "claim"} /\ Owns(w)
                           \/ request[w].pc \in {"fail", "close"} /\ Owns(w)

Lapse ==
  /\ job.status = "running"
  /\ job.live
  /\ IF Busy THEN Fault ELSE UNCHANGED faults
  /\ job' = [job EXCEPT !.live = FALSE]
  /\ UNCHANGED <<run, approvals, due, exec, request, repeated,
                 contended>>

\* runRecoveryStaleMs pass without an event: a fault while somebody produces one
\* or is about to.
GoQuiet ==
  /\ status = "running"
  /\ ~quiet
  /\ quiet' = TRUE
  /\ IF \E w \in Process : exec[w].pc # "idle" \/ request[w].pc = "resume"
     THEN Fault ELSE UNCHANGED faults
  /\ UNCHANGED <<status, effects, approvals, due, job, exec, request, repeated,
                 contended>>

\* A process dies, or a call of its execution or of its request rejects.  A
\* transaction that is cut off leaves nothing.
Crash(w) ==
  /\ Fault
  /\ exec[w].pc # "idle" \/ request[w].pc # "idle"
  /\ \/ Leave(w) /\ UNCHANGED request
     \/ Reply(w) /\ UNCHANGED exec
     \/ Leave(w) /\ Reply(w)
  /\ UNCHANGED <<run, approvals, due, job, repeated,
                 contended>>

ExecStep(w) ==
  \/ Claim(w) \/ Deliver(w) \/ Checkpoint(w) \/ PauseCheckpoint(w)
  \/ PauseRead(w) \/ PauseCommit(w) \/ Complete(w) \/ Finish(w)

RequestStep(w) ==
  \/ ApproveRead(w) \/ ApproveLate(w) \/ ApproveCommit(w) \/ Resume(w)
  \/ CancelCommit(w) \/ Examine(w) \/ Seize(w) \/ FailRun(w) \/ Reconcile(w)
  \/ CloseJob(w)

Next ==
  \/ \E w \in Process :
       \/ ExecStep(w) \/ RequestStep(w) \/ LoseLease(w) \/ CancelRead(w)
       \/ RecoverRead(w) \/ ReconcileRead(w) \/ Crash(w)
       \/ \E a \in Approval : Decide(w, a)
  \/ \E a \in Approval : Deny(a) \/ Expire(a) \/ Elapse(a) \/ Block(a)
  \/ Lapse
  \/ GoQuiet

Spec == Init /\ [][Next]_vars

\* Awaits return, a lease nobody renews runs out, time passes, somebody reads
\* the chat, and an administrator lists the approvals.
FairSpec ==
  /\ Spec
  /\ \A w \in Process : WF_vars(ExecStep(w)) /\ WF_vars(RequestStep(w))
  /\ WF_vars(Lapse)
  /\ WF_vars(GoQuiet)
  /\ WF_vars(\E w \in Process : RecoverRead(w))
  /\ WF_vars(\E a \in Approval : Elapse(a))
  /\ WF_vars(ExpireDue)

-----------------------------------------------------------------------------
Current(a) == job.approval = a /\ approvals[a] = "pending"

\* No crash or stall so far, no approval granted by two processes at once, and no
\* execution that outlived its job.
Undisturbed == faults = 0 /\ ~contended

\* And the run has never ended (EndedStaysEnded).
Orderly == Undisturbed /\ effects = 0

\* A run that ended, on whichever of the paths of this module, has committed
\* usage, audit row, message and outbox job, all of them once: pause, denial,
\* expiry, cancellation, recovery and completion race for the end of the run.
EndedWithEffects == status = "ended" => effects = 1

\* While a run that never ended waits for a decision, the decision can have its
\* effect: it is pending, the job bears its id, and nobody has claimed or closed
\* the job, neither a reconciliation of settled runs nor an execution.  A stall,
\* which lets a recovery look at the run before the pause, breaks it, and so does
\* the second approver of an earlier pause, who executes the run once more.
HeldUntilDecided ==
  status = "waiting" /\ Orderly =>
    job.status = "queued" /\ \E a \in Approval : Current(a)

\* A denied or expired approval has ended its run, unless a stall, or an approval
\* granted twice, had the run executed while it waited: two decisions, an expiry
\* and a cancellation race.
RefusedHasEnded ==
  Undisturbed => \A a \in Approval : approvals[a] \in Refused => status = "ended"

\* The answer that an approval lets go on takes up where it was held: no part is
\* logged twice, unless a crash or a stall had the recovery start over, two
\* processes granted one approval (GrantedOnce), or the run came back after its
\* end (EndedStaysEnded).
NothingRepeated == Orderly => ~repeated

\* At most one process executes the run, unless one has crashed or stalled or two
\* have granted one approval: the approval puts the job back in the queue without
\* a look at its owner.
OneExecution ==
  Orderly =>
    \A v, w \in Process :
      exec[v].pc \notin {"idle", "claim"} /\ exec[w].pc \notin {"idle", "claim"} =>
        v = w \/ exec[v].aborted \/ exec[w].aborted

\* A run that runs, after an approval too, ends or is held back again, whatever
\* crash or stall comes between the approval and the execution it resumes.
RunGoesOn ==
  status = "running" /\ effects = 0 ~> status # "running" \/ effects = 1

\* Every approval is decided in the end, by an administrator or by its expiry.
\* Two kinds stay: that of a run which an overtaken transaction brought back after
\* its end, whose refusal throws, and one behind which expireDue does not come
\* because an approval that fell due before it throws (ExpiryComes).
ApprovalIsDecided ==
  \A a \in Approval :
    approvals[a] = "pending" ~>
      \/ approvals[a] # "pending"
      \/ status = "waiting" /\ effects = 1
      \/ a \in blocked

-----------------------------------------------------------------------------
\* What the plan says and the code does not keep (MCPolicyApproval_Refuted.cfg).

\* An ended run stays ended.  A cancellation that commits between the read and
\* the commit of approve, or of pause, is overwritten.
EndedStaysEnded == [][(status = "ended" => status' = status)]_vars

\* An approval resumes the run once: no part of the answer is logged twice.  The
\* recovery of a resumed execution starts over from the conversation.
ResumedOnce == ~repeated

\* It does so when two processes grant the approval: each of them resumes the run,
\* and the later one may go on where the first pause was when the run has already
\* gone on to its second.
GrantedOnce == faults = 0 /\ effects = 0 => ~repeated

\* Every approval is decided in the end, but that of a run which came back after its
\* end.  The approvals of an organisation expire in one loop, which ends at the
\* first that throws.
ExpiryComes ==
  \A a \in Approval :
    approvals[a] = "pending" ~>
      approvals[a] # "pending" \/ (status = "waiting" /\ effects = 1)

\* A pending approval can still be decided: the job of the run waits for it.  A
\* recovery that looked before the pause executes, or fails, the waiting run.
WaitingIsNotExecuted ==
  status = "waiting" /\ effects = 0 => job.status = "queued"
=============================================================================
