------------------------- MODULE RunExecution_proofs -------------------------
(***************************************************************************)
(* For any number of processes, jobs, parts, tool calls, faults and        *)
(* requests: RunExecution keeps its types, a model's tool runs under a     *)
(* claim that stands only while its job is marked as having produced       *)
(* output, the checkpoint of an execution under the last claim holds its   *)
(* text, a closed job means that the run has left its execution, and the   *)
(* terminal effects of the run are committed at most once.                 *)
(*                                                                         *)
(* RunInv is inductive.  Its parts lean on each other through three facts  *)
(* about any step, which are proved first: how the jobs change (JobSteps), *)
(* how an execution moves (ExecMoves, Decides), and that a run which left  *)
(* its first execution has left it for good (LeftIsStable).                *)
(***************************************************************************)
EXTENDS RunExecution, TLAPS

-----------------------------------------------------------------------------
\* Types.  The first lemmas say which updates of a record stay in its type; the
\* lemma of an action then names the values the action writes.

\* The values a process, a job and a request start from.
LEMMA NoExecType == NoExec \in Exec
<1>1. <<>> \in Seq(1 .. MaxOutput)
  OBVIOUS
<1> QED
  BY <1>1, BoundsAssumption DEF NoExec, Exec, ExecPc, Part

LEMMA NoJobType == NoJob \in Job
<1>1. <<>> \in Seq(1 .. MaxOutput)
  OBVIOUS
<1> QED
  BY <1>1, BoundsAssumption DEF NoJob, Job, Part

LEMMA NoRequestType == NoRequest \in Request
  BY DEF NoRequest, Request, RequestPc, RunStatus

-----------------------------------------------------------------------------
\* The updates of an execution that occur.
LEMMA ExecPcType ==
  ASSUME NEW e \in Exec, NEW pc \in ExecPc
  PROVE  [e EXCEPT !.pc = pc] \in Exec
  BY DEF Exec

LEMMA ExecJobType ==
  ASSUME NEW e \in Exec, NEW pc \in ExecPc, NEW j \in JobId
  PROVE  [e EXCEPT !.pc = pc, !.job = j] \in Exec
  BY DEF Exec

LEMMA ExecEventType ==
  ASSUME NEW e \in Exec, NEW pc \in ExecPc, NEW ev \in Output \cup Waiting
  PROVE  [e EXCEPT !.pc = pc, !.event = ev] \in Exec
  BY DEF Exec

LEMMA ExecTextType ==
  ASSUME NEW e \in Exec, NEW pc \in ExecPc, NEW p \in Part,
         NEW t \in Seq(1 .. MaxOutput), NEW b \in BOOLEAN
  PROVE  /\ [e EXCEPT !.pc = pc, !.part = p, !.text = t, !.retry = b] \in Exec
         /\ [e EXCEPT !.pc = pc, !.retry = b, !.part = p, !.text = t] \in Exec
         /\ [e EXCEPT !.pc = pc, !.part = p, !.text = t] \in Exec
  BY DEF Exec

LEMMA ExecDeltaType ==
  ASSUME NEW e \in Exec, NEW pc \in ExecPc, NEW ev \in Output, NEW p \in Part,
         NEW t \in Seq(1 .. MaxOutput)
  PROVE  [e EXCEPT !.pc = pc, !.event = ev, !.part = p, !.text = t] \in Exec
  BY DEF Exec

LEMMA ExecCallsType ==
  ASSUME NEW e \in Exec, NEW pc \in ExecPc, NEW n \in 0 .. MaxToolCalls
  PROVE  [e EXCEPT !.pc = pc, !.calls = n] \in Exec
  BY DEF Exec

LEMMA ExecAbortedType ==
  ASSUME NEW e \in Exec, NEW b \in BOOLEAN
  PROVE  [e EXCEPT !.aborted = b] \in Exec
  BY DEF Exec

LEMMA ExecTakenType ==
  ASSUME NEW e \in Exec, NEW pc \in ExecPc,
         NEW t \in Seq(1 .. MaxOutput), NEW m \in BOOLEAN, NEW b \in BOOLEAN
  PROVE  [e EXCEPT !.pc = pc, !.text = t, !.mark = m, !.retry = b] \in Exec
  BY DEF Exec

LEMMA ExecMarkType ==
  ASSUME NEW e \in Exec, NEW m \in BOOLEAN
  PROVE  /\ [e EXCEPT !.mark = m] \in Exec
         /\ \A pc \in ExecPc : [e EXCEPT !.pc = pc, !.mark = m] \in Exec
  BY DEF Exec

LEMMA ExecLateType ==
  ASSUME NEW e \in Exec, NEW m \in BOOLEAN
  PROVE  /\ [e EXCEPT !.late = e.late \cup {m}] \in Exec
         /\ [e EXCEPT !.mark = m, !.late = e.late \ {m}] \in Exec
<1>1. e.late \cup {m} \in SUBSET BOOLEAN /\ e.late \ {m} \in SUBSET BOOLEAN
  BY DEF Exec
<1> QED
  BY <1>1 DEF Exec

LEMMA ExecCededType ==
  ASSUME NEW e \in Exec, NEW b \in BOOLEAN
  PROVE  [e EXCEPT !.ceded = b] \in Exec
  BY DEF Exec

LEMMA CededType ==
  ASSUME TypeOK, NEW j \in JobId PROVE Ceded(j) \in [Worker -> Exec]
<1>1. ASSUME NEW v \in Worker
      PROVE  [exec[v] EXCEPT !.ceded = @ \/ (Executing(v) /\ exec[v].job = j)]
               \in Exec
  <2> DEFINE b == exec[v].ceded \/ (Executing(v) /\ exec[v].job = j)
  <2>1. exec[v] \in Exec /\ b \in BOOLEAN
    BY DEF TypeOK, Exec
  <2> HIDE DEF b
  <2>2. [exec[v] EXCEPT !.ceded = b] \in Exec
    BY <2>1, ExecCededType
  <2> QED
    BY <2>2 DEF b
<1> QED
  BY <1>1 DEF Ceded

\* The updates of a job that occur.
LEMMA JobTakenType ==
  ASSUME NEW r \in Job, NEW w \in Worker
  PROVE  [r EXCEPT !.status = "running", !.owner = w, !.live = TRUE] \in Job
  BY DEF Job

LEMMA JobLapsedType ==
  ASSUME NEW r \in Job PROVE [r EXCEPT !.live = FALSE] \in Job
  BY DEF Job

LEMMA JobTextType ==
  ASSUME NEW r \in Job, NEW b \in BOOLEAN, NEW t \in Seq(1 .. MaxOutput)
  PROVE  /\ [r EXCEPT !.started = b, !.text = t] \in Job
         /\ \A p \in Part :
              [r EXCEPT !.status = "queued", !.started = b, !.part = p,
                        !.text = t] \in Job
  BY DEF Job

LEMMA JobClosedType == [NoJob EXCEPT !.status = "settled"] \in Job
  BY NoJobType DEF Job

\* The updates of a request that occur.
LEMMA RequestType ==
  ASSUME NEW q \in Request
  PROVE  /\ \A pc \in RequestPc : [q EXCEPT !.pc = pc] \in Request
         /\ \A s \in RunStatus : [q EXCEPT !.seen = s] \in Request
         /\ \A j \in JobId : [q EXCEPT !.job = j] \in Request
  BY DEF Request

LEMMA ServingType ==
  ASSUME NEW pc \in RequestPc PROVE Serving(pc) \in Request
  BY NoRequestType DEF Serving, Request

\* Claiming and closing keep the jobs in their type.
LEMMA ClaimedType ==
  ASSUME jobs \in [JobId -> Job], NEW j \in JobId, NEW w \in Worker
  PROVE  Claimed(j, w) \in [JobId -> Job]
  BY JobTakenType DEF Claimed

LEMMA ClosedType ==
  ASSUME jobs \in [JobId -> Job], NEW j \in JobId
  PROVE  Closed(j) \in [JobId -> Job]
  BY JobClosedType DEF Closed

-----------------------------------------------------------------------------
\* What an appended event leaves of the log.
LEMMA LoggedType ==
  ASSUME TypeOK, NEW e PROVE Logged(e) \in Log
<1> DEFINE shown == IF e = "message.started" THEN <<>> ELSE log.shown
           seen == log.seen \cup ({e} \cap Milestone)
           ended == e \in Terminal
           overtaken == {w \in Worker : exec[w].event \in Waiting}
<1>1. log \in Log
  BY DEF TypeOK
<1>2. <<>> \in Seq(1 .. MaxOutput)
  OBVIOUS
<1>3. shown \in Seq(1 .. MaxOutput)
  BY <1>1, <1>2 DEF Log
<1>4. seen \in SUBSET Milestone
  BY <1>1 DEF Log
<1>5. ended \in BOOLEAN /\ overtaken \in SUBSET Worker
  OBVIOUS
<1>6. Logged(e) = [log EXCEPT !.ended = ended, !.shown = shown, !.seen = seen,
                              !.overtaken = overtaken]
  BY DEF Logged
<1> HIDE DEF shown, seen, ended, overtaken
<1> QED
  BY <1>1, <1>3, <1>4, <1>5, <1>6 DEF Log

\* What a sequence number taken ahead of its event leaves of the log.
LEMMA AssignedType ==
  ASSUME TypeOK, NEW w \in Worker PROVE Assigned(w) \in Log
<1>1. log \in Log
  BY DEF TypeOK
<1>2. log.overtaken \ {w} \in SUBSET Worker
  BY <1>1 DEF Log
<1> QED
  BY <1>1, <1>2 DEF Assigned, Log

LEMMA PersistType ==
  ASSUME TypeOK, NEW e, Persist(e) PROVE log' \in Log /\ quiet' \in BOOLEAN
  BY LoggedType DEF Persist

LEMMA PersistAssignedType ==
  ASSUME TypeOK, NEW w \in Worker, NEW e, PersistAssigned(w, e)
  PROVE  log' \in Log /\ quiet' \in BOOLEAN
<1>1. CASE w \in log.overtaken
  <2> DEFINE l == Assigned(w)
             seen == log.seen \cup ({e} \cap Milestone)
  <2>1. l \in Log /\ l.seen = log.seen
    BY AssignedType DEF Assigned, TypeOK, Log
  <2>2. seen \in SUBSET Milestone
    BY DEF TypeOK, Log
  <2>3. log' = [l EXCEPT !.seen = seen] /\ quiet' = quiet
    BY <1>1, <2>1 DEF PersistAssigned
  <2> HIDE DEF l, seen
  <2> QED
    BY <2>1, <2>2, <2>3 DEF TypeOK, Log
<1>2. CASE w \notin log.overtaken
  <2> DEFINE l == Logged(e)
  <2>1. l \in Log
    BY LoggedType
  <2>2. log' = [l EXCEPT !.overtaken = l.overtaken \ {w}] /\ quiet' = FALSE
    BY <1>2 DEF PersistAssigned
  <2> HIDE DEF l
  <2> QED
    BY <2>1, <2>2 DEF Log
<1> QED
  BY <1>1, <1>2

LEMMA PersistDeltaType ==
  ASSUME TypeOK, NEW p \in 1 .. MaxOutput, PersistDelta(p)
  PROVE  log' \in Log /\ quiet' \in BOOLEAN
<1> DEFINE l == Logged("message.delta")
<1>1. l \in Log
  BY LoggedType
<1>2. /\ log' = [l EXCEPT !.shown = Append(l.shown, p),
                         !.written = IF p > l.written THEN p ELSE l.written]
      /\ quiet' = FALSE
  BY DEF PersistDelta
<1>3. p \in Part
  BY DEF Part
<1> HIDE DEF l
<1>4. Append(l.shown, p) \in Seq(1 .. MaxOutput)
  BY <1>1 DEF Log
<1> QED
  BY <1>1, <1>2, <1>3, <1>4 DEF Log

\* The variables that the settling of a run changes.
RunType ==
  /\ status \in RunStatus
  /\ effects \in Nat
  /\ log \in Log
  /\ quiet \in BOOLEAN

LEMMA SettleType ==
  ASSUME TypeOK, NEW o \in Settled, NEW e, Settle(o, e) PROVE RunType'
  BY PersistType DEF TypeOK, Settle, RunType, RunStatus

LEMMA Unsettled ==
  ASSUME TypeOK, UNCHANGED <<status, effects, log, quiet>> PROVE RunType'
  BY DEF TypeOK, RunType

\* A rejected execution leaves no trace in its process.
LEMMA ThrowType ==
  ASSUME TypeOK, NEW w \in Worker, Throw(w)
  PROVE exec' \in [Worker -> Exec] /\ request' \in [Worker -> Request]
  BY NoExecType, NoRequestType DEF TypeOK, Throw
-----------------------------------------------------------------------------
\* The actions of an execution.
LEMMA ClaimListType ==
  ASSUME TypeOK, NEW w \in Worker, ClaimList(w) PROVE TypeOK'
<1>1. exec[w] \in Exec /\ {"create", "claim"} \subseteq ExecPc
  BY DEF TypeOK, ExecPc
<1>2. /\ [exec[w] EXCEPT !.pc = "create"] \in Exec
      /\ \A j \in JobId : [exec[w] EXCEPT !.pc = "claim", !.job = j] \in Exec
  BY <1>1, ExecPcType, ExecJobType
<1>3. exec' \in [Worker -> Exec]
  BY <1>2 DEF TypeOK, ClaimList, Step
<1> QED
  BY <1>3 DEF TypeOK, ClaimList

LEMMA CreateJobType ==
  ASSUME TypeOK, NEW w \in Worker, CreateJob(w) PROVE TypeOK'
<1>1. exec[w] \in Exec /\ "claim" \in ExecPc
  BY DEF TypeOK, ExecPc
<1>2. /\ exec[w].part \in Part
      /\ exec[w].text \in Seq(1 .. MaxOutput)
      /\ (exec[w].text # <<>>) \in BOOLEAN
  BY <1>1 DEF Exec
<1>3. CASE \A k \in JobId : jobs[k].status # "absent"
  BY <1>3, ThrowType DEF TypeOK, CreateJob, Oldest
<1>4. CASE \E k \in JobId : jobs[k].status = "absent"
  <2>1. PICK j \in JobId :
          /\ jobs' = [jobs EXCEPT ![j] =
                        [NoJob EXCEPT !.status = "queued",
                                      !.started = exec[w].text # <<>>,
                                      !.part = exec[w].part,
                                      !.text = exec[w].text]]
          /\ exec' = [exec EXCEPT ![w] =
                        [exec[w] EXCEPT !.pc = "claim", !.job = j]]
          /\ UNCHANGED request
    BY <1>4 DEF CreateJob
  <2>2. jobs' \in [JobId -> Job]
    BY <1>2, <2>1, NoJobType, JobTextType DEF TypeOK
  <2>3. exec' \in [Worker -> Exec]
    BY <1>1, <2>1, ExecJobType DEF TypeOK
  <2> QED
    BY <2>1, <2>2, <2>3 DEF TypeOK, CreateJob
<1> QED
  BY <1>3, <1>4

LEMMA TakeJobType ==
  ASSUME TypeOK, NEW w \in Worker, TakeJob(w), exec[w].job \in JobId
  PROVE  TypeOK'
<1> DEFINE r == jobs[exec[w].job]
<1>1. exec[w] \in Exec /\ "begin" \in ExecPc
  BY DEF TypeOK, ExecPc
<1>2. /\ r \in Job
      /\ r.text \in Seq(1 .. MaxOutput)
      /\ r.started \in BOOLEAN
  BY DEF TypeOK, Job
<1>3. jobs' \in [JobId -> Job]
  BY ClaimedType DEF TypeOK, TakeJob
<1>4. \A e \in Exec : [e EXCEPT !.pc = "begin", !.text = r.text,
                                !.mark = r.started, !.retry = FALSE] \in Exec
  BY <1>1, <1>2, ExecTakenType
<1>5. Ceded(exec[w].job) \in [Worker -> Exec]
  BY CededType
<1>6. exec' \in [Worker -> Exec]
  <2> DEFINE c == Ceded(exec[w].job)
             e == [c[w] EXCEPT !.pc = "begin", !.text = r.text,
                               !.mark = r.started, !.retry = FALSE]
  <2>1. \/ exec' = [c EXCEPT ![w] = e]
        \/ exec' = [c EXCEPT ![w] = NoExec]
        \/ exec' = [exec EXCEPT ![w] = NoExec]
    BY DEF TakeJob
  <2>2. c[w] \in Exec
    BY <1>5
  <2>3. e \in Exec
    BY <1>4, <2>2
  <2> HIDE DEF c, e
  <2>4. c \in [Worker -> Exec]
    BY <1>5 DEF c
  <2> QED
    BY <2>1, <2>3, <2>4, NoExecType DEF TypeOK
<1> QED
  BY <1>3, <1>6, BoundsAssumption DEF TypeOK, TakeJob, Fault

LEMMA BeginType ==
  ASSUME TypeOK, NEW w \in Worker, Begin(w) PROVE TypeOK'
<1>1. exec[w] \in Exec /\ "checkpoint" \in ExecPc
  BY DEF TypeOK, ExecPc
<1>2. exec' \in [Worker -> Exec]
  BY <1>1, ExecEventType DEF TypeOK, Begin, Emit, Output
<1> QED
  BY <1>2, PersistType DEF TypeOK, Begin

LEMMA DeltaType ==
  ASSUME TypeOK, NEW w \in Worker, Delta(w) PROVE TypeOK'
<1> DEFINE part == exec[w].part + 1
           text == Append(exec[w].text, part)
<1>1. exec[w] \in Exec /\ "checkpoint" \in ExecPc /\ "message.delta" \in Output
  BY DEF TypeOK, ExecPc, Output
<1>2. part \in 1 .. MaxOutput /\ part \in Part
  BY <1>1, BoundsAssumption DEF Delta, Exec, Part
<1>3. text \in Seq(1 .. MaxOutput)
  BY <1>1, <1>2 DEF Exec
<1>4. log' \in Log /\ quiet' \in BOOLEAN
  BY <1>2, PersistDeltaType DEF Delta
<1>5. exec' = [exec EXCEPT ![w] =
                 [exec[w] EXCEPT !.pc = "checkpoint", !.event = "message.delta",
                                 !.part = part, !.text = text]]
  BY DEF Delta
<1> HIDE DEF part, text
<1>6. exec' \in [Worker -> Exec]
  BY <1>1, <1>2, <1>3, <1>5, ExecDeltaType DEF TypeOK
<1> QED
  BY <1>4, <1>6 DEF TypeOK, Delta

LEMMA ToolCallType ==
  ASSUME TypeOK, NEW w \in Worker, ToolCall(w) PROVE TypeOK'
<1>1. exec[w] \in Exec /\ "checkpoint" \in ExecPc
  BY DEF TypeOK, ExecPc
<1>2. exec' \in [Worker -> Exec]
  BY <1>1, ExecEventType DEF TypeOK, ToolCall, Emit, Output
<1> QED
  BY <1>2, PersistType DEF TypeOK, ToolCall

LEMMA CheckpointType ==
  ASSUME TypeOK, NEW w \in Worker, Checkpoint(w) PROVE TypeOK'
<1> DEFINE mark == Marks(w)
<1>1. exec[w] \in Exec /\ AfterCheckpoint(exec[w].event) \in ExecPc
  BY DEF TypeOK, ExecPc, AfterCheckpoint
<1>2. /\ exec[w].text \in Seq(1 .. MaxOutput)
      /\ exec[w].job \in JobId
      /\ jobs[exec[w].job] \in Job
      /\ mark \in BOOLEAN
  BY <1>1 DEF Exec, Checkpoint, Owns, TypeOK, Marks
<1>3. jobs' = [jobs EXCEPT ![exec[w].job] =
                 [jobs[exec[w].job] EXCEPT !.started = mark,
                                           !.text = exec[w].text]]
  BY DEF Checkpoint
<1>4. exec' = [exec EXCEPT ![w] =
                 [exec[w] EXCEPT !.pc = AfterCheckpoint(exec[w].event),
                                 !.mark = mark]]
  BY DEF Checkpoint
<1> HIDE DEF mark
<1>5. jobs' \in [JobId -> Job]
  BY <1>2, <1>3, JobTextType DEF TypeOK
<1>6. exec' \in [Worker -> Exec]
  BY <1>1, <1>2, <1>4, ExecMarkType DEF TypeOK
<1> QED
  BY <1>5, <1>6 DEF TypeOK, Checkpoint

LEMMA RenewType ==
  ASSUME TypeOK, NEW w \in Worker, Renew(w) \/ LateRenewal(w) PROVE TypeOK'
<1>1. exec[w] \in Exec
  BY DEF TypeOK
<1>2. CASE Renew(w)
  <2>1. exec[w].job \in JobId /\ jobs[exec[w].job].started \in BOOLEAN
    BY <1>2 DEF Renew, Owns, TypeOK, Job
  <2> DEFINE m == jobs[exec[w].job].started
  <2>2. \/ exec' = [exec EXCEPT ![w] = [exec[w] EXCEPT !.mark = m]]
        \/ exec' = [exec EXCEPT ![w] =
                      [exec[w] EXCEPT !.late = exec[w].late \cup {m}]]
    BY <1>2 DEF Renew
  <2>3. /\ [exec[w] EXCEPT !.mark = m] \in Exec
        /\ [exec[w] EXCEPT !.late = exec[w].late \cup {m}] \in Exec
    BY <1>1, <2>1, ExecMarkType, ExecLateType
  <2> HIDE DEF m
  <2>4. exec' \in [Worker -> Exec]
    BY <2>2, <2>3 DEF TypeOK
  <2> QED
    BY <1>2, <2>4, BoundsAssumption DEF TypeOK, Renew, Fault
<1>3. CASE LateRenewal(w)
  <2>1. PICK mark \in exec[w].late :
          exec' = [exec EXCEPT ![w] = [exec[w] EXCEPT !.mark = mark,
                                         !.late = exec[w].late \ {mark}]]
    BY <1>3 DEF LateRenewal
  <2>2. mark \in BOOLEAN
    BY <1>1 DEF Exec
  <2>3. exec' \in [Worker -> Exec]
    BY <1>1, <2>1, <2>2, ExecLateType DEF TypeOK
  <2> QED
    BY <1>3, <2>3 DEF TypeOK, LateRenewal
<1> QED
  BY <1>2, <1>3

LEMMA RunToolType ==
  ASSUME TypeOK, NEW w \in Worker, RunTool(w) PROVE TypeOK'
<1>1. exec[w] \in Exec /\ {"stream", "begin", "failing", "suspend"} \subseteq ExecPc
  BY DEF TypeOK, ExecPc
<1>2. Callable(w) => exec[w].calls + 1 \in 0 .. MaxToolCalls
  BY <1>1, BoundsAssumption DEF Callable, Exec
<1>3. /\ [exec[w] EXCEPT !.pc = "failing"] \in Exec
      /\ \A e \in Waiting :
           [exec[w] EXCEPT !.pc = "suspend", !.event = e] \in Exec
      /\ Callable(w) =>
           \A pc \in {"stream", "begin"} :
             [exec[w] EXCEPT !.pc = pc, !.calls = exec[w].calls + 1] \in Exec
  BY <1>1, <1>2, ExecPcType, ExecEventType, ExecCallsType
<1>4. exec' \in [Worker -> Exec]
  BY <1>1, <1>3 DEF TypeOK, RunTool, Step, Waiting
<1>5. log' \in Log
  BY AssignedType DEF TypeOK, RunTool
<1> QED
  BY <1>4, <1>5 DEF TypeOK, RunTool

LEMMA FinishType ==
  ASSUME TypeOK, NEW w \in Worker, Finish(w) PROVE TypeOK'
<1>1. exec[w] \in Exec /\ "announce" \in ExecPc
  BY DEF TypeOK, ExecPc
<1>2. exec[w].event \in Waiting =>
        [NoExec EXCEPT !.pc = "announce", !.event = exec[w].event] \in Exec
  BY <1>1, NoExecType, ExecEventType
<1>3. exec' \in [Worker -> Exec]
  BY <1>2, NoExecType DEF TypeOK, Finish
<1>4. jobs' \in [JobId -> Job]
  BY ClosedType DEF TypeOK, Finish, Owns
<1> QED
  BY <1>3, <1>4 DEF TypeOK, Finish

LEMMA CompleteType ==
  ASSUME TypeOK, NEW w \in Worker, Complete(w) PROVE TypeOK'
<1>1. CASE SettleThrows /\ Throw(w)
  BY <1>1, ThrowType DEF TypeOK, Complete, SettleThrows
<1>2. CASE ~(SettleThrows /\ Throw(w))
  <2>1. [NoExec EXCEPT !.pc = "finish", !.job = exec[w].job] \in Exec
    BY NoExecType DEF Exec, ExecPc, TypeOK
  <2>2. exec' \in [Worker -> Exec] /\ request' \in [Worker -> Request]
    BY <1>2, <2>1 DEF Complete, TypeOK
  <2>3. RunType'
    BY <1>2, SettleType, Unsettled DEF Complete, AlreadySettled, Settled
  <2> QED
    BY <2>2, <2>3 DEF TypeOK, RunType, Complete
<1> QED
  BY <1>1, <1>2

-----------------------------------------------------------------------------
\* The requests on the run.
LEMMA CancelReadType ==
  ASSUME TypeOK, NEW w \in Worker, CancelRead(w) PROVE TypeOK'
<1> DEFINE b == exec[w].aborted \/ Executing(w)
<1>1. exec[w] \in Exec /\ b \in BOOLEAN
  BY DEF TypeOK
<1>2. exec' = [exec EXCEPT ![w] = [exec[w] EXCEPT !.aborted = b]]
  BY DEF CancelRead
<1> HIDE DEF b
<1>3. exec' \in [Worker -> Exec]
  BY <1>1, <1>2, ExecAbortedType DEF TypeOK
<1>4. [Serving("cancel") EXCEPT !.seen = status] \in Request
  BY ServingType, RequestType DEF TypeOK, RequestPc
<1>5. request' \in [Worker -> Request]
  BY <1>4 DEF TypeOK, CancelRead
<1> QED
  BY <1>3, <1>5 DEF TypeOK, CancelRead

LEMMA ContinueType ==
  ASSUME TypeOK, NEW w \in Worker, Continue(w) PROVE TypeOK'
<1>1. log.written \in Part /\ log.shown \in Seq(1 .. MaxOutput)
  BY DEF TypeOK, Log
<1>2. exec' = [exec EXCEPT ![w] = [NoExec EXCEPT !.pc = "list",
                              !.part = log.written, !.text = log.shown]]
  BY DEF Continue
<1>3. exec' \in [Worker -> Exec]
  BY <1>1, <1>2, NoExecType, ExecTextType DEF TypeOK, ExecPc
<1> QED
  BY <1>3, PersistType, NoRequestType DEF TypeOK, Continue, RunStatus

LEMMA ReconcileClaimType ==
  ASSUME TypeOK, NEW w \in Worker, ReconcileClaim(w) PROVE TypeOK'
<1>1. jobs' \in [JobId -> Job]
  BY ClaimedType DEF TypeOK, ReconcileClaim
<1>2. request[w] \in Request /\ "close" \in RequestPc
  BY DEF TypeOK, RequestPc
<1>3. request' \in [Worker -> Request]
  BY <1>2, NoRequestType, RequestType DEF TypeOK, ReconcileClaim
<1>4. exec' \in [Worker -> Exec]
  BY CededType DEF TypeOK, ReconcileClaim
<1> QED
  BY <1>1, <1>3, <1>4 DEF TypeOK, ReconcileClaim

LEMMA CloseJobType ==
  ASSUME TypeOK, NEW w \in Worker, CloseJob(w) PROVE TypeOK'
<1>1. jobs' \in [JobId -> Job]
  BY ClosedType DEF TypeOK, CloseJob, Owns
<1> QED
  BY <1>1, NoRequestType DEF TypeOK, CloseJob

LEMMA ExamineType ==
  ASSUME TypeOK, NEW w \in Worker, Examine(w) PROVE TypeOK'
<1>1. request' \in [Worker -> Request]
  BY NoRequestType, ServingType DEF TypeOK, Examine, RequestPc
<1>2. \A j \in JobId :
        [NoExec EXCEPT !.pc = "list", !.retry = TRUE, !.part = jobs[j].part,
                       !.text = jobs[j].text] \in Exec
  BY NoExecType, ExecTextType DEF TypeOK, Job, ExecPc
<1>3. exec' \in [Worker -> Exec]
  BY <1>2 DEF TypeOK, Examine
<1>4. Fault \/ UNCHANGED faults
  BY DEF Examine
<1>5. faults' \in 0 .. MaxFaults
  BY <1>4, BoundsAssumption DEF TypeOK, Fault
<1> QED
  BY <1>1, <1>3, <1>5 DEF TypeOK, Examine

LEMMA SeizeType ==
  ASSUME TypeOK, NEW w \in Worker, Seize(w) PROVE TypeOK'
<1>1. jobs' \in [JobId -> Job]
  BY ClaimedType DEF TypeOK, Seize
<1>2. \A j \in JobId : [Serving("fail") EXCEPT !.job = j] \in Request
  BY ServingType, RequestType DEF RequestPc
<1>3. request' \in [Worker -> Request]
  BY <1>2, NoRequestType DEF TypeOK, Seize
<1>4. exec' \in [Worker -> Exec]
  BY CededType DEF TypeOK, Seize
<1> QED
  BY <1>1, <1>3, <1>4 DEF TypeOK, Seize

-----------------------------------------------------------------------------
\* Time.
LEMMA LapseType ==
  ASSUME TypeOK, NEW j \in JobId, Lapse(j) PROVE TypeOK'
<1>1. jobs' \in [JobId -> Job]
  BY JobLapsedType DEF TypeOK, Lapse
<1> QED
  BY <1>1, BoundsAssumption DEF TypeOK, Lapse, Fault

-----------------------------------------------------------------------------
\* The other actions write one of the values above, or a constant.
LEMMA PlainExecutionType ==
  ASSUME TypeOK, NEW w \in Worker,
         SecretsReject(w) \/ LoseCheckpoint(w) \/ Suspend(w) \/ Announce(w)
  PROVE  TypeOK'
<1>1. CASE SecretsReject(w) \/ LoseCheckpoint(w)
  BY <1>1, ThrowType, BoundsAssumption
  DEF TypeOK, SecretsReject, LoseCheckpoint, Fault
<1>2. CASE Suspend(w)
  BY <1>2, ExecPcType DEF TypeOK, Suspend, Step, ExecPc, RunStatus
<1>3. CASE Announce(w)
  BY <1>3, PersistAssignedType, NoExecType DEF TypeOK, Announce
<1> QED
  BY <1>1, <1>2, <1>3

LEMMA PlainServeType ==
  ASSUME TypeOK, NEW w \in Worker,
         CancelCommit(w) \/ ResumeRead(w) \/ AwaitRead(w) \/ Requeue(w)
           \/ AnnounceDispatch(w) \/ FailRun(w)
  PROVE  TypeOK'
<1>1. CASE CancelCommit(w)
  <2>1. RunType'
    BY <1>1, SettleType, Unsettled
    DEF CancelCommit, AlreadySettled, SettleThrows, Settled
  <2> QED
    BY <1>1, <2>1, NoRequestType DEF TypeOK, RunType, CancelCommit
<1>2. CASE ResumeRead(w) \/ AwaitRead(w)
  BY <1>2, NoRequestType, ServingType DEF TypeOK, ResumeRead, AwaitRead, RequestPc
<1>3. CASE Requeue(w)
  BY <1>3, ServingType DEF TypeOK, Requeue, RequestPc, RunStatus
<1>4. CASE AnnounceDispatch(w)
  BY <1>4, PersistType, NoRequestType DEF TypeOK, AnnounceDispatch
<1>5. CASE FailRun(w)
  <2>1. RunType'
    BY <1>5, SettleType, Unsettled
    DEF FailRun, AlreadySettled, SettleThrows, Settled
  <2>2. request[w] \in Request /\ "close" \in RequestPc
    BY DEF TypeOK, RequestPc
  <2>3. request' \in [Worker -> Request]
    BY <1>5, <2>2, NoRequestType, RequestType DEF TypeOK, FailRun
  <2> QED
    BY <1>5, <2>1, <2>3 DEF TypeOK, RunType, FailRun
<1> QED
  BY <1>1, <1>2, <1>3, <1>4, <1>5

LEMMA ArrivalType ==
  ASSUME TypeOK, NEW w \in Worker, Client(w) \/ Recovery(w) \/ Crash(w)
  PROVE  TypeOK'
<1>1. CASE CancelRead(w)
  BY <1>1, CancelReadType
<1>2. CASE ExecuteApproved(w) \/ AnswerDispatch(w) \/ RecoverRead(w)
  BY <1>2, ServingType
  DEF TypeOK, ExecuteApproved, AnswerDispatch, RecoverRead, RequestPc
<1>3. CASE ReconcileRead(w) \/ Look(w)
  <2>1. /\ \A j \in JobId : [Serving("reconcile") EXCEPT !.job = j] \in Request
        /\ Serving("events") \in Request
        /\ Serving("newest") \in Request
        /\ Serving("examine") \in Request
        /\ NoRequest \in Request
    BY ServingType, RequestType, NoRequestType DEF RequestPc
  <2>2. CASE ReconcileRead(w)
    BY <2>1, <2>2 DEF TypeOK, ReconcileRead
  <2>3. CASE ReconcileEvents(w) \/ RecoverEvents(w)
    BY <2>1, <2>3 DEF TypeOK, ReconcileEvents, RecoverEvents
  <2>4. CASE ReconcileList(w)
    BY <2>1, <2>4 DEF TypeOK, ReconcileList
  <2> QED
    BY <1>3, <2>2, <2>3, <2>4 DEF Look
<1>4. CASE Crash(w)
  BY <1>4, ThrowType, NoRequestType, BoundsAssumption DEF TypeOK, Crash, Fault
<1> QED
  BY <1>1, <1>2, <1>3, <1>4 DEF Client, Recovery

LEMMA UnownedType ==
  ASSUME TypeOK,
         Approve \/ Deny \/ ClaimDispatch \/ WithdrawDispatch \/ GoQuiet
  PROVE  TypeOK'
  BY PersistType
  DEF TypeOK, Approve, Deny, ClaimDispatch, WithdrawDispatch, GoQuiet, RunStatus,
      Settled

-----------------------------------------------------------------------------
\* From the claim to the end, an execution has a job.
Placed ==
  \A w \in Worker :
    exec[w].pc \in {"claim", "begin", "stream", "checkpoint", "tool", "failing",
                    "suspend", "finish"}
      => exec[w].job \in JobId

\* A step keeps the types; the claim reads the job the execution was given.
LEMMA TypeStep == TypeOK /\ Placed /\ [Next]_vars => TypeOK'
<1> SUFFICES ASSUME TypeOK, Placed, [Next]_vars PROVE TypeOK'
  OBVIOUS
<1>1. ASSUME NEW w \in Worker, Execution(w) PROVE TypeOK'
  <2>1. CASE TakeJob(w)
    <3>1. exec[w].job \in JobId
      BY <2>1 DEF Placed, TakeJob
    <3> QED
      BY <2>1, <3>1, TakeJobType
  <2> QED
    BY <1>1, <2>1, ClaimListType, CreateJobType, BeginType, DeltaType,
       ToolCallType, CheckpointType, RunToolType, FinishType, CompleteType,
       PlainExecutionType DEF Execution
<1>2. ASSUME NEW w \in Worker, Serve(w) PROVE TypeOK'
  BY <1>2, ContinueType, ReconcileClaimType, CloseJobType, ExamineType,
     SeizeType, PlainServeType DEF Serve
<1>3. ASSUME NEW w \in Worker, Client(w) \/ Recovery(w) \/ Crash(w)
      PROVE  TypeOK'
  BY <1>3, ArrivalType
<1>4. CASE UNCHANGED vars
  BY <1>4 DEF TypeOK, vars
<1> QED
  BY <1>1, <1>2, <1>3, <1>4, RenewType, LapseType, UnownedType DEF Next

\* The run begins with one process about to execute it.
LEMMA InitType == Init => TypeOK
<1> SUFFICES ASSUME Init PROVE TypeOK
  OBVIOUS
<1>1. log \in Log
  <2>1. <<>> \in Seq(1 .. MaxOutput)
    OBVIOUS
  <2> QED
    BY <2>1, BoundsAssumption DEF Init, NoLog, Log, Part
<1>2. [NoExec EXCEPT !.pc = "list"] \in Exec
  BY NoExecType, ExecPcType DEF ExecPc
<1>3. exec \in [Worker -> Exec]
  BY <1>2, NoExecType DEF Init
<1>4. jobs \in [JobId -> Job] /\ request \in [Worker -> Request]
  BY NoJobType, NoRequestType DEF Init
<1>5. status \in RunStatus /\ effects \in Nat
  BY DEF Init, RunStatus
<1>6. quiet \in BOOLEAN
  BY DEF Init
<1>7. /\ approval \in {"none", "pending", "approved", "denied", "consumed"}
      /\ dispatch \in {"none", "queued", "claimed", "answered", "withdrawn"}
  BY DEF Init
<1>8. faults \in 0 .. MaxFaults
  BY BoundsAssumption DEF Init
<1> QED
  BY <1>1, <1>3, <1>4, <1>5, <1>6, <1>7, <1>8 DEF TypeOK

-----------------------------------------------------------------------------
\* The invariants.

\* The steps of a process that belong to no flow of it.
Other(w) == Client(w) \/ Recovery(w) \/ Renew(w) \/ LateRenewal(w) \/ Crash(w)

\* The run is not in its first execution any more.  Once true, it stays true.
Left == status # "running" \/ "run.continuing" \in log.seen

\* Whoever is about to close a job has seen the run leave that execution.
ClosersLeft ==
  \A w \in Worker :
    /\ exec[w].pc = "finish" => Left
    /\ exec[w].pc = "checkpoint" /\ exec[w].event \in Waiting => Left
    /\ request[w].pc \in {"events", "newest", "reconcile", "close"} => Left

\* The inductive invariant.
RunInv ==
  /\ TypeOK
  /\ Placed
  /\ ToolRunIsMarked
  /\ CheckpointIsCurrent
  /\ ClosersLeft
  /\ ClosedJobLeftRunning
  /\ TerminalEffectsOnce

-----------------------------------------------------------------------------
\* No append forgets an event.
LEMMA LoggedSeen ==
  ASSUME TypeOK, NEW e
  PROVE  Logged(e).seen = log.seen \cup ({e} \cap Milestone)
<1> DEFINE shown == IF e = "message.started" THEN <<>> ELSE log.shown
           seen == log.seen \cup ({e} \cap Milestone)
           ended == e \in Terminal
           overtaken == {w \in Worker : exec[w].event \in Waiting}
<1>1. Logged(e) = [log EXCEPT !.ended = ended, !.shown = shown, !.seen = seen,
                              !.overtaken = overtaken]
  BY DEF Logged
<1> HIDE DEF shown, seen, ended, overtaken
<1>2. Logged(e).seen = seen
  BY <1>1 DEF TypeOK, Log
<1> QED
  BY <1>2 DEF seen

LEMMA PersistSeen ==
  ASSUME TypeOK, NEW e
  PROVE  /\ Persist(e) => log.seen \subseteq log'.seen
         /\ Persist("run.continuing") => "run.continuing" \in log'.seen
  BY LoggedSeen DEF Persist, Milestone

LEMMA PersistAssignedSeen ==
  ASSUME TypeOK, NEW w \in Worker, NEW e, PersistAssigned(w, e)
  PROVE  log.seen \subseteq log'.seen
<1>1. CASE w \in log.overtaken
  <2> DEFINE l == Assigned(w)
             seen == log.seen \cup ({e} \cap Milestone)
  <2>1. l \in Log /\ l.seen = log.seen
    BY AssignedType DEF Assigned, TypeOK, Log
  <2>2. log' = [l EXCEPT !.seen = seen]
    BY <1>1, <2>1 DEF PersistAssigned
  <2>3. log.seen \subseteq seen
    OBVIOUS
  <2> HIDE DEF l, seen
  <2> QED
    BY <2>1, <2>2, <2>3 DEF Log
<1>2. CASE w \notin log.overtaken
  <2> DEFINE l == Logged(e)
  <2>1. l \in Log /\ log.seen \subseteq l.seen
    BY LoggedType, LoggedSeen
  <2>2. log' = [l EXCEPT !.overtaken = l.overtaken \ {w}]
    BY <1>2 DEF PersistAssigned
  <2> HIDE DEF l
  <2> QED
    BY <2>1, <2>2 DEF Log
<1> QED
  BY <1>1, <1>2

LEMMA PersistDeltaSeen ==
  ASSUME TypeOK, NEW p, PersistDelta(p) PROVE log.seen \subseteq log'.seen
<1> DEFINE l == Logged("message.delta")
           shown == Append(l.shown, p)
           written == IF p > l.written THEN p ELSE l.written
<1>1. l \in Log /\ log.seen \subseteq l.seen
  BY LoggedType, LoggedSeen
<1>2. log' = [l EXCEPT !.shown = shown, !.written = written]
  BY DEF PersistDelta
<1> HIDE DEF l, shown, written
<1> QED
  BY <1>1, <1>2 DEF Log

\* Only the continuation makes the run running again, and it leaves its event.
LEMMA LeftIsStable == TypeOK /\ [Next]_vars /\ Left => Left'
<1> SUFFICES ASSUME TypeOK, [Next]_vars, Left PROVE Left'
  OBVIOUS
<1>1. ASSUME NEW w \in Worker, Execution(w) PROVE Left'
  <2>1. CASE ClaimList(w) \/ CreateJob(w) \/ TakeJob(w) \/ SecretsReject(w)
               \/ Checkpoint(w) \/ LoseCheckpoint(w) \/ RunTool(w)
               \/ Finish(w)
    BY <2>1 DEF Left, ClaimList, CreateJob, TakeJob, SecretsReject, Checkpoint,
                LoseCheckpoint, RunTool, Finish, Assigned, TypeOK, Log
  <2>2. CASE Begin(w) \/ Delta(w) \/ ToolCall(w) \/ Announce(w)
    BY <2>2, PersistSeen, PersistDeltaSeen, PersistAssignedSeen
    DEF Left, Begin, Delta, ToolCall, Announce
  <2>3. CASE Suspend(w)
    BY <2>3 DEF Left, Suspend
  <2>4. CASE Complete(w)
    BY <2>4, PersistSeen
    DEF Left, Complete, Settle, SettleThrows, AlreadySettled, Settled
  <2> QED
    BY <1>1, <2>1, <2>2, <2>3, <2>4 DEF Execution
<1>2. ASSUME NEW w \in Worker, Serve(w) PROVE Left'
  <2>1. CASE CancelCommit(w) \/ FailRun(w)
    BY <2>1, PersistSeen
    DEF Left, CancelCommit, FailRun, Settle, SettleThrows, AlreadySettled,
        Settled
  <2>2. CASE Continue(w)
    BY <2>2, PersistSeen DEF Left, Continue
  <2>3. CASE Requeue(w) \/ AnnounceDispatch(w)
    BY <2>3, PersistSeen DEF Left, Requeue, AnnounceDispatch
  <2>4. CASE ResumeRead(w) \/ AwaitRead(w) \/ ReconcileClaim(w) \/ CloseJob(w)
               \/ Examine(w) \/ Seize(w)
    BY <2>4 DEF Left, ResumeRead, AwaitRead, ReconcileClaim, CloseJob, Examine,
                Seize
  <2> QED
    BY <1>2, <2>1, <2>2, <2>3, <2>4 DEF Serve
<1>3. ASSUME NEW w \in Worker, Other(w) PROVE Left'
  BY <1>3 DEF Other, Renew, LateRenewal, Left, Client, Recovery, Crash,
              CancelRead, ExecuteApproved,
              AnswerDispatch, ReconcileRead, RecoverRead, Look,
              ReconcileEvents, ReconcileList, RecoverEvents
<1>4. CASE Approve \/ Deny \/ ClaimDispatch \/ WithdrawDispatch \/ GoQuiet
             \/ \E j \in JobId : Lapse(j)
  BY <1>4, PersistSeen DEF Left, Approve, Deny, ClaimDispatch, WithdrawDispatch,
                         GoQuiet, Lapse
<1>5. CASE UNCHANGED vars
  BY <1>5 DEF Left, vars
<1> QED
  BY <1>1, <1>2, <1>3, <1>4, <1>5 DEF Next, Other

\* What a step does to a job: it is claimed, which cedes the executions under
\* it; its owner checkpoints it; it is created or closed; or it keeps its mark,
\* its text, its owner and its status.
Claims(j) ==
  \E w \in Worker :
    \/ exec' = Ceded(j)
    \/ exec[w].pc = "claim" /\ \E e : exec' = [Ceded(j) EXCEPT ![w] = e]

Writes(j) == \E w \in Worker : Checkpoint(w) /\ exec[w].job = j

Keeps(j) ==
  /\ jobs'[j].started = jobs[j].started
  /\ jobs'[j].text = jobs[j].text
  /\ jobs'[j].owner = jobs[j].owner
  /\ jobs'[j].status = jobs[j].status

LEMMA JobSteps ==
  ASSUME TypeOK, Placed, ClosersLeft, [Next]_vars, NEW j \in JobId
  PROVE  /\ \/ Claims(j) /\ jobs'[j].status = "running"
            \/ Writes(j) /\ jobs'[j].status = "running"
            \/ Keeps(j)
            \/ jobs'[j].status = "queued"
            \/ jobs'[j].status = "settled" /\ Left
<1> DEFINE Good == \/ Claims(j) /\ jobs'[j].status = "running"
                   \/ Writes(j) /\ jobs'[j].status = "running"
                   \/ Keeps(j)
                   \/ jobs'[j].status = "queued"
                   \/ jobs'[j].status = "settled" /\ Left
<1>1. CASE UNCHANGED jobs
  BY <1>1 DEF Keeps
<1>2. ASSUME NEW w \in Worker, CreateJob(w) PROVE Good
  <2>1. CASE UNCHANGED jobs
    BY <1>1, <2>1
  <2>2. CASE ~UNCHANGED jobs
    <3> DEFINE marked == exec[w].text # <<>>
    <3>1. PICK k \in JobId :
            jobs' = [jobs EXCEPT ![k] =
                       [NoJob EXCEPT !.status = "queued",
                                     !.started = marked,
                                     !.part = exec[w].part,
                                     !.text = exec[w].text]]
      BY <1>2, <2>2 DEF CreateJob
    <3> HIDE DEF marked
    <3>2. CASE j # k
      BY <3>1, <3>2 DEF TypeOK, Keeps
    <3>3. CASE j = k
      BY <3>1, <3>3 DEF TypeOK, NoJob
    <3> QED
      BY <3>2, <3>3
  <2> QED
    BY <2>1, <2>2
<1>3. ASSUME NEW k \in JobId, NEW w \in Worker, jobs' = Claimed(k, w), Claims(k)
      PROVE  Good
  BY <1>3 DEF Claimed, TypeOK, Job, Keeps
<1>4. ASSUME NEW w \in Worker, Checkpoint(w) PROVE Good
  <2> DEFINE mark == Marks(w)
  <2>1. /\ exec[w].job \in JobId
        /\ jobs[exec[w].job].status = "running"
        /\ jobs' = [jobs EXCEPT ![exec[w].job] =
                      [jobs[exec[w].job] EXCEPT !.started = mark,
                                                !.text = exec[w].text]]
    BY <1>4 DEF Checkpoint, Owns
  <2> HIDE DEF mark
  <2>2. CASE j = exec[w].job
    BY <1>4, <2>1, <2>2 DEF TypeOK, Job, Writes
  <2>3. CASE j # exec[w].job
    BY <2>1, <2>3 DEF TypeOK, Keeps
  <2> QED
    BY <2>2, <2>3
<1>5. ASSUME NEW k \in JobId, jobs' = Closed(k), Left PROVE Good
  BY <1>5 DEF Closed, NoJob, TypeOK, Job, Keeps
<1>6. ASSUME NEW k \in JobId, Lapse(k) PROVE Good
  BY <1>6 DEF Lapse, TypeOK, Job, Keeps
<1>7. ASSUME NEW w \in Worker, Execution(w) PROVE Good
  <2>1. CASE TakeJob(w)
    <3>1. CASE UNCHANGED jobs
      BY <1>1, <3>1
    <3>2. CASE ~UNCHANGED jobs
      <4> DEFINE k == exec[w].job
      <4>1. k \in JobId /\ jobs' = Claimed(k, w)
        BY <2>1, <3>2 DEF TakeJob, Placed
      <4>2. Claims(k)
        BY <2>1, <3>2 DEF TakeJob, Claims
      <4> QED
        BY <1>3, <4>1, <4>2
    <3> QED
      BY <3>1, <3>2
  <2>2. CASE Finish(w)
    BY <1>1, <1>5, <2>2 DEF Finish, Owns, ClosersLeft
  <2>3. CASE ClaimList(w) \/ SecretsReject(w) \/ LoseCheckpoint(w) \/ RunTool(w)
              \/ Begin(w) \/ Delta(w) \/ ToolCall(w) \/ Announce(w)
              \/ Suspend(w) \/ Complete(w)
    BY <1>1, <2>3 DEF ClaimList, SecretsReject, LoseCheckpoint, RunTool, Begin,
                      Delta, ToolCall, Announce, Suspend, Complete
  <2> QED
    BY <1>2, <1>4, <1>7, <2>1, <2>2, <2>3 DEF Execution
<1>8. ASSUME NEW w \in Worker, Serve(w) PROVE Good
  <2>1. CASE ReconcileClaim(w) \/ Seize(w)
    BY <1>1, <1>3, <2>1 DEF ReconcileClaim, Seize, Claims
  <2>2. CASE CloseJob(w)
    BY <1>1, <1>5, <2>2 DEF CloseJob, Owns, ClosersLeft
  <2>3. CASE CancelCommit(w) \/ FailRun(w) \/ Continue(w) \/ Requeue(w)
              \/ AnnounceDispatch(w) \/ ResumeRead(w) \/ AwaitRead(w)
              \/ Examine(w)
    BY <1>1, <2>3 DEF CancelCommit, FailRun, Continue, Requeue,
                      AnnounceDispatch, ResumeRead, AwaitRead, Examine
  <2> QED
    BY <1>8, <2>1, <2>2, <2>3 DEF Serve
<1>9. ASSUME NEW w \in Worker, Other(w) PROVE Good
  BY <1>1, <1>9 DEF Other, Renew, LateRenewal, Client, Recovery, Crash,
                    CancelRead, ExecuteApproved, AnswerDispatch, ReconcileRead,
                    RecoverRead, Look, ReconcileEvents, ReconcileList,
                    RecoverEvents
<1>10. CASE Approve \/ Deny \/ ClaimDispatch \/ WithdrawDispatch \/ GoQuiet
             \/ UNCHANGED vars
  BY <1>1, <1>10 DEF Approve, Deny, ClaimDispatch, WithdrawDispatch, GoQuiet,
                     vars
<1> QED
  BY <1>6, <1>7, <1>8, <1>9, <1>10 DEF Next, Other

\* How an execution moves from one step to the next.
Move(e, f) ==
  \/ /\ f.pc = e.pc /\ f.job = e.job /\ f.event = e.event /\ f.text = e.text
     /\ e.ceded => f.ceded
  \/ f.pc \in {"idle", "list", "create", "announce"}
  \/ f.pc = "claim" /\ f.job \in JobId
  \/ /\ f.job = e.job
     /\ e.pc \in {"checkpoint", "tool", "suspend"} =>
          f.text = e.text /\ f.ceded = e.ceded
     /\ \/ e.pc = "claim" /\ f.pc = "begin"
        \/ e.pc = "checkpoint" /\ f.pc = "stream"
        \/ e.pc = "tool" /\ f.pc \in {"begin", "stream"}
        \/ e.pc \in {"begin", "stream"} /\ f.pc = "checkpoint" /\ f.event \in Output
        \/ e.pc = "checkpoint" /\ e.event = "tool.requested" /\ f.pc = "tool"
        \/ e.pc = "tool" /\ f.pc \in {"failing", "suspend"}
        \/ e.pc = "suspend" /\ f.pc = "checkpoint"
        \/ e.pc = "checkpoint" /\ e.event \in Waiting /\ f.pc = "finish"
        \/ e.pc \in {"stream", "failing"} /\ f.pc = "finish"

\* The fields that control the execution, after each kind of update.
LEMMA Updated ==
  ASSUME NEW e \in Exec, NEW pc, NEW x, NEW y, NEW z, NEW m
  PROVE  /\ LET f == [e EXCEPT !.pc = pc] IN
            /\ f.pc = pc /\ f.job = e.job /\ f.event = e.event
            /\ f.text = e.text /\ f.ceded = e.ceded
         /\ LET f == [e EXCEPT !.pc = pc, !.job = x] IN f.pc = pc /\ f.job = x
         /\ LET f == [e EXCEPT !.pc = pc, !.event = x] IN
            /\ f.pc = pc /\ f.job = e.job /\ f.event = x
            /\ f.text = e.text /\ f.ceded = e.ceded
         /\ LET f == [e EXCEPT !.pc = pc, !.calls = x] IN
            f.pc = pc /\ f.job = e.job /\ f.text = e.text /\ f.ceded = e.ceded
         /\ LET f == [e EXCEPT !.pc = pc, !.mark = m] IN
            f.pc = pc /\ f.job = e.job /\ f.text = e.text /\ f.ceded = e.ceded
         /\ LET f == [e EXCEPT !.pc = pc, !.event = x, !.part = y, !.text = z] IN
            f.pc = pc /\ f.job = e.job /\ f.event = x
         /\ LET f == [e EXCEPT !.pc = pc, !.text = y, !.mark = m, !.retry = z] IN
            f.pc = pc /\ f.job = e.job /\ f.text = y
         /\ LET f == [e EXCEPT !.pc = pc, !.part = x, !.text = y] IN f.pc = pc
         /\ LET f == [e EXCEPT !.pc = pc, !.retry = x, !.part = y, !.text = z] IN
            f.pc = pc
  BY DEF Exec

\* Updates of what an execution knows of its job and of a cancellation.
LEMMA UpdatedInPlace ==
  ASSUME NEW e \in Exec, NEW x, NEW y
  PROVE  /\ Move(e, [e EXCEPT !.aborted = x])
         /\ Move(e, [e EXCEPT !.mark = x])
         /\ Move(e, [e EXCEPT !.late = x])
         /\ Move(e, [e EXCEPT !.mark = x, !.late = y])
  BY DEF Exec, Move

\* Heartbeats touch nothing else.
LEMMA RenewalForm ==
  ASSUME NEW w \in Worker, Renew(w) \/ LateRenewal(w)
  PROVE  \E m, l :
           \/ exec' = [exec EXCEPT ![w] = [exec[w] EXCEPT !.mark = m]]
           \/ exec' = [exec EXCEPT ![w] = [exec[w] EXCEPT !.late = l]]
           \/ exec' = [exec EXCEPT ![w] = [exec[w] EXCEPT !.mark = m, !.late = l]]
<1>1. CASE Renew(w)
  <2> DEFINE m == jobs[exec[w].job].started
             l == exec[w].late \cup {m}
  <2>1. \/ exec' = [exec EXCEPT ![w] = [exec[w] EXCEPT !.mark = m]]
        \/ exec' = [exec EXCEPT ![w] = [exec[w] EXCEPT !.late = l]]
    BY <1>1 DEF Renew
  <2> HIDE DEF m, l
  <2> QED
    BY <2>1
<1>2. CASE LateRenewal(w)
  <2>1. PICK m \in exec[w].late :
          exec' = [exec EXCEPT ![w] = [exec[w] EXCEPT !.mark = m,
                                         !.late = exec[w].late \ {m}]]
    BY <1>2 DEF LateRenewal
  <2> DEFINE l == exec[w].late \ {m}
  <2>2. exec' = [exec EXCEPT ![w] = [exec[w] EXCEPT !.mark = m, !.late = l]]
    BY <2>1
  <2> HIDE DEF l
  <2> QED
    BY <2>2
<1> QED
  BY <1>1, <1>2

\* The step of one process moves no other.
LEMMA MoveOne ==
  ASSUME TypeOK, NEW w \in Worker, NEW e, exec' = [exec EXCEPT ![w] = e],
         Move(exec[w], e)
  PROVE  \A v \in Worker : Move(exec[v], exec'[v])
  BY DEF TypeOK, Move

LEMMA MoveNone ==
  ASSUME UNCHANGED exec PROVE \A v \in Worker : Move(exec[v], exec'[v])
  BY DEF Move

LEMMA MoveCeded ==
  ASSUME TypeOK, NEW j \in JobId, NEW v \in Worker
  PROVE  /\ Move(exec[v], Ceded(j)[v])
         /\ Ceded(j)[v].pc = exec[v].pc
         /\ Ceded(j)[v].job = exec[v].job
         /\ Executing(v) /\ exec[v].job = j => Ceded(j)[v].ceded
<1> DEFINE b == exec[v].ceded \/ (Executing(v) /\ exec[v].job = j)
<1>1. exec[v] \in Exec
  BY DEF TypeOK
<1>2. Ceded(j)[v] = [exec[v] EXCEPT !.ceded = b]
  BY DEF Ceded
<1>3. exec[v].ceded => b
  OBVIOUS
<1>4. Executing(v) /\ exec[v].job = j => b
  OBVIOUS
<1> HIDE DEF b
<1> QED
  BY <1>1, <1>2, <1>3, <1>4 DEF Exec, Move

LEMMA MoveThrow ==
  ASSUME TypeOK, NEW w \in Worker, exec' = [exec EXCEPT ![w] = NoExec]
  PROVE  \A v \in Worker : Move(exec[v], exec'[v])
<1>1. NoExec.pc = "idle"
  BY DEF NoExec
<1>2. Move(exec[w], NoExec)
  BY <1>1 DEF Move
<1> QED
  BY <1>2, MoveOne

\* Every step moves the executions so.
LEMMA ExecMoves ==
  ASSUME TypeOK, Placed, [Next]_vars
  PROVE  \A v \in Worker : Move(exec[v], exec'[v])
<1> DEFINE Goal == \A v \in Worker : Move(exec[v], exec'[v])
<1>1. ASSUME NEW w \in Worker, Execution(w) PROVE Goal
  <2>1. exec[w] \in Exec
    BY DEF TypeOK
  <2>2. CASE ClaimList(w)
    <3>1. /\ Move(exec[w], [exec[w] EXCEPT !.pc = "create"])
          /\ \A j \in JobId :
               Move(exec[w], [exec[w] EXCEPT !.pc = "claim", !.job = j])
      BY <2>1, Updated DEF Move
    <3> QED
      BY <2>2, <3>1, MoveOne DEF ClaimList, Step
  <2>3. CASE CreateJob(w)
    <3>1. \A j \in JobId :
            Move(exec[w], [exec[w] EXCEPT !.pc = "claim", !.job = j])
      BY <2>1, Updated DEF Move
    <3> QED
      BY <2>3, <3>1, MoveOne, MoveThrow DEF CreateJob, Throw
  <2>4. CASE TakeJob(w)
    <3> DEFINE j == exec[w].job
               c == Ceded(j)
               e == [c[w] EXCEPT !.pc = "begin", !.text = jobs[j].text,
                                 !.mark = jobs[j].started, !.retry = FALSE]
    <3>1. j \in JobId /\ exec[w].pc = "claim"
      BY <2>4 DEF Placed, TakeJob
    <3>2. c \in [Worker -> Exec] /\ \A v \in Worker : Move(exec[v], c[v])
      BY <3>1, CededType, MoveCeded
    <3>3. c[w].job = exec[w].job
      BY <3>1, MoveCeded
    <3>4. e.pc = "begin" /\ e.job = c[w].job
      BY <3>2, Updated
    <3>5. NoExec.pc = "idle"
      BY DEF NoExec
    <3>6. \/ exec' = [c EXCEPT ![w] = e]
          \/ exec' = [c EXCEPT ![w] = NoExec]
          \/ exec' = [exec EXCEPT ![w] = NoExec]
      BY <2>4 DEF TakeJob
    <3> HIDE DEF j, c, e
    <3>7. Move(exec[w], e) /\ Move(exec[w], NoExec)
      BY <3>1, <3>3, <3>4, <3>5 DEF Move
    <3> QED
      BY <3>2, <3>6, <3>7, MoveThrow
  <2>5. CASE Begin(w) \/ Delta(w) \/ ToolCall(w)
    <3>1. exec[w].pc \in {"begin", "stream"}
      BY <2>5 DEF Begin, Delta, ToolCall, Streaming
    <3>2. \A x \in Output : \A y, z :
            /\ Move(exec[w], [exec[w] EXCEPT !.pc = "checkpoint", !.event = x])
            /\ Move(exec[w], [exec[w] EXCEPT !.pc = "checkpoint", !.event = x,
                                             !.part = y, !.text = z])
      BY <2>1, <3>1, Updated DEF Move
    <3> QED
      BY <2>5, <3>2, MoveOne DEF Begin, Emit, Delta, ToolCall, Output
  <2>6. CASE SecretsReject(w) \/ LoseCheckpoint(w) \/ Announce(w)
    BY <2>6, MoveThrow DEF SecretsReject, LoseCheckpoint, Announce, Throw
  <2>7. CASE Checkpoint(w)
    <3> DEFINE f == [exec[w] EXCEPT !.pc = AfterCheckpoint(exec[w].event),
                                    !.mark = Marks(w)]
    <3>1. /\ f.pc = AfterCheckpoint(exec[w].event)
          /\ f.job = exec[w].job
          /\ f.text = exec[w].text /\ f.ceded = exec[w].ceded
      BY <2>1, Updated
    <3>2. exec' = [exec EXCEPT ![w] = f] /\ exec[w].pc = "checkpoint"
      BY <2>7 DEF Checkpoint
    <3> HIDE DEF f
    <3> QED
      BY <3>1, <3>2, MoveOne DEF AfterCheckpoint, Waiting, Move
  <2>8. CASE RunTool(w)
    <3>1. /\ Move(exec[w], [exec[w] EXCEPT !.pc = "failing"])
          /\ \A pc \in {"stream", "begin"} : \A n :
               Move(exec[w], [exec[w] EXCEPT !.pc = pc, !.calls = n])
          /\ \A e \in Waiting :
               Move(exec[w], [exec[w] EXCEPT !.pc = "suspend", !.event = e])
      BY <2>1, <2>8, Updated DEF Move, RunTool
    <3> QED
      BY <2>8, <3>1, MoveOne DEF RunTool, Step, Waiting
  <2>9. CASE Suspend(w)
    BY <2>1, <2>9, Updated, MoveOne DEF Suspend, Step, Move
  <2>10. CASE Finish(w)
    <3>1. [NoExec EXCEPT !.pc = "announce", !.event = exec[w].event].pc = "announce"
      BY DEF NoExec
    <3> QED
      BY <2>10, <3>1, MoveOne, MoveThrow DEF Finish, Move
  <2>11. CASE Complete(w)
    <3>1. LET f == [NoExec EXCEPT !.pc = "finish", !.job = exec[w].job] IN
          f.pc = "finish" /\ f.job = exec[w].job
      BY DEF NoExec
    <3> QED
      BY <2>11, <3>1, MoveOne, MoveThrow DEF Complete, Throw, Move
  <2> QED
    BY <1>1, <2>2, <2>3, <2>4, <2>5, <2>6, <2>7, <2>8, <2>9, <2>10, <2>11
    DEF Execution
<1>2. ASSUME NEW w \in Worker, Serve(w) PROVE Goal
  <2>1. CASE Continue(w)
    <3>1. \A p, t : Move(exec[w], [NoExec EXCEPT !.pc = "list", !.part = p,
                                                  !.text = t])
      BY NoExecType, Updated DEF Move
    <3> QED
      BY <2>1, <3>1, MoveOne DEF Continue
  <2>2. CASE Examine(w)
    <3>1. \A p, t : Move(exec[w], [NoExec EXCEPT !.pc = "list", !.retry = TRUE,
                                                  !.part = p, !.text = t])
      BY NoExecType, Updated DEF Move
    <3> QED
      <4>1. CASE UNCHANGED exec
        BY <4>1, MoveNone
      <4>2. CASE \E p, t : exec' = [exec EXCEPT ![w] =
                   [NoExec EXCEPT !.pc = "list", !.retry = TRUE, !.part = p,
                                  !.text = t]]
        BY <3>1, <4>2, MoveOne
      <4> QED
        BY <2>2, <4>1, <4>2 DEF Examine
  <2>3. CASE ReconcileClaim(w) \/ Seize(w)
    BY <2>3, MoveNone, MoveCeded DEF ReconcileClaim, Seize
  <2> QED
    BY <1>2, <2>1, <2>2, <2>3, MoveNone
    DEF Serve, CancelCommit, ResumeRead, AwaitRead, Requeue, AnnounceDispatch,
        CloseJob, FailRun
<1>3. ASSUME NEW w \in Worker, Other(w) PROVE Goal
  <2>1. exec[w] \in Exec
    BY DEF TypeOK
  <2>2. CASE CancelRead(w)
    BY <2>1, <2>2, UpdatedInPlace, MoveOne DEF CancelRead
  <2>3. CASE Renew(w) \/ LateRenewal(w)
    <3>1. \A m, l :
            /\ Move(exec[w], [exec[w] EXCEPT !.mark = m])
            /\ Move(exec[w], [exec[w] EXCEPT !.late = l])
            /\ Move(exec[w], [exec[w] EXCEPT !.mark = m, !.late = l])
      BY <2>1, UpdatedInPlace
    <3> QED
      BY <2>3, <3>1, RenewalForm, MoveOne
  <2> QED
    BY <1>3, <2>2, <2>3, MoveNone, MoveThrow
    DEF Other, Client, Recovery, Crash,
        ExecuteApproved, AnswerDispatch, ReconcileRead, RecoverRead,
        Look, ReconcileEvents, ReconcileList, RecoverEvents, Throw
<1>4. CASE Approve \/ Deny \/ ClaimDispatch \/ WithdrawDispatch \/ GoQuiet
             \/ (\E j \in JobId : Lapse(j)) \/ UNCHANGED vars
  BY <1>4, MoveNone DEF Approve, Deny, ClaimDispatch, WithdrawDispatch, GoQuiet,
                        Lapse, vars
<1> QED
  BY <1>1, <1>2, <1>3, <1>4 DEF Next, Other

-----------------------------------------------------------------------------
\* An execution keeps its job from the claim on.
LEMMA PlacedStep == TypeOK /\ Placed /\ [Next]_vars => Placed'
<1> SUFFICES ASSUME TypeOK, Placed, [Next]_vars PROVE Placed'
  OBVIOUS
<1> QED
  BY ExecMoves DEF Placed, Move

\* Some moves belong to one action.
Decisive(v) ==
  /\ exec[v].pc = "claim" /\ exec'[v].pc = "begin" => TakeJob(v)
  /\ exec[v].pc = "checkpoint" /\ exec'[v].pc \in {"tool", "stream"} => Checkpoint(v)
  /\ exec[v].pc \in {"stream", "failing"} /\ exec'[v].pc = "finish" => Complete(v)
  /\ exec[v].pc = "suspend" /\ exec'[v].pc = "checkpoint" => Suspend(v)

LEMMA Decides ==
  ASSUME TypeOK, Placed, [Next]_vars, NEW v \in Worker PROVE Decisive(v)
<1>1. ASSUME exec'[v].pc = exec[v].pc PROVE Decisive(v)
  BY <1>1 DEF Decisive
<1>2. ASSUME exec'[v].pc \in {"idle", "list"} PROVE Decisive(v)
  BY <1>2 DEF Decisive
<1>3. ASSUME NEW w \in Worker, NEW e, w # v, exec' = [exec EXCEPT ![w] = e]
      PROVE  Decisive(v)
  BY <1>1, <1>3 DEF TypeOK
<1>4. ASSUME NEW w \in Worker, Throw(w) PROVE Decisive(v)
  <2>1. NoExec.pc = "idle"
    BY DEF NoExec
  <2> QED
    BY <1>2, <1>3, <1>4, <2>1 DEF Throw, TypeOK
<1>5. ASSUME NEW w \in Worker, Execution(w) PROVE Decisive(v)
  <2>1. CASE w = v
    <3>1. CASE ClaimList(v) \/ CreateJob(v) \/ TakeJob(v) \/ Finish(v)
                 \/ Announce(v) \/ RunTool(v) \/ Begin(v)
      BY <3>1 DEF Decisive, ClaimList, CreateJob, TakeJob, Finish, Announce,
                  RunTool, Begin
    <3>2. CASE SecretsReject(v) \/ LoseCheckpoint(v)
      BY <1>4, <3>2 DEF SecretsReject, LoseCheckpoint
    <3>3. CASE Delta(v) \/ ToolCall(v)
      <4>1. exec'[v].pc = "checkpoint"
        BY <3>3 DEF Delta, ToolCall, Emit, TypeOK, Exec
      <4> QED
        BY <3>3, <4>1 DEF Decisive, Delta, ToolCall, Streaming
    <3>4. CASE Checkpoint(v) \/ Suspend(v) \/ Complete(v)
      BY <3>4 DEF Decisive, Checkpoint, Suspend, Complete
    <3> QED
      BY <1>5, <2>1, <3>1, <3>2, <3>3, <3>4 DEF Execution
  <2>2. CASE w # v
    <3>1. CASE TakeJob(w)
      <4>1. CASE exec' = [exec EXCEPT ![w] = NoExec]
        BY <1>3, <2>2, <4>1
      <4>2. CASE exec' # [exec EXCEPT ![w] = NoExec]
        <5>1. exec[w].job \in JobId
          BY <3>1 DEF Placed, TakeJob
        <5>2. exec'[v] = Ceded(exec[w].job)[v]
          BY <2>2, <3>1, <4>2, <5>1, CededType DEF TakeJob
        <5> QED
          BY <1>1, <5>1, <5>2, MoveCeded
      <4> QED
        BY <4>1, <4>2
    <3> QED
    BY <1>3, <1>4, <1>5, <2>2, <3>1
    DEF Execution, ClaimList, CreateJob, Begin, Emit, SecretsReject,
        Delta, ToolCall, Checkpoint, LoseCheckpoint, RunTool, Suspend, Finish,
        Announce, Complete, Step
  <2> QED
    BY <2>1, <2>2
<1>6. ASSUME NEW w \in Worker, Serve(w) PROVE Decisive(v)
  <2>1. CASE Continue(w) \/ Examine(w)
    <3>1. CASE UNCHANGED exec
      BY <1>1, <3>1
    <3>2. CASE w # v
      BY <1>1, <1>3, <2>1, <3>2 DEF Continue, Examine
    <3>3. CASE w = v /\ ~UNCHANGED exec
      BY <2>1, <3>3 DEF Decisive, Continue, Examine
    <3> QED
      BY <3>1, <3>2, <3>3
  <2>2. CASE ReconcileClaim(w) \/ Seize(w)
    BY <1>1, <2>2, MoveCeded DEF ReconcileClaim, Seize
  <2> QED
    BY <1>1, <1>6, <2>1, <2>2
    DEF Serve, CancelCommit, ResumeRead, AwaitRead, Requeue, AnnounceDispatch,
        CloseJob, FailRun
<1>7. ASSUME NEW w \in Worker, Other(w)
      PROVE  Decisive(v)
  <2>1. CASE CancelRead(w)
    <3>1. exec'[v].pc = exec[v].pc
      BY <2>1 DEF CancelRead, TypeOK, Exec
    <3> QED
      BY <3>1 DEF Decisive
  <2>2. CASE Renew(w) \/ LateRenewal(w)
    <3>1. PICK m, l :
            \/ exec' = [exec EXCEPT ![w] = [exec[w] EXCEPT !.mark = m]]
            \/ exec' = [exec EXCEPT ![w] = [exec[w] EXCEPT !.late = l]]
            \/ exec' = [exec EXCEPT ![w] = [exec[w] EXCEPT !.mark = m,
                                                           !.late = l]]
      BY <2>2, RenewalForm
    <3>2. exec[w] \in Exec
      BY DEF TypeOK
    <3>3. /\ [exec[w] EXCEPT !.mark = m].pc = exec[w].pc
          /\ [exec[w] EXCEPT !.late = l].pc = exec[w].pc
          /\ [exec[w] EXCEPT !.mark = m, !.late = l].pc = exec[w].pc
      BY <3>2 DEF Exec
    <3>4. CASE w # v
      BY <1>3, <3>1, <3>4
    <3>5. CASE w = v
      BY <1>1, <3>1, <3>3, <3>5 DEF TypeOK
    <3> QED
      BY <3>4, <3>5
  <2> QED
    BY <1>1, <1>4, <1>7, <2>1, <2>2
    DEF Other, Client, Recovery, Crash,
        ExecuteApproved, AnswerDispatch, ReconcileRead, RecoverRead,
        Look, ReconcileEvents, ReconcileList, RecoverEvents
<1>8. CASE Approve \/ Deny \/ ClaimDispatch \/ WithdrawDispatch \/ GoQuiet
             \/ (\E j \in JobId : Lapse(j)) \/ UNCHANGED vars
  BY <1>1, <1>8 DEF Approve, Deny, ClaimDispatch, WithdrawDispatch, GoQuiet,
                    Lapse, vars
<1> QED
  BY <1>5, <1>6, <1>7, <1>8 DEF Next, Other

\* While an execution runs under the last claim of its job and is not about to
\* checkpoint, no step touches the mark and the text of the job.
Between == {"begin", "stream", "tool", "suspend", "failing"}

LEMMA JobIsKept ==
  ASSUME TypeOK, Placed, ClosersLeft, [Next]_vars, NEW v \in Worker,
         exec[v].pc \in Between, exec'[v].job = exec[v].job,
         Owns(v, exec[v].job)', ~exec'[v].ceded
  PROVE  Keeps(exec[v].job)
<1> DEFINE j == exec[v].job
<1>1. j \in JobId
  BY DEF Placed, Between
<1>2. jobs'[j].status = "running" /\ jobs'[j].owner = v
  BY DEF Owns
<1>3. ~Claims(j)
  <2>1. Ceded(j) \in [Worker -> Exec] /\ Ceded(j)[v].ceded
    BY <1>1, CededType, MoveCeded DEF Executing, Between
  <2> QED
    BY <2>1 DEF Claims, Between
<1>4. ~Writes(j)
  <2>1. ASSUME NEW w \in Worker, Checkpoint(w), exec[w].job = j PROVE FALSE
    <3>1. jobs'[j].owner = w
      BY <1>1, <2>1 DEF Checkpoint, Owns, TypeOK, Job
    <3> QED
      BY <1>2, <2>1, <3>1 DEF Checkpoint, Between
  <2> QED
    BY <2>1 DEF Writes
<1> QED
  BY <1>1, <1>2, <1>3, <1>4, JobSteps

\* A tool is called right after the checkpoint of its request, which marks the
\* job; from there on the mark stays until the job is claimed again.
LEMMA ToolRunIsMarkedStep ==
  ASSUME TypeOK, Placed, ClosersLeft, ToolRunIsMarked, [Next]_vars
  PROVE  ToolRunIsMarked'
<1> DEFINE Toolish == {"tool", "suspend", "failing"}
<1> SUFFICES ASSUME NEW v \in Worker,
                    exec'[v].pc \in Toolish,
                    Owns(v, exec[v].job)',
                    ~exec'[v].ceded
             PROVE  jobs'[exec'[v].job].started
  BY DEF ToolRunIsMarked
<1>1. Move(exec[v], exec'[v])
  BY ExecMoves
<1>2. CASE exec[v].pc \in Toolish
  <2>1. /\ exec'[v].job = exec[v].job
        /\ ~exec[v].ceded
    BY <1>1, <1>2 DEF Move, Placed
  <2>2. Keeps(exec[v].job)
    BY <1>2, <2>1, JobIsKept DEF Between
  <2> QED
    BY <1>2, <2>1, <2>2 DEF Keeps, ToolRunIsMarked, Owns
<1>3. CASE exec[v].pc \notin Toolish
  <2>1. /\ exec[v].pc = "checkpoint" /\ exec[v].event = "tool.requested"
        /\ exec'[v].pc = "tool" /\ exec'[v].job = exec[v].job
    BY <1>1, <1>3 DEF Move
  <2>2. Checkpoint(v)
    BY <2>1, Decides DEF Decisive
  <2>3. Marks(v)
    BY <2>1 DEF Marks, Marking
  <2> QED
    BY <2>1, <2>2, <2>3 DEF Checkpoint, Owns, TypeOK, Job
<1> QED
  BY <1>2, <1>3

\* The text of a job and of the execution under its last claim agree from the
\* claim on, part at the append of a part, and agree again at its checkpoint.
LEMMA CheckpointIsCurrentStep ==
  ASSUME TypeOK, Placed, ClosersLeft, CheckpointIsCurrent, [Next]_vars
  PROVE  CheckpointIsCurrent'
<1> SUFFICES ASSUME NEW v \in Worker,
                    exec'[v].pc \in Between,
                    Owns(v, exec[v].job)',
                    ~exec'[v].ceded
             PROVE  jobs'[exec'[v].job].text = exec'[v].text
  BY DEF CheckpointIsCurrent, Between
<1>1. Move(exec[v], exec'[v])
  BY ExecMoves
<1>2. CASE exec[v].pc \in Between
  <2>1. /\ exec'[v].job = exec[v].job
        /\ exec'[v].text = exec[v].text
        /\ ~exec[v].ceded
    BY <1>1, <1>2 DEF Move, Between
  <2>2. Keeps(exec[v].job)
    BY <1>2, <2>1, JobIsKept
  <2> QED
    BY <1>2, <2>1, <2>2 DEF Keeps, CheckpointIsCurrent, Owns, Between
<1>3. CASE exec[v].pc \notin Between
  <2>1. CASE exec[v].pc = "claim"
    <3>1. exec'[v].pc = "begin" /\ TakeJob(v)
      BY <1>1, <1>3, <2>1, Decides DEF Move, Decisive, Between
    <3> DEFINE j == exec[v].job
               c == Ceded(j)
               e == [c[v] EXCEPT !.pc = "begin", !.text = jobs[j].text,
                                 !.mark = jobs[j].started, !.retry = FALSE]
    <3>2. j \in JobId
      BY <2>1 DEF Placed
    <3>3. c \in [Worker -> Exec] /\ c[v].job = j
      BY <3>2, CededType, MoveCeded
    <3>4. e.job = j /\ e.text = jobs[j].text
      BY <3>3, Updated
    <3>5. exec' = [c EXCEPT ![v] = e] /\ jobs' = Claimed(j, v)
      <4>1. NoExec.pc = "idle"
        BY DEF NoExec
      <4> QED
        BY <3>1, <3>3, <4>1 DEF TakeJob, TypeOK
    <3> HIDE DEF c, e
    <3>6. exec'[v] = e
      BY <3>3, <3>5
    <3> QED
      BY <3>2, <3>4, <3>5, <3>6 DEF Claimed, TypeOK, Job
  <2>2. CASE exec[v].pc = "checkpoint"
    <3>1. /\ exec'[v].pc \in {"tool", "stream"}
          /\ exec'[v].job = exec[v].job /\ exec'[v].text = exec[v].text
      BY <1>1, <1>3, <2>2 DEF Move, Between
    <3>2. Checkpoint(v)
      BY <2>2, <3>1, Decides DEF Decisive
    <3> DEFINE mark == Marks(v)
    <3>3. /\ exec[v].job \in JobId
          /\ jobs' = [jobs EXCEPT ![exec[v].job] =
                        [jobs[exec[v].job] EXCEPT !.started = mark,
                                                  !.text = exec[v].text]]
      BY <3>2 DEF Checkpoint, Owns
    <3> HIDE DEF mark
    <3> QED
      BY <3>1, <3>3 DEF TypeOK, Job
  <2> QED
    BY <1>1, <1>3, <2>1, <2>2 DEF Move, Between
<1> QED
  BY <1>2, <1>3

\* The closer of a job has seen the run leave its first execution.
LEMMA ClosedJobLeftRunningStep ==
  ASSUME TypeOK, Placed, ClosersLeft, ClosedJobLeftRunning,
         [Next]_vars
  PROVE  ClosedJobLeftRunning'
<1>1. (\E j \in JobId : jobs'[j].status = "settled") => Left
  BY JobSteps DEF Keeps, ClosedJobLeftRunning, Left
<1> QED
  BY <1>1, LeftIsStable DEF ClosedJobLeftRunning, Left

\* The steps of a request that is about to close a job.
Closing == {"events", "newest", "reconcile", "close"}

LEMMA RequestSteps ==
  ASSUME TypeOK, ClosersLeft, [Next]_vars, NEW v \in Worker,
         request'[v].pc \in Closing
  PROVE  Left \/ Left'
<1>1. ASSUME request'[v] = request[v] PROVE Left
  BY <1>1 DEF ClosersLeft, Closing
<1>2. NoRequest.pc = "idle"
  BY DEF NoRequest
<1>3. \A pc : Serving(pc).pc = pc
  BY DEF Serving, NoRequest
<1>4. ASSUME NEW w \in Worker, NEW q, request' = [request EXCEPT ![w] = q],
             w # v \/ q.pc \notin Closing
      PROVE  Left
  BY <1>1, <1>4 DEF TypeOK
<1>5. ASSUME NEW w \in Worker, Throw(w) PROVE Left
  BY <1>1, <1>2, <1>4, <1>5 DEF Throw, Closing
<1>6. ASSUME NEW w \in Worker, Execution(w) PROVE Left
  BY <1>1, <1>5, <1>6
  DEF Execution, ClaimList, CreateJob, TakeJob, Begin, Emit, SecretsReject,
      Delta, ToolCall, Checkpoint, LoseCheckpoint, RunTool, Suspend, Finish,
      Announce, Complete
<1>7. ASSUME NEW w \in Worker, Serve(w) PROVE Left \/ Left'
  <2>1. CASE CancelCommit(w) \/ ResumeRead(w) \/ Continue(w) \/ AwaitRead(w)
               \/ Requeue(w) \/ AnnounceDispatch(w) \/ CloseJob(w)
    BY <1>2, <1>3, <1>4, <2>1
    DEF CancelCommit, ResumeRead, Continue, AwaitRead, Requeue,
        AnnounceDispatch, CloseJob, Closing
  <2>2. CASE Examine(w)
    BY <1>2, <1>3, <1>4, <2>2 DEF Examine, Closing
  <2>3. CASE Seize(w)
    <3>1. \A j \in JobId : [Serving("fail") EXCEPT !.job = j].pc = "fail"
      BY DEF Serving, NoRequest
    <3> QED
      BY <1>2, <1>4, <2>3, <3>1 DEF Seize, Closing
  <2>4. CASE ReconcileClaim(w)
    <3>1. CASE w = v
      BY <2>4, <3>1 DEF ReconcileClaim, ClosersLeft
    <3>2. CASE w # v
      BY <1>4, <2>4, <3>2 DEF ReconcileClaim
    <3> QED
      BY <3>1, <3>2
  <2>5. CASE FailRun(w)
    <3>1. CASE Settle("failed", "run.failed") \/ AlreadySettled
      BY <3>1 DEF Settle, AlreadySettled, Left, Settled
    <3>2. CASE ~(Settle("failed", "run.failed") \/ AlreadySettled)
      BY <1>2, <1>4, <2>5, <3>2 DEF FailRun, Closing
    <3> QED
      BY <3>1, <3>2
  <2> QED
    BY <1>7, <2>1, <2>2, <2>3, <2>4, <2>5 DEF Serve
<1>8. ASSUME NEW w \in Worker, Other(w)
      PROVE  Left
  <2>1. CASE CancelRead(w)
    <3>1. [Serving("cancel") EXCEPT !.seen = status].pc = "cancel"
      BY DEF Serving, NoRequest
    <3> QED
      BY <1>4, <2>1, <3>1 DEF CancelRead, Closing
  <2>2. CASE ReconcileRead(w) \/ Look(w)
    <3>1. CASE ReconcileRead(w)
      BY <3>1 DEF ReconcileRead, Left
    <3>2. CASE RecoverEvents(w)
      BY <1>2, <1>3, <1>4, <3>2 DEF RecoverEvents, Closing
    <3>3. CASE ReconcileEvents(w) \/ ReconcileList(w)
      <4>1. Left
        BY <3>3 DEF ReconcileEvents, ReconcileList, ClosersLeft
      <4> QED
        BY <4>1
    <3> QED
      BY <2>2, <3>1, <3>2, <3>3 DEF Look
  <2>3. CASE Renew(w) \/ LateRenewal(w)
    BY <1>1, <2>3 DEF Renew, LateRenewal
  <2>4. CASE Crash(w)
    BY <1>1, <1>2, <1>4, <1>5, <2>4 DEF Crash, Closing
  <2> QED
    BY <1>2, <1>3, <1>4, <1>8, <2>1, <2>2, <2>3, <2>4
    DEF Other, Client, Recovery,
        ExecuteApproved, AnswerDispatch, RecoverRead,
        Closing
<1>9. CASE Approve \/ Deny \/ ClaimDispatch \/ WithdrawDispatch \/ GoQuiet
             \/ (\E j \in JobId : Lapse(j)) \/ UNCHANGED vars
  BY <1>1, <1>9 DEF Approve, Deny, ClaimDispatch, WithdrawDispatch, GoQuiet,
                    Lapse, vars
<1> QED
  BY <1>6, <1>7, <1>8, <1>9 DEF Next, Other

\* An execution is about to finish after it settled or suspended the run, and a
\* request closes a job after it read or made the run settled or suspended.
LEMMA ClosersLeftStep ==
  ASSUME TypeOK, Placed, ClosersLeft, [Next]_vars PROVE ClosersLeft'
<1> SUFFICES ASSUME NEW v \in Worker
             PROVE  /\ exec'[v].pc = "finish" => Left'
                    /\ exec'[v].pc = "checkpoint" /\ exec'[v].event \in Waiting
                         => Left'
                    /\ request'[v].pc \in Closing => Left'
  BY DEF ClosersLeft, Closing
<1>1. Left => Left'
  BY LeftIsStable
<1>2. Move(exec[v], exec'[v]) /\ Decisive(v)
  BY ExecMoves, Decides
<1>3. ASSUME exec'[v].pc = "finish" PROVE Left'
  <2>1. CASE exec[v].pc \in {"stream", "failing"}
    <3>1. Complete(v)
      BY <1>2, <1>3, <2>1 DEF Decisive
    <3>2. ~Throw(v)
      BY <1>3 DEF Throw, NoExec, TypeOK
    <3>3. status' # "running"
      BY <3>1, <3>2 DEF Complete, Settle, AlreadySettled, Settled
    <3> QED
      BY <3>3 DEF Left
  <2>2. CASE exec[v].pc \notin {"stream", "failing"}
    BY <1>1, <1>2, <1>3, <2>2 DEF Move, ClosersLeft
  <2> QED
    BY <2>1, <2>2
<1>4. ASSUME exec'[v].pc = "checkpoint", exec'[v].event \in Waiting PROVE Left'
  <2>1. CASE exec[v].pc = "suspend"
    <3>1. Suspend(v)
      BY <1>2, <1>4, <2>1 DEF Decisive
    <3> QED
      BY <3>1 DEF Suspend, Left
  <2>2. CASE exec[v].pc # "suspend"
    BY <1>1, <1>2, <1>4, <2>2 DEF Move, ClosersLeft, Output, Waiting
  <2> QED
    BY <2>1, <2>2
<1>5. request'[v].pc \in Closing => Left'
  BY <1>1, RequestSteps
<1> QED
  BY <1>3, <1>4, <1>5

\* The terminal effects are committed with the settling of the run, which asks
\* that they were not; only a denied approval settles a run without.
LEMMA TerminalEffectsOnceStep ==
  ASSUME TypeOK, TerminalEffectsOnce, [Next]_vars PROVE TerminalEffectsOnce'
<1>1. ASSUME NEW o \in Settled, NEW e, Settle(o, e), UNCHANGED approval
      PROVE  TerminalEffectsOnce'
  BY <1>1 DEF Settle, TerminalEffectsOnce
<1>2. ASSUME UNCHANGED effects, status' \in Settled => status \in Settled,
             approval = "denied" => approval' = "denied"
      PROVE  TerminalEffectsOnce'
  BY <1>2 DEF TerminalEffectsOnce
<1>3. ASSUME NEW w \in Worker, Execution(w) PROVE TerminalEffectsOnce'
  <2>1. CASE Complete(w)
    BY <1>1, <1>2, <2>1 DEF Complete, AlreadySettled, SettleThrows, Settled
  <2>2. CASE RunTool(w)
    BY <1>2, <2>2 DEF RunTool
  <2>3. CASE Suspend(w)
    BY <1>2, <2>3 DEF Suspend, Settled
  <2> QED
    BY <1>2, <1>3, <2>1, <2>2, <2>3
    DEF Execution, ClaimList, CreateJob, TakeJob, Begin, SecretsReject, Delta,
        ToolCall, Checkpoint, LoseCheckpoint, Finish, Announce
<1>4. ASSUME NEW w \in Worker, Serve(w) PROVE TerminalEffectsOnce'
  <2>1. CASE CancelCommit(w) \/ FailRun(w)
    BY <1>1, <1>2, <2>1
    DEF CancelCommit, FailRun, AlreadySettled, SettleThrows, Settled
  <2>2. CASE Continue(w) \/ Requeue(w)
    BY <1>2, <2>2 DEF Continue, Requeue, Settled
  <2> QED
    BY <1>2, <1>4, <2>1, <2>2
    DEF Serve, ResumeRead, AwaitRead, AnnounceDispatch, ReconcileClaim,
        CloseJob, Examine, Seize
<1>5. ASSUME NEW w \in Worker, Other(w)
      PROVE  TerminalEffectsOnce'
  BY <1>2, <1>5 DEF Other, Renew, LateRenewal, Client, Recovery, Crash,
        CancelRead, ExecuteApproved,
                    AnswerDispatch, ReconcileRead, RecoverRead, Look,
                    ReconcileEvents, ReconcileList, RecoverEvents
<1>6. CASE Deny
  BY <1>6 DEF Deny, TerminalEffectsOnce
<1>7. CASE Approve \/ ClaimDispatch \/ WithdrawDispatch \/ GoQuiet
             \/ (\E j \in JobId : Lapse(j)) \/ UNCHANGED vars
  BY <1>2, <1>7 DEF Approve, ClaimDispatch, WithdrawDispatch, GoQuiet, Lapse, vars
<1> QED
  BY <1>3, <1>4, <1>5, <1>6, <1>7 DEF Next, Other

-----------------------------------------------------------------------------
\* The inductive invariant holds at the start and is kept by every step.
LEMMA InitRunInv == Init => RunInv
<1> SUFFICES ASSUME Init PROVE RunInv
  OBVIOUS
<1>1. TypeOK
  BY InitType
<1>2. \A w \in Worker : exec[w].pc \in {"idle", "list"}
  BY DEF Init, NoExec
<1>3. \A w \in Worker : request[w].pc = "idle"
  BY DEF Init, NoRequest
<1>4. \A j \in JobId : jobs[j].status = "absent" /\ ~jobs[j].started
  BY DEF Init, NoJob
<1> QED
  BY <1>1, <1>2, <1>3, <1>4
  DEF RunInv, Placed, ToolRunIsMarked, CheckpointIsCurrent, ClosersLeft,
      ClosedJobLeftRunning, TerminalEffectsOnce, Init, Settled

LEMMA StepRunInv == RunInv /\ [Next]_vars => RunInv'
  BY TypeStep, PlacedStep, ToolRunIsMarkedStep, CheckpointIsCurrentStep,
     ClosersLeftStep, ClosedJobLeftRunningStep, TerminalEffectsOnceStep
  DEF RunInv

LEMMA Inductive == Spec => []RunInv
  BY InitRunInv, StepRunInv, PTL DEF Spec

\* The variables of the model keep their types: no step writes a value that the
\* rows, the flows and the requests of the code could not hold.
THEOREM TypeCorrect == Spec => []TypeOK
<1>1. RunInv => TypeOK
  BY DEF RunInv
<1> QED
  BY <1>1, Inductive, PTL

\* While a model's tool runs under the last claim of its job, the job says in the
\* database that output has started (execute checkpoints tool.requested before it
\* calls the tool): whatever heartbeats, recoveries and crashes do meanwhile, no
\* recovery that reads the job takes the run for one to execute again.
THEOREM ToolCallsAreMarked == Spec => []ToolRunIsMarked
<1>1. RunInv => ToolRunIsMarked
  BY DEF RunInv
<1> QED
  BY <1>1, Inductive, PTL

\* The checkpoint of an execution whose claim is the last one holds the answer as
\* the execution has it, outside of its own appends: the update guarded by the
\* lease lets no other process write into it.
THEOREM CheckpointsAreCurrent == Spec => []CheckpointIsCurrent
<1>1. RunInv => CheckpointIsCurrent
  BY DEF RunInv
<1> QED
  BY <1>1, Inductive, PTL

\* A job is closed only for a run that has ended, waits, or was continued, so a
\* recovery that finds no open job does not fail a run in its first execution.
THEOREM ClosedMeansLeft == Spec => []ClosedJobLeftRunning
<1>1. RunInv => ClosedJobLeftRunning
  BY DEF RunInv
<1> QED
  BY <1>1, Inductive, PTL

\* The terminal effects are committed at most once, and a run ends without them
\* only by a denied tool approval, although updateRun may reopen an ended run
\* and completeRun asks for no lease.
THEOREM EffectsOnce == Spec => []TerminalEffectsOnce
<1>1. RunInv => TerminalEffectsOnce
  BY DEF RunInv
<1> QED
  BY <1>1, Inductive, PTL
=============================================================================
