----------------------- MODULE PolicyApproval_proofs -----------------------
(***************************************************************************)
(* For any number of processes, parts, pauses and faults: a run that ended *)
(* has its effects; and while nothing crashed or stalled and no approval   *)
(* was granted by two processes at once, a refusal has ended its run, and  *)
(* a run is in one hand, held until it is decided and goes on where it was *)
(* held.                                                                   *)
(***************************************************************************)
EXTENDS PolicyApproval, TLAPS

USE MaxPartsAssumption, MaxApprovalsAssumption, MaxFaultsAssumption, NoneAssumption

Pending(a) == approvals[a] = "pending"

\* An execution that has claimed the job.
Active(w) == exec[w].pc \notin {"idle", "claim"}

\* The process that has the run in hand: it executes it, or is about to resume it.
Hand(w) == exec[w].pc # "idle" \/ request[w].pc = "resume"

\* An approval that is being granted is locked for one request, which has read
\* the job with its id; and a run that waits, or waited, has one in its job as
\* long as no execution opens another.
ApprovalsLocked ==
  /\ \A w \in Process : request[w].pc = "decide" => request[w].approval \in Approval
  /\ \A w \in Process : request[w].pc = "approve" =>
       /\ request[w].approval \in Approval
       /\ Pending(request[w].approval)
       /\ request[w].copy.approval = request[w].approval
  /\ \A v, w \in Process :
       /\ request[v].pc = "approve"
       /\ request[w].pc = "approve"
       /\ request[v].approval = request[w].approval
       => v = w
  /\ ~contended /\ status = "waiting" => job.approval # NoApproval
  /\ \A w \in Process :
       ~contended /\ request[w].pc = "settle" /\ request[w].seen = "waiting" =>
         job.approval # NoApproval
  /\ \A w \in Process : request[w].pc = "seize" => exec[w].pc = "idle"

\* What a run that never ended is like while it is undisturbed.
HeldInOneHand ==
  /\ ~quiet
  /\ ~repeated
  /\ \A w \in Process :
       request[w].pc \in {"idle", "decide", "approve", "resume", "cancel", "settle"}
  /\ \A w \in Process : request[w].pc = "settle" => request[w].seen = "waiting"
  /\ status = "running" => \E w \in Process : Hand(w)
  /\ \A v, w \in Process : Hand(v) /\ Hand(w) => v = w
  /\ \A w \in Process : Hand(w) => status = "running"
  /\ \A w \in Process : Active(w) =>
       Owns(w) /\ exec[w].text < exec[w].next /\ exec[w].pc # "finish"
  /\ \A w \in Process : exec[w].pc \in {"held", "pause"} =>
       \E a \in Approval : approvals[a] = "absent"
  /\ \A w \in Process : exec[w].pc = "claim" =>
       job.status = "queued" /\ job.text < exec[w].next
  /\ \A w \in Process : request[w].pc = "resume" =>
       /\ exec[w].pc = "idle"
       /\ job.status = "queued"
       /\ job.approval = request[w].approval
  /\ \A w \in Process : request[w].pc = "approve" =>
       status = "waiting" /\ request[w].copy = job
  /\ status = "waiting" => job.status = "queued" /\ \E a \in Approval : Current(a)

\* What is left of it when the run ended, or came back after its end.
PendingIsAlone ==
  /\ \A a \in Approval : Pending(a) => status # "running"
  /\ \A a, b \in Approval : Pending(a) /\ Pending(b) => a = b
  /\ \A a \in Approval, w \in Process :
       Pending(a) => ~(exec[w].pc = "pause" /\ Owns(w))

EndedIsQuiet ==
  status = "ended" =>
    /\ \A w \in Process : request[w].pc \notin {"examine", "seize"}
    /\ \A v, w \in Process : exec[v].pc # "idle" /\ exec[w].pc # "idle" => v = w
    /\ \A a \in Approval, w \in Process :
         approvals[a] \in {"pending"} \cup Refused => exec[w].pc = "idle"

\* A reconciliation that found the run ended, and is overtaken by its return.
OvertakenIsIdle ==
  \A w \in Process :
    request[w].pc = "settle" /\ request[w].seen # "waiting" /\ status # "ended" =>
      exec[w].pc = "idle"

RefusedIsOver ==
  \A a \in Approval : approvals[a] \in Refused =>
    status = "ended" /\ \A w \in Process : request[w].pc # "approve"

\* The inductive invariant.
PauseInv ==
  /\ TypeOK
  /\ EndedWithEffects
  /\ ApprovalsLocked
  /\ Orderly => HeldInOneHand
  /\ Undisturbed => PendingIsAlone /\ EndedIsQuiet /\ OvertakenIsIdle /\ RefusedIsOver

-----------------------------------------------------------------------------
\* What the steps do to each part of the state, and the types.
ExecType ==
  [pc : {"idle", "claim", "stream", "logged", "held", "pause", "finish"},
   text : 0 .. MaxParts, next : 1 .. MaxParts + 1, aborted : BOOLEAN]

RequestType ==
  [pc : {"idle", "decide", "approve", "resume", "cancel", "examine", "seize", "fail",
         "settle", "close"},
   approval : Approval \cup {NoApproval}, copy : Job,
   seen : {"running", "waiting", "ended"}, claimed : BOOLEAN]

LEMMA Types ==
  ASSUME TypeOK
  PROVE  /\ exec \in [Process -> ExecType]
         /\ request \in [Process -> RequestType]
         /\ job \in Job
         /\ approvals \in [Approval -> {"absent", "pending", "approved"} \cup Refused]
         /\ NoExec \in ExecType
         /\ NoJob \in Job
         /\ NoRequest \in RequestType
<1>1. exec \in [Process -> ExecType] /\ request \in [Process -> RequestType] /\ job \in Job
  BY DEF TypeOK, ExecType, RequestType
<1>2. NoExec \in ExecType
  BY DEF NoExec, ExecType
<1>3. NoJob \in Job
  BY DEF NoJob, Job
<1>4. NoRequest \in RequestType
  BY <1>3 DEF NoRequest, RequestType
<1> QED BY <1>1, <1>2, <1>3, <1>4 DEF TypeOK

LEMMA TypeParts ==
  ASSUME exec' \in [Process -> ExecType], request' \in [Process -> RequestType], job' \in Job,
         status' \in {"running", "waiting", "ended"}, effects' \in 0 .. 1,
         approvals' \in [Approval -> {"absent", "pending", "approved"} \cup Refused],
         overdue' \in SUBSET Approval, blocked' \in SUBSET Approval, quiet' \in BOOLEAN,
         repeated' \in BOOLEAN, contended' \in BOOLEAN, faults' \in 0 .. MaxFaults
  PROVE  TypeOK'
  BY DEF TypeOK, ExecType, RequestType

OtherExecs(w) == \A u \in Process : u # w => exec'[u] = exec[u]
OtherRequests(w) == \A u \in Process : u # w => request'[u] = request[u]

LEMMA ExecMove ==
  ASSUME TypeOK, NEW w \in Process, NEW v \in ExecType, exec' = [exec EXCEPT ![w] = v]
  PROVE  exec' \in [Process -> ExecType] /\ exec'[w] = v /\ OtherExecs(w)
  BY Types DEF OtherExecs

LEMMA RequestMove ==
  ASSUME TypeOK, NEW w \in Process, NEW v \in RequestType, request' = [request EXCEPT ![w] = v]
  PROVE  request' \in [Process -> RequestType] /\ request'[w] = v /\ OtherRequests(w)
  BY Types DEF OtherRequests

\* Left alone, what an execution or a request did, or is now doing.
LEMMA LeaveFacts ==
  ASSUME TypeOK, NEW w \in Process, Leave(w)
  PROVE  exec' \in [Process -> ExecType] /\ exec'[w] = NoExec /\ OtherExecs(w)
  BY ExecMove, Types DEF Leave

LEMMA ReplyFacts ==
  ASSUME TypeOK, NEW w \in Process, Reply(w)
  PROVE  request' \in [Process -> RequestType] /\ request'[w] = NoRequest /\ OtherRequests(w)
  BY RequestMove, Types DEF Reply

LEMMA GoToFacts ==
  ASSUME TypeOK, NEW w \in Process,
         NEW pc \in {"idle", "claim", "stream", "logged", "held", "pause", "finish"},
         GoTo(w, pc)
  PROVE  /\ exec' \in [Process -> ExecType] /\ OtherExecs(w)
         /\ exec'[w].pc = pc /\ exec'[w].text = exec[w].text /\ exec'[w].next = exec[w].next
<1> DEFINE v == [exec[w] EXCEPT !.pc = pc]
<1>1. exec[w] \in ExecType /\ exec' = [exec EXCEPT ![w] = v]
  BY Types DEF GoTo
<1>2. v \in ExecType /\ v.pc = pc /\ v.text = exec[w].text /\ v.next = exec[w].next
  BY <1>1 DEF ExecType
<1> HIDE DEF v
<1> QED BY <1>1, <1>2, ExecMove

LEMMA ProceedFacts ==
  ASSUME TypeOK, NEW w \in Process,
         NEW pc \in {"idle", "decide", "approve", "resume", "cancel", "examine", "seize", "fail",
                     "settle", "close"},
         Proceed(w, pc)
  PROVE  /\ request' \in [Process -> RequestType] /\ OtherRequests(w)
         /\ request'[w].pc = pc
<1> DEFINE v == [request[w] EXCEPT !.pc = pc]
<1>1. request[w] \in RequestType /\ request' = [request EXCEPT ![w] = v]
  BY Types DEF Proceed
<1>2. v \in RequestType /\ v.pc = pc
  BY <1>1 DEF RequestType
<1> HIDE DEF v
<1> QED BY <1>1, <1>2, RequestMove

LEMMA ExecutedFacts ==
  ASSUME TypeOK, NEW w \in Process, NEW n \in 1 .. MaxParts + 1, Executed(w, n)
  PROVE  /\ exec' \in [Process -> ExecType] /\ OtherExecs(w)
         /\ exec'[w].pc = "claim" /\ exec'[w].next = n
<1> DEFINE v == [NoExec EXCEPT !.pc = "claim", !.next = n, !.text = job.text]
<1>1. exec' = [exec EXCEPT ![w] = v]
  BY DEF Executed
<1>0. NoExec \in ExecType /\ job.text \in 0 .. MaxParts
  BY Types DEF Job
<1>2. v \in ExecType /\ v.pc = "claim" /\ v.next = n
  BY <1>0 DEF ExecType
<1> HIDE DEF v
<1> QED BY <1>1, <1>2, ExecMove

\* What becomes of the job.
Takes(w) ==
  /\ job'.status = "running" /\ job'.owner = w /\ job'.live = TRUE
  /\ job'.approval = job.approval /\ job'.text = job.text

Notes(w) ==
  /\ job'.status = job.status /\ job'.owner = job.owner /\ job'.live = job.live
  /\ job'.approval = job.approval /\ job'.text = exec[w].text

Closes == job'.status = "closed" /\ job'.approval = job.approval

LEMMA JobMoves ==
  ASSUME TypeOK, NEW w \in Process
  PROVE  /\ job' = Claimed(w) => job' \in Job /\ Takes(w)
         /\ job' = Checkpointed(w) => job' \in Job /\ Notes(w)
         /\ job' = Released(job, "closed") => job' \in Job /\ Closes
         /\ job' = Opened(w) => job' \in Job
<1>1. job \in Job /\ exec[w].text \in 0 .. MaxParts
  BY Types DEF ExecType
<1>2. job' = Claimed(w) => job' \in Job /\ Takes(w)
  BY <1>1 DEF Claimed, Job, Takes
<1>3. job' = Checkpointed(w) => job' \in Job /\ Notes(w)
  BY <1>1 DEF Checkpointed, Job, Notes
<1>4. job' = Released(job, "closed") => job' \in Job /\ Closes
  BY <1>1 DEF Released, Job, Closes
<1>5. job' = Opened(w) => job' \in Job
  <2>1. NoJob \in Job /\ (exec[w].text > 0) \in BOOLEAN
    BY Types
  <2>2. \A b \in BOOLEAN, t \in 0 .. MaxParts :
          [NoJob EXCEPT !.status = "running", !.owner = w, !.live = TRUE,
                        !.started = b, !.text = t] \in Job
    BY <2>1 DEF Job
  <2> QED BY <1>1, <2>1, <2>2 DEF Opened
<1> QED BY <1>2, <1>3, <1>4, <1>5

-----------------------------------------------------------------------------
\* The steps of an execution.
LEMMA ClaimFacts ==
  ASSUME TypeOK, NEW w \in Process, Claim(w)
  PROVE  /\ TypeOK' /\ OtherExecs(w)
         /\ UNCHANGED <<run, approvals, due, request, repeated, faults>>
         /\ exec[w].pc = "claim" /\ exec'[w].pc \in {"stream", "idle"}
         /\ \/ /\ Claimable /\ Takes(w) /\ exec'[w].pc = "stream"
               /\ exec'[w].text = job.text /\ exec'[w].next = exec[w].next
               /\ UNCHANGED contended
            \/ contended'
            \/ ~Claimable /\ UNCHANGED <<job, contended>>
<1>0. /\ exec[w].pc = "claim"
      /\ UNCHANGED <<run, approvals, due, request, repeated, faults>>
      /\ contended' = (contended \/ job.status = "closed")
  BY DEF Claim
<1>1. contended' \in BOOLEAN /\ (contended' = contended \/ contended')
  BY <1>0 DEF TypeOK
<1>2. CASE Claimable \/ job.status = "closed"
  <2> DEFINE v == [exec[w] EXCEPT !.pc = "stream", !.text = job'.text]
  <2>1. exec[w] \in ExecType /\ job \in Job
    BY Types
  <2>2. /\ exec' = [exec EXCEPT ![w] = v]
        /\ Claimable => job' = Claimed(w)
        /\ ~Claimable => job' = Opened(w)
    BY <1>2, Types DEF Claim
  <2>3. job' \in Job /\ (Claimable => Takes(w))
    BY <2>2, JobMoves
  <2>4. v \in ExecType /\ v.pc = "stream" /\ v.text = job'.text /\ v.next = exec[w].next
    BY <2>1, <2>3 DEF ExecType, Job
  <2> HIDE DEF v
  <2>5. exec' \in [Process -> ExecType] /\ exec'[w] = v /\ OtherExecs(w)
    BY <2>2, <2>4, ExecMove
  <2>6. TypeOK'
    BY <1>0, <1>1, <2>3, <2>5, TypeParts, Types DEF TypeOK, run, due
  <2>7. Claimable => job.status # "closed"
    BY DEF Claimable
  <2>8. ~Claimable => contended'
    BY <1>0, <1>2
  <2>9. Claimable => contended' = contended
    BY <1>0, <2>7 DEF TypeOK
  <2> QED BY <1>0, <2>3, <2>4, <2>5, <2>6, <2>8, <2>9 DEF Takes
<1>3. CASE ~(Claimable \/ job.status = "closed")
  <2>1. Leave(w) /\ UNCHANGED job
    BY <1>3 DEF Claim
  <2>2. exec' \in [Process -> ExecType] /\ exec'[w] = NoExec /\ OtherExecs(w)
    BY <2>1, LeaveFacts
  <2>3. TypeOK'
    BY <1>0, <1>1, <2>1, <2>2, TypeParts, Types DEF TypeOK, run, due
  <2>4. contended' = contended
    BY <1>0, <1>3 DEF TypeOK
  <2> QED BY <1>0, <1>3, <2>1, <2>2, <2>3, <2>4 DEF NoExec
<1> QED BY <1>2, <1>3

LEMMA DeliverFacts ==
  ASSUME TypeOK, NEW w \in Process, Deliver(w)
  PROVE  /\ TypeOK' /\ OtherExecs(w)
         /\ UNCHANGED <<status, effects, approvals, due, job, request, world>>
         /\ exec[w].pc = "stream" /\ exec'[w].pc = "logged" /\ quiet' = FALSE
         /\ exec[w].text < exec[w].next =>
              repeated' = repeated /\ exec'[w].text < exec'[w].next
<1> DEFINE h == Higher(exec[w].text, exec[w].next)
           v == [exec[w] EXCEPT !.pc = "logged", !.next = exec[w].next + 1, !.text = h]
<1>1. exec[w] \in ExecType /\ exec[w].next <= MaxParts
  BY Types DEF Deliver
<1>2. /\ exec' = [exec EXCEPT ![w] = v]
      /\ UNCHANGED <<status, effects, approvals, due, job, request, world>>
      /\ exec[w].pc = "stream" /\ quiet' = FALSE
      /\ repeated' = (repeated \/ exec[w].next <= exec[w].text)
  BY Types DEF Deliver
<1>3. exec[w].text < exec[w].next => h < exec[w].next + 1
  BY <1>1 DEF ExecType, Higher
<1>4. h \in 0 .. MaxParts
  BY <1>1 DEF ExecType, Higher
<1> HIDE DEF h
<1>5. exec[w].next + 1 \in 1 .. MaxParts + 1
  BY <1>1 DEF ExecType
<1>6. v \in ExecType /\ v.pc = "logged" /\ v.next = exec[w].next + 1 /\ v.text = h
  BY <1>1, <1>4, <1>5 DEF ExecType
<1> HIDE DEF v
<1>7. exec' \in [Process -> ExecType] /\ exec'[w] = v /\ OtherExecs(w)
  BY <1>2, <1>6, ExecMove
<1>8. repeated' \in BOOLEAN
  BY <1>2 DEF TypeOK
<1>9. TypeOK'
  BY <1>2, <1>7, <1>8, TypeParts, Types DEF TypeOK, run, due, world
<1>10. exec[w].text < exec[w].next => ~(exec[w].next <= exec[w].text)
  BY <1>1 DEF ExecType
<1>11. exec[w].text < exec[w].next => repeated' = repeated
  BY <1>2, <1>10 DEF TypeOK
<1> QED BY <1>2, <1>3, <1>6, <1>7, <1>9, <1>11

\* The checkpoint after a part, or before a pause.
LEMMA CheckpointFacts ==
  ASSUME TypeOK, NEW w \in Process, Checkpoint(w) \/ PauseCheckpoint(w)
  PROVE  /\ TypeOK' /\ OtherExecs(w)
         /\ UNCHANGED <<run, approvals, due, request, repeated, world>>
         /\ exec[w].pc \in {"stream", "logged"}
         /\ \/ /\ Owns(w) /\ Notes(w)
               /\ \/ /\ exec'[w].pc = "stream"
                     /\ exec'[w].text = exec[w].text /\ exec'[w].next = exec[w].next
                  \/ /\ exec'[w].pc = "held" /\ exec'[w].text = 0 /\ exec'[w].next = 1
                     /\ \E a \in Approval : approvals[a] = "absent"
            \/ ~Owns(w) /\ UNCHANGED job /\ exec'[w].pc = "idle"
<1>0. /\ exec[w].pc \in {"stream", "logged"}
      /\ UNCHANGED <<run, approvals, due, request, repeated, world>>
  BY DEF Checkpoint, PauseCheckpoint
<1>1. CASE Owns(w)
  <2>1. CASE Checkpoint(w)
    <3>1. GoTo(w, "stream") /\ job' = Checkpointed(w)
      BY <1>1, <2>1 DEF Checkpoint
    <3>2. /\ exec' \in [Process -> ExecType] /\ OtherExecs(w) /\ exec'[w].pc = "stream"
          /\ exec'[w].text = exec[w].text /\ exec'[w].next = exec[w].next
      BY <3>1, GoToFacts
    <3>3. job' \in Job /\ Notes(w)
      BY <3>1, JobMoves
    <3>4. TypeOK'
      BY <1>0, <3>2, <3>3, TypeParts, Types DEF TypeOK, run, due, world
    <3> QED BY <1>0, <1>1, <3>2, <3>3, <3>4
  <2>2. CASE PauseCheckpoint(w)
    <3> DEFINE v == [NoExec EXCEPT !.pc = "held", !.aborted = exec[w].aborted]
    <3>1. /\ exec' = [exec EXCEPT ![w] = v] /\ job' = Checkpointed(w)
          /\ \E a \in Approval : approvals[a] = "absent"
      BY <1>1, <2>2 DEF PauseCheckpoint
    <3>2. NoExec \in ExecType /\ exec[w].aborted \in BOOLEAN
      BY Types DEF ExecType
    <3>3. v \in ExecType /\ v.pc = "held" /\ v.text = 0 /\ v.next = 1
      BY <3>2 DEF ExecType, NoExec
    <3> HIDE DEF v
    <3>4. exec' \in [Process -> ExecType] /\ OtherExecs(w) /\ exec'[w] = v
      BY <3>1, <3>3, ExecMove
    <3>5. job' \in Job /\ Notes(w)
      BY <3>1, JobMoves
    <3>6. TypeOK'
      BY <1>0, <3>4, <3>5, TypeParts, Types DEF TypeOK, run, due, world
    <3> QED BY <1>0, <1>1, <3>1, <3>3, <3>4, <3>5, <3>6
  <2> QED BY <2>1, <2>2
<1>2. CASE ~Owns(w)
  <2>1. Leave(w) /\ UNCHANGED job
    BY <1>2 DEF Checkpoint, PauseCheckpoint
  <2>2. exec' \in [Process -> ExecType] /\ exec'[w] = NoExec /\ OtherExecs(w)
    BY <2>1, LeaveFacts
  <2>3. TypeOK'
    BY <1>0, <2>1, <2>2, TypeParts, Types DEF TypeOK, run, due, world
  <2> QED BY <1>0, <1>2, <2>1, <2>2, <2>3 DEF NoExec
<1> QED BY <1>1, <1>2

LEMMA PauseReadFacts ==
  ASSUME TypeOK, NEW w \in Process, PauseRead(w)
  PROVE  /\ TypeOK' /\ OtherExecs(w)
         /\ UNCHANGED <<run, approvals, due, job, request, repeated, world>>
         /\ exec[w].pc = "held"
         /\ \/ /\ status = "running" /\ exec'[w].pc = "pause"
               /\ exec'[w].text = exec[w].text /\ exec'[w].next = exec[w].next
            \/ status # "running" /\ exec'[w].pc = "idle"
<1>0. /\ exec[w].pc = "held"
      /\ UNCHANGED <<run, approvals, due, job, request, repeated, world>>
      /\ \/ status = "running" /\ GoTo(w, "pause")
         \/ status # "running" /\ Leave(w)
  BY DEF PauseRead
<1>1. /\ exec' \in [Process -> ExecType] /\ OtherExecs(w)
      /\ \/ /\ status = "running" /\ exec'[w].pc = "pause"
            /\ exec'[w].text = exec[w].text /\ exec'[w].next = exec[w].next
         \/ status # "running" /\ exec'[w].pc = "idle"
  BY <1>0, GoToFacts, LeaveFacts DEF NoExec
<1>2. TypeOK'
  BY <1>0, <1>1, TypeParts, Types DEF TypeOK, run, due, world
<1> QED BY <1>0, <1>1, <1>2

LEMMA PauseCommitFacts ==
  ASSUME TypeOK, NEW w \in Process, PauseCommit(w)
  PROVE  /\ TypeOK' /\ OtherExecs(w) /\ exec'[w].pc = "idle"
         /\ UNCHANGED <<effects, due, request, repeated, world>>
         /\ exec[w].pc = "pause"
         /\ \/ /\ Owns(w) /\ status' = "waiting" /\ quiet' = FALSE
               /\ \E a \in Approval :
                    /\ approvals[a] = "absent"
                    /\ approvals' = [approvals EXCEPT ![a] = "pending"]
                    /\ job'.status = "queued" /\ job'.approval = a
            \/ /\ ~Owns(w) \/ \A a \in Approval : approvals[a] # "absent"
               /\ UNCHANGED <<run, approvals, job>>
<1>0. /\ exec[w].pc = "pause" /\ Leave(w)
      /\ UNCHANGED <<effects, due, request, repeated, world>>
  BY DEF PauseCommit, run
<1>1. exec' \in [Process -> ExecType] /\ exec'[w].pc = "idle" /\ OtherExecs(w)
  BY <1>0, LeaveFacts DEF NoExec
<1>2. CASE /\ Owns(w)
           /\ \E a \in Approval :
                /\ NextApproval(a)
                /\ approvals' = [approvals EXCEPT ![a] = "pending"]
                /\ job' = [Released(job, "queued") EXCEPT !.approval = a]
           /\ status' = "waiting"
           /\ quiet' = FALSE
  <2>1. PICK a \in Approval :
          /\ approvals[a] = "absent"
          /\ approvals' = [approvals EXCEPT ![a] = "pending"]
          /\ job' = [Released(job, "queued") EXCEPT !.approval = a]
    BY <1>2 DEF NextApproval
  <2>2. job \in Job /\ request' = request
    BY <1>0, Types
  <2>3. job' \in Job /\ job'.status = "queued" /\ job'.approval = a
    BY <2>1, <2>2 DEF Released, Job
  <2>4. approvals' \in [Approval -> {"absent", "pending", "approved"} \cup Refused]
    BY <2>1, Types
  <2>5. TypeOK'
    BY <1>0, <1>1, <1>2, <2>3, <2>4, TypeParts, Types DEF TypeOK, run, due, world
  <2> QED BY <1>0, <1>1, <1>2, <2>1, <2>3, <2>5
<1>3. CASE /\ ~Owns(w) \/ \A a \in Approval : approvals[a] # "absent"
           /\ UNCHANGED <<run, approvals, job>>
  <2>1. TypeOK'
    BY <1>0, <1>1, <1>3, TypeParts, Types DEF TypeOK, run, due, world
  <2> QED BY <1>0, <1>1, <1>3, <2>1
<1> QED BY <1>2, <1>3 DEF PauseCommit

\* The run has ended, now or before.
Ends ==
  /\ status' = "ended" /\ effects' \in 0 .. 1
  /\ \/ status = "ended" /\ UNCHANGED run
     \/ status # "ended" /\ effects = 0 /\ effects' = 1 /\ quiet' = FALSE

LEMMA FinalizeFacts ==
  ASSUME TypeOK, ~FinalizeThrows, Finalize
  PROVE  Ends
BY DEF TypeOK, Finalize, FinalizeThrows, Ends, run

LEMMA CompleteFacts ==
  ASSUME TypeOK, NEW w \in Process, Complete(w)
  PROVE  /\ TypeOK' /\ OtherExecs(w)
         /\ UNCHANGED <<approvals, due, job, request, repeated, world>>
         /\ exec[w].pc = "stream"
         /\ \/ Ends /\ exec'[w].pc = "finish"
            \/ effects > 0 /\ UNCHANGED run /\ exec'[w].pc = "idle"
<1>0. /\ exec[w].pc = "stream"
      /\ UNCHANGED <<approvals, due, job, request, repeated, world>>
      /\ \/ FinalizeThrows /\ Leave(w) /\ UNCHANGED run
         \/ /\ ~FinalizeThrows /\ Finalize
            /\ exec' = [exec EXCEPT ![w] = [NoExec EXCEPT !.pc = "finish"]]
  BY DEF Complete
<1> DEFINE v == [NoExec EXCEPT !.pc = "finish"]
<1>3. v \in ExecType /\ v.pc = "finish"
  BY Types DEF ExecType
<1> HIDE DEF v
<1>4. exec' = [exec EXCEPT ![w] = v] =>
        exec' \in [Process -> ExecType] /\ OtherExecs(w) /\ exec'[w].pc = "finish"
  BY <1>3, ExecMove
<1>1. /\ exec' \in [Process -> ExecType] /\ OtherExecs(w)
      /\ \/ Ends /\ exec'[w].pc = "finish"
         \/ effects > 0 /\ UNCHANGED run /\ exec'[w].pc = "idle"
  BY <1>0, <1>4, LeaveFacts, FinalizeFacts DEF v, NoExec, FinalizeThrows
<1>2. TypeOK'
  BY <1>0, <1>1, TypeParts, Types DEF TypeOK, run, due, world, Ends
<1> QED BY <1>0, <1>1, <1>2

LEMMA FinishFacts ==
  ASSUME TypeOK, NEW w \in Process, Finish(w)
  PROVE  /\ TypeOK' /\ OtherExecs(w) /\ exec'[w].pc = "idle"
         /\ UNCHANGED <<run, approvals, due, request, repeated, world>>
         /\ exec[w].pc = "finish"
         /\ \/ Closes
            \/ UNCHANGED job
<1>0. /\ exec[w].pc = "finish" /\ Leave(w)
      /\ UNCHANGED <<run, approvals, due, request, repeated, world>>
      /\ \/ job' = Released(job, "closed")
         \/ UNCHANGED job
  BY DEF Finish
<1>1. exec' \in [Process -> ExecType] /\ exec'[w].pc = "idle" /\ OtherExecs(w)
  BY <1>0, LeaveFacts DEF NoExec
<1>2. job' \in Job /\ (Closes \/ UNCHANGED job)
  BY <1>0, JobMoves, Types
<1>3. TypeOK'
  BY <1>0, <1>1, <1>2, TypeParts, Types DEF TypeOK, run, due, world
<1> QED BY <1>0, <1>1, <1>2, <1>3

\* An abort, by the heartbeat or by a cancellation, moves nothing else.
SameExecs ==
  \A u \in Process :
    exec'[u].pc = exec[u].pc /\ exec'[u].text = exec[u].text /\ exec'[u].next = exec[u].next

LEMMA AbortFacts ==
  ASSUME TypeOK, NEW w \in Process,
         \/ exec' = [exec EXCEPT ![w].aborted = TRUE]
         \/ exec' = exec
  PROVE  exec' \in [Process -> ExecType] /\ SameExecs
<1> DEFINE v == [exec[w] EXCEPT !.aborted = TRUE]
<1>1. exec[w] \in ExecType
  BY Types
<1>2. /\ v \in ExecType /\ v.pc = exec[w].pc
      /\ v.text = exec[w].text /\ v.next = exec[w].next
  BY <1>1 DEF ExecType
<1>3. CASE exec' = [exec EXCEPT ![w] = v]
  <2> HIDE DEF v
  <2>1. exec' \in [Process -> ExecType] /\ exec'[w] = v /\ OtherExecs(w)
    BY <1>2, <1>3, ExecMove
  <2> QED BY <1>2, <2>1 DEF OtherExecs, SameExecs
<1>4. CASE exec' = exec
  BY <1>4, Types DEF SameExecs
<1> QED BY <1>3, <1>4

LEMMA LoseLeaseFacts ==
  ASSUME TypeOK, NEW w \in Process, LoseLease(w)
  PROVE  /\ TypeOK' /\ SameExecs
         /\ UNCHANGED <<run, approvals, due, job, request, repeated, world>>
<1>0. /\ exec' = [exec EXCEPT ![w].aborted = TRUE]
      /\ UNCHANGED <<run, approvals, due, job, request, repeated, world>>
  BY DEF LoseLease
<1>1. exec' \in [Process -> ExecType] /\ SameExecs
  BY <1>0, AbortFacts
<1>2. TypeOK'
  BY <1>0, <1>1, TypeParts, Types DEF TypeOK, run, due, world
<1> QED BY <1>0, <1>1, <1>2

-----------------------------------------------------------------------------
\* The steps of a request.
LEMMA DecideFacts ==
  ASSUME TypeOK, NEW w \in Process, NEW a \in Approval, Decide(w, a)
  PROVE  /\ TypeOK' /\ OtherRequests(w)
         /\ UNCHANGED <<run, approvals, due, job, exec, repeated, world>>
         /\ request[w].pc = "idle"
         /\ request'[w].pc = "decide" /\ request'[w].approval = a
<1> DEFINE v == [NoRequest EXCEPT !.pc = "decide", !.approval = a]
<1>0. /\ request[w].pc = "idle"
      /\ UNCHANGED <<run, approvals, due, job, exec, repeated, world>>
      /\ request' = [request EXCEPT ![w] = v]
  BY DEF Decide
<1>1. NoRequest \in RequestType
  BY Types
<1>2. v \in RequestType /\ v.pc = "decide" /\ v.approval = a
  BY <1>1 DEF RequestType
<1> HIDE DEF v
<1>3. request' \in [Process -> RequestType] /\ request'[w] = v /\ OtherRequests(w)
  BY <1>0, <1>2, RequestMove
<1>4. TypeOK'
  BY <1>0, <1>3, TypeParts, Types DEF TypeOK, run, due, world
<1> QED BY <1>0, <1>2, <1>3, <1>4

\* The transaction of an approval finds the run waiting for it, or gives up.
LEMMA ApproveReadFacts ==
  ASSUME TypeOK, NEW w \in Process, ApproveRead(w)
  PROVE  /\ TypeOK' /\ OtherRequests(w)
         /\ UNCHANGED <<run, approvals, due, job, exec, repeated, world>>
         /\ request[w].pc = "decide"
         /\ \/ /\ Open(request[w].approval) /\ status = "waiting"
               /\ job.approval = request[w].approval
               /\ request'[w].pc = "approve" /\ request'[w].approval = request[w].approval
               /\ request'[w].copy = job
            \/ request'[w].pc = "idle"
<1> DEFINE v == [request[w] EXCEPT !.pc = "approve", !.copy = job]
           finds == status = "waiting" /\ job.approval = request[w].approval
<1>0. /\ request[w].pc = "decide" /\ Open(request[w].approval)
      /\ UNCHANGED <<run, approvals, due, job, exec, repeated, world>>
      /\ finds => request' = [request EXCEPT ![w] = v]
      /\ ~finds => Reply(w)
  BY Types DEF ApproveRead
<1>1. request[w] \in RequestType /\ job \in Job
  BY Types
<1>2. v \in RequestType /\ v.pc = "approve" /\ v.approval = request[w].approval /\ v.copy = job
  BY <1>1 DEF RequestType
<1> HIDE DEF v
<1>3. finds => request' \in [Process -> RequestType] /\ request'[w] = v /\ OtherRequests(w)
  BY <1>0, <1>2, RequestMove
<1>4. ~finds =>
        /\ request' \in [Process -> RequestType] /\ request'[w].pc = "idle"
        /\ OtherRequests(w)
  BY <1>0, ReplyFacts DEF NoRequest
<1>5. TypeOK'
  BY <1>0, <1>3, <1>4, TypeParts, Types DEF TypeOK, run, due, world
<1> QED BY <1>0, <1>2, <1>3, <1>4, <1>5

\* The loser of two approvals gives up, or resumes the run like the winner.
LEMMA ApproveLateFacts ==
  ASSUME TypeOK, NEW w \in Process, ApproveLate(w)
  PROVE  /\ TypeOK' /\ OtherRequests(w)
         /\ UNCHANGED <<run, approvals, due, job, exec, repeated, faults>>
         /\ request[w].pc = "decide"
         /\ \/ request'[w].pc = "resume" /\ contended'
            \/ request'[w].pc = "idle" /\ UNCHANGED contended
<1>0. /\ request[w].pc = "decide"
      /\ UNCHANGED <<run, approvals, due, job, exec, repeated, faults>>
      /\ \/ Proceed(w, "resume") /\ contended' = TRUE
         \/ Reply(w) /\ UNCHANGED contended
  BY DEF ApproveLate
<1>1. /\ request' \in [Process -> RequestType] /\ OtherRequests(w)
      /\ \/ request'[w].pc = "resume" /\ contended' = TRUE
         \/ request'[w].pc = "idle" /\ UNCHANGED contended
  BY <1>0, ProceedFacts, ReplyFacts DEF NoRequest
<1>2. contended' \in BOOLEAN
  BY <1>0 DEF TypeOK
<1>3. TypeOK'
  BY <1>0, <1>1, <1>2, TypeParts, Types DEF TypeOK, run, due
<1> QED BY <1>0, <1>1, <1>3

LEMMA DecidedFacts ==
  ASSUME TypeOK, NEW a \in Approval, NEW s \in {"approved"} \cup Refused, Decided(a, s)
  PROVE  /\ approvals' = [approvals EXCEPT ![a] = s]
         /\ approvals' \in [Approval -> {"absent", "pending", "approved"} \cup Refused]
         /\ overdue' \in SUBSET Approval /\ blocked' \in SUBSET Approval
<1>1. approvals \in [Approval -> {"absent", "pending", "approved"} \cup Refused]
  BY Types
<1>2. overdue \in SUBSET Approval /\ blocked \in SUBSET Approval
  BY DEF TypeOK
<1> QED BY <1>1, <1>2 DEF Decided

LEMMA ApproveCommitFacts ==
  ASSUME TypeOK, ApprovalsLocked, NEW w \in Process, ApproveCommit(w)
  PROVE  /\ TypeOK' /\ OtherRequests(w)
         /\ UNCHANGED <<effects, exec, repeated, world>>
         /\ request[w].pc = "approve" /\ request'[w].pc = "resume"
         /\ request'[w].approval = request[w].approval
         /\ approvals' = [approvals EXCEPT ![request[w].approval] = "approved"]
         /\ status' = "running" /\ quiet' = FALSE
         /\ job'.status = "queued" /\ job'.approval = request[w].copy.approval
         /\ job'.text = request[w].copy.text
<1> DEFINE v == [request[w] EXCEPT !.pc = "resume", !.copy = NoJob]
<1>0. /\ request[w].pc = "approve" /\ status' = "running" /\ quiet' = FALSE
      /\ UNCHANGED <<effects, exec, repeated, world>>
      /\ Decided(request[w].approval, "approved")
      /\ job' = Released(request[w].copy, "queued")
      /\ request' = [request EXCEPT ![w] = v]
  BY Types DEF ApproveCommit
<1>1. request[w] \in RequestType /\ NoJob \in Job
  BY Types
<1>2. v \in RequestType /\ v.pc = "resume" /\ v.approval = request[w].approval
  BY <1>1 DEF RequestType
<1> HIDE DEF v
<1>3. request' \in [Process -> RequestType] /\ request'[w] = v /\ OtherRequests(w)
  BY <1>0, <1>2, RequestMove
<1>4. request[w].copy \in Job
  BY <1>1 DEF RequestType
<1>5. /\ job' \in Job /\ job'.status = "queued" /\ job'.approval = request[w].copy.approval
      /\ job'.text = request[w].copy.text
  BY <1>0, <1>4 DEF Released, Job
<1>6. request[w].approval \in Approval
  BY <1>0 DEF ApprovalsLocked
<1>7. /\ approvals' = [approvals EXCEPT ![request[w].approval] = "approved"]
      /\ approvals' \in [Approval -> {"absent", "pending", "approved"} \cup Refused]
      /\ overdue' \in SUBSET Approval /\ blocked' \in SUBSET Approval
  BY <1>0, <1>6, DecidedFacts
<1>8. TypeOK'
  BY <1>0, <1>3, <1>5, <1>7, TypeParts, Types DEF TypeOK, world
<1> QED BY <1>0, <1>2, <1>3, <1>5, <1>7, <1>8

LEMMA ResumeFacts ==
  ASSUME TypeOK, NEW w \in Process, Resume(w)
  PROVE  /\ TypeOK' /\ OtherRequests(w) /\ OtherExecs(w)
         /\ UNCHANGED <<run, approvals, due, job, repeated, world>>
         /\ request[w].pc = "resume" /\ request'[w].pc = "idle" /\ exec[w].pc = "idle"
         /\ \/ /\ status = "running" /\ exec'[w].pc = "claim" /\ exec'[w].next = job.text + 1
            \/ /\ ~(/\ status = "running" /\ job.approval = request[w].approval
                    /\ job.status # "closed")
               /\ UNCHANGED exec
<1> DEFINE goes == /\ status = "running" /\ job.approval = request[w].approval
                   /\ job.status # "closed"
<1>0. /\ request[w].pc = "resume" /\ exec[w].pc = "idle" /\ Reply(w)
      /\ UNCHANGED <<run, approvals, due, job, repeated, world>>
      /\ goes => Executed(w, Told(job.text))
      /\ ~goes => UNCHANGED exec
  BY DEF Resume
<1>1. Told(job.text) \in 1 .. MaxParts + 1 /\ Told(job.text) = job.text + 1
  BY Types DEF Told, Job
<1>2. goes => /\ exec' \in [Process -> ExecType] /\ OtherExecs(w)
              /\ exec'[w].pc = "claim" /\ exec'[w].next = job.text + 1
  BY <1>0, <1>1, ExecutedFacts
<1>3. ~goes => exec' \in [Process -> ExecType] /\ OtherExecs(w)
  BY <1>0, Types DEF OtherExecs
<1>4. request' \in [Process -> RequestType] /\ request'[w].pc = "idle" /\ OtherRequests(w)
  BY <1>0, ReplyFacts DEF NoRequest
<1>5. TypeOK'
  BY <1>0, <1>2, <1>3, <1>4, TypeParts, Types DEF TypeOK, run, due, world
<1> QED BY <1>0, <1>2, <1>3, <1>4, <1>5

LEMMA CancelReadFacts ==
  ASSUME TypeOK, NEW w \in Process, CancelRead(w)
  PROVE  /\ TypeOK' /\ OtherRequests(w) /\ SameExecs
         /\ UNCHANGED <<run, approvals, due, job, repeated, world>>
         /\ request[w].pc = "idle" /\ request'[w].pc = "cancel"
<1>0. /\ request[w].pc = "idle" /\ Proceed(w, "cancel")
      /\ UNCHANGED <<run, approvals, due, job, repeated, world>>
      /\ \/ exec' = [exec EXCEPT ![w].aborted = TRUE]
         \/ exec' = exec
  BY DEF CancelRead
<1>1. exec' \in [Process -> ExecType] /\ SameExecs
  BY <1>0, AbortFacts
<1>2. request' \in [Process -> RequestType] /\ request'[w].pc = "cancel" /\ OtherRequests(w)
  BY <1>0, ProceedFacts
<1>3. TypeOK'
  BY <1>0, <1>1, <1>2, TypeParts, Types DEF TypeOK, run, due, world
<1> QED BY <1>0, <1>1, <1>2, <1>3

\* A cancellation or a recovery that ends the run.
LEMMA EndFacts ==
  ASSUME TypeOK, NEW w \in Process, CancelCommit(w) \/ FailRun(w)
  PROVE  /\ TypeOK' /\ OtherRequests(w)
         /\ UNCHANGED <<approvals, due, job, exec, repeated, world>>
         /\ request[w].pc \in {"cancel", "fail"} /\ request'[w].pc \in {"idle", "close"}
         /\ \/ Ends
            \/ effects > 0 /\ UNCHANGED run
<1>0. /\ request[w].pc \in {"cancel", "fail"}
      /\ UNCHANGED <<approvals, due, job, exec, repeated, world>>
      /\ \/ ~FinalizeThrows /\ Finalize
         \/ FinalizeThrows /\ UNCHANGED run
      /\ Reply(w) \/ Proceed(w, "close")
  BY DEF CancelCommit, FailRun
<1>1. /\ request' \in [Process -> RequestType] /\ request'[w].pc \in {"idle", "close"}
      /\ OtherRequests(w)
  BY <1>0, ReplyFacts, ProceedFacts DEF NoRequest
<1>2. \/ Ends
      \/ effects > 0 /\ UNCHANGED run
  BY <1>0, FinalizeFacts DEF FinalizeThrows
<1>3. TypeOK'
  BY <1>0, <1>1, <1>2, TypeParts, Types DEF TypeOK, run, due, world, Ends
<1> QED BY <1>0, <1>1, <1>2, <1>3

LEMMA RecoverReadFacts ==
  ASSUME TypeOK, NEW w \in Process, RecoverRead(w)
  PROVE  /\ TypeOK' /\ OtherRequests(w)
         /\ UNCHANGED <<run, approvals, due, job, exec, repeated, world>>
         /\ request[w].pc = "idle" /\ request'[w].pc = "examine" /\ status = "running" /\ quiet
<1>0. /\ request[w].pc = "idle" /\ status = "running" /\ quiet /\ Proceed(w, "examine")
      /\ UNCHANGED <<run, approvals, due, job, exec, repeated, world>>
  BY DEF RecoverRead
<1>1. request' \in [Process -> RequestType] /\ request'[w].pc = "examine" /\ OtherRequests(w)
  BY <1>0, ProceedFacts
<1>2. TypeOK'
  BY <1>0, <1>1, TypeParts, Types DEF TypeOK, run, due, world
<1> QED BY <1>0, <1>1, <1>2

LEMMA ExamineFacts ==
  ASSUME TypeOK, NEW w \in Process, Examine(w)
  PROVE  /\ TypeOK' /\ OtherRequests(w) /\ OtherExecs(w)
         /\ UNCHANGED <<run, approvals, due, job, repeated, world>>
         /\ request[w].pc = "examine" /\ exec[w].pc = "idle"
         /\ \/ request'[w].pc = "idle"
            \/ request'[w].pc \in {"fail", "seize"} /\ UNCHANGED exec
<1>0. /\ request[w].pc = "examine" /\ exec[w].pc = "idle"
      /\ UNCHANGED <<run, approvals, due, job, repeated, world>>
      /\ \/ Executed(w, 1) /\ Reply(w)
         \/ UNCHANGED exec /\ (Proceed(w, "fail") \/ Proceed(w, "seize"))
  BY DEF Examine
<1>1. CASE Executed(w, 1) /\ Reply(w)
  <2>1. 1 \in 1 .. MaxParts + 1
    OBVIOUS
  <2>2. exec' \in [Process -> ExecType] /\ OtherExecs(w)
    BY <1>1, <2>1, ExecutedFacts
  <2>3. request' \in [Process -> RequestType] /\ request'[w].pc = "idle" /\ OtherRequests(w)
    BY <1>1, ReplyFacts DEF NoRequest
  <2>4. TypeOK'
    BY <1>0, <2>2, <2>3, TypeParts, Types DEF TypeOK, run, due, world
  <2> QED BY <1>0, <2>2, <2>3, <2>4
<1>2. CASE UNCHANGED exec /\ (Proceed(w, "fail") \/ Proceed(w, "seize"))
  <2>1. exec' \in [Process -> ExecType] /\ OtherExecs(w)
    BY <1>2, Types DEF OtherExecs
  <2>2. /\ request' \in [Process -> RequestType] /\ request'[w].pc \in {"fail", "seize"}
        /\ OtherRequests(w)
    BY <1>2, ProceedFacts
  <2>3. TypeOK'
    BY <1>0, <2>1, <2>2, TypeParts, Types DEF TypeOK, run, due, world
  <2> QED BY <1>0, <1>2, <2>1, <2>2, <2>3
<1> QED BY <1>0, <1>1, <1>2

\* A recovery or a reconciliation that claims the job, or leaves it.
LEMMA SeizeFacts ==
  ASSUME TypeOK, NEW w \in Process, Seize(w)
  PROVE  /\ TypeOK' /\ OtherRequests(w)
         /\ UNCHANGED <<run, approvals, due, exec, repeated, world>>
         /\ request[w].pc = "seize" /\ request'[w].pc \in {"fail", "idle"}
         /\ \/ Takes(w)
            \/ UNCHANGED job
<1>0. /\ request[w].pc = "seize"
      /\ UNCHANGED <<run, approvals, due, exec, repeated, world>>
      /\ \/ /\ job' = Claimed(w)
            /\ request' = [request EXCEPT ![w].pc = "fail", ![w].claimed = TRUE]
         \/ UNCHANGED job /\ Reply(w)
  BY DEF Seize
<1>1. job' \in Job /\ (Takes(w) \/ UNCHANGED job)
  BY <1>0, JobMoves, Types
<1> DEFINE v == [request[w] EXCEPT !.pc = "fail", !.claimed = TRUE]
<1>2. request[w] \in RequestType
  BY Types
<1>3. v \in RequestType /\ v.pc = "fail"
  BY <1>2 DEF RequestType
<1>4. \/ request' = [request EXCEPT ![w] = v]
      \/ Reply(w)
  BY <1>0, Types
<1> HIDE DEF v
<1>5. /\ request' \in [Process -> RequestType] /\ request'[w].pc \in {"fail", "idle"}
      /\ OtherRequests(w)
  BY <1>3, <1>4, ReplyFacts, RequestMove DEF NoRequest
<1>6. TypeOK'
  BY <1>0, <1>1, <1>5, TypeParts, Types DEF TypeOK, run, due, world
<1> QED BY <1>0, <1>1, <1>5, <1>6

LEMMA ReconcileReadFacts ==
  ASSUME TypeOK, NEW w \in Process, ReconcileRead(w)
  PROVE  /\ TypeOK' /\ OtherRequests(w)
         /\ UNCHANGED <<run, approvals, due, job, exec, repeated, world>>
         /\ request[w].pc = "idle" /\ status # "running"
         /\ request'[w].pc = "settle" /\ request'[w].seen = status
<1> DEFINE v == [request[w] EXCEPT !.pc = "settle", !.seen = status]
<1>0. /\ request[w].pc = "idle" /\ status # "running"
      /\ UNCHANGED <<run, approvals, due, job, exec, repeated, world>>
      /\ request' = [request EXCEPT ![w] = v]
  BY Types DEF ReconcileRead
<1>1. request[w] \in RequestType /\ status \in {"running", "waiting", "ended"}
  BY Types DEF TypeOK
<1>2. v \in RequestType /\ v.pc = "settle" /\ v.seen = status
  BY <1>1 DEF RequestType
<1> HIDE DEF v
<1>3. request' \in [Process -> RequestType] /\ request'[w] = v /\ OtherRequests(w)
  BY <1>0, <1>2, RequestMove
<1>4. TypeOK'
  BY <1>0, <1>3, TypeParts, Types DEF TypeOK, run, due, world
<1> QED BY <1>0, <1>2, <1>3, <1>4

LEMMA ReconcileFacts ==
  ASSUME TypeOK, NEW w \in Process, Reconcile(w)
  PROVE  /\ TypeOK' /\ OtherRequests(w)
         /\ UNCHANGED <<run, approvals, due, exec, repeated, world>>
         /\ request[w].pc = "settle"
         /\ \/ Takes(w) /\ ~Kept(request[w].seen) /\ request'[w].pc = "close"
            \/ UNCHANGED job /\ request'[w].pc = "idle"
<1>0. /\ request[w].pc = "settle"
      /\ UNCHANGED <<run, approvals, due, exec, repeated, world>>
      /\ \/ ~Kept(request[w].seen) /\ job' = Claimed(w) /\ Proceed(w, "close")
         \/ UNCHANGED job /\ Reply(w)
  BY DEF Reconcile
<1>1. /\ request' \in [Process -> RequestType] /\ OtherRequests(w) /\ job' \in Job
      /\ \/ Takes(w) /\ ~Kept(request[w].seen) /\ request'[w].pc = "close"
         \/ UNCHANGED job /\ request'[w].pc = "idle"
  BY <1>0, ReplyFacts, ProceedFacts, JobMoves, Types DEF NoRequest
<1>2. TypeOK'
  BY <1>0, <1>1, TypeParts, Types DEF TypeOK, run, due, world
<1> QED BY <1>0, <1>1, <1>2

LEMMA CloseJobFacts ==
  ASSUME TypeOK, NEW w \in Process, CloseJob(w)
  PROVE  /\ TypeOK' /\ OtherRequests(w)
         /\ UNCHANGED <<run, approvals, due, exec, repeated, world>>
         /\ request[w].pc = "close" /\ request'[w].pc = "idle"
         /\ \/ Closes
            \/ UNCHANGED job
<1>0. /\ request[w].pc = "close" /\ Reply(w)
      /\ UNCHANGED <<run, approvals, due, exec, repeated, world>>
      /\ \/ job' = Released(job, "closed")
         \/ UNCHANGED job
  BY DEF CloseJob
<1>1. request' \in [Process -> RequestType] /\ request'[w].pc = "idle" /\ OtherRequests(w)
  BY <1>0, ReplyFacts DEF NoRequest
<1>2. job' \in Job /\ (Closes \/ UNCHANGED job)
  BY <1>0, JobMoves, Types
<1>3. TypeOK'
  BY <1>0, <1>1, <1>2, TypeParts, Types DEF TypeOK, run, due, world
<1> QED BY <1>0, <1>1, <1>2, <1>3

-----------------------------------------------------------------------------
\* A refusal, and what time and faults do.
LEMMA RefusalFacts ==
  ASSUME TypeOK, NEW a \in Approval, Deny(a) \/ Expire(a)
  PROVE  /\ TypeOK'
         /\ UNCHANGED <<job, exec, request, repeated, world>>
         /\ Open(a)
         /\ \E s \in Refused : approvals' = [approvals EXCEPT ![a] = s]
         /\ \/ status = "waiting" /\ Ends
            \/ status # "waiting" /\ UNCHANGED run
<1>0. PICK s \in Refused :
        /\ UNCHANGED <<job, exec, request, repeated, world>>
        /\ Open(a) /\ Decided(a, s)
        /\ \/ status = "waiting" /\ ~FinalizeThrows /\ Finalize
           \/ status # "waiting" /\ UNCHANGED run
  BY DEF Deny, Expire, Terminate, Refused
<1>1. /\ approvals' = [approvals EXCEPT ![a] = s]
      /\ approvals' \in [Approval -> {"absent", "pending", "approved"} \cup Refused]
      /\ overdue' \in SUBSET Approval /\ blocked' \in SUBSET Approval
  BY <1>0, DecidedFacts
<1>2. \/ status = "waiting" /\ Ends
      \/ status # "waiting" /\ UNCHANGED run
  BY <1>0, FinalizeFacts
<1>3. TypeOK'
  BY <1>0, <1>1, <1>2, TypeParts, Types DEF TypeOK, run, world, Ends
<1> QED BY <1>0, <1>1, <1>2, <1>3

LEMMA TimeFacts ==
  ASSUME TypeOK,
         \/ \E a \in Approval : Elapse(a) \/ Block(a)
         \/ Lapse
         \/ GoQuiet
  PROVE  /\ TypeOK'
         /\ UNCHANGED <<status, effects, approvals, exec, request, repeated, contended>>
         /\ job'.approval = job.approval
         /\ \/ faults' = faults + 1
            \/ UNCHANGED <<faults, quiet, job>>
            \/ /\ ~Busy /\ job.status = "running" /\ job.live
               /\ job' = [job EXCEPT !.live = FALSE] /\ UNCHANGED <<faults, quiet>>
            \/ /\ ~ \E w \in Process : Hand(w)
               /\ status = "running" /\ UNCHANGED <<faults, job>>
<1>1. CASE \E a \in Approval : Elapse(a) \/ Block(a)
  <2>1. /\ UNCHANGED <<run, approvals, job, exec, request, repeated, world>>
        /\ overdue' \in SUBSET Approval /\ blocked' \in SUBSET Approval
    BY <1>1 DEF Elapse, Block, TypeOK
  <2>2. TypeOK'
    BY <2>1, TypeParts, Types DEF TypeOK, run, world
  <2> QED BY <2>1, <2>2 DEF run, world
<1>2. CASE Lapse
  <2>1. /\ job' = [job EXCEPT !.live = FALSE] /\ job.status = "running" /\ job.live
        /\ UNCHANGED <<run, approvals, due, exec, request, repeated, contended>>
        /\ \/ ~Busy /\ UNCHANGED faults
           \/ faults < MaxFaults /\ faults' = faults + 1
    BY <1>2 DEF Lapse, Fault
  <2>2. job \in Job /\ faults \in 0 .. MaxFaults
    BY Types DEF TypeOK
  <2>3. job' \in Job /\ job'.approval = job.approval
    BY <2>1, <2>2 DEF Job
  <2>4. faults' \in 0 .. MaxFaults
    BY <2>1, <2>2
  <2>5. TypeOK'
    BY <2>1, <2>3, <2>4, TypeParts, Types DEF TypeOK, run, due
  <2> QED BY <2>1, <2>3, <2>5 DEF run
<1>3. CASE GoQuiet
  <2>1. /\ status = "running" /\ quiet' = TRUE
        /\ UNCHANGED <<status, effects, approvals, due, job, exec, request, repeated, contended>>
        /\ \/ ~(\E w \in Process : Hand(w)) /\ UNCHANGED faults
           \/ faults < MaxFaults /\ faults' = faults + 1
    BY <1>3 DEF GoQuiet, Fault, Hand
  <2>2. faults' \in 0 .. MaxFaults
    BY <2>1 DEF TypeOK
  <2>3. TypeOK'
    BY <2>1, <2>2, TypeParts, Types DEF TypeOK, due
  <2> QED BY <2>1, <2>3
<1> QED BY <1>1, <1>2, <1>3

LEMMA CrashFacts ==
  ASSUME TypeOK, NEW w \in Process, Crash(w)
  PROVE  /\ TypeOK'
         /\ UNCHANGED <<run, approvals, due, job, repeated, contended>>
         /\ faults' = faults + 1
         /\ \A u \in Process : exec'[u] = exec[u] \/ exec'[u].pc = "idle"
         /\ \A u \in Process : request'[u] = request[u] \/ request'[u].pc = "idle"
<1>0. /\ faults < MaxFaults /\ faults' = faults + 1
      /\ UNCHANGED <<run, approvals, due, job, repeated, contended>>
      /\ Leave(w) \/ UNCHANGED exec
      /\ Reply(w) \/ UNCHANGED request
  BY DEF Crash, Fault
<1>1. /\ exec' \in [Process -> ExecType]
      /\ \A u \in Process : exec'[u] = exec[u] \/ exec'[u].pc = "idle"
  BY <1>0, LeaveFacts, Types DEF NoExec, OtherExecs
<1>2. /\ request' \in [Process -> RequestType]
      /\ \A u \in Process : request'[u] = request[u] \/ request'[u].pc = "idle"
  BY <1>0, ReplyFacts, Types DEF NoRequest, OtherRequests
<1>3. faults' \in 0 .. MaxFaults
  BY <1>0 DEF TypeOK
<1>4. TypeOK'
  BY <1>0, <1>1, <1>2, <1>3, TypeParts, Types DEF TypeOK, run, due
<1> QED BY <1>0, <1>1, <1>2, <1>4

-----------------------------------------------------------------------------
\* The steps, one by one, and the types after them.
Moves(w) ==
  \/ Claim(w) \/ Deliver(w) \/ Checkpoint(w) \/ PauseCheckpoint(w) \/ PauseRead(w)
  \/ PauseCommit(w) \/ Complete(w) \/ Finish(w) \/ LoseLease(w)

Serves(w) ==
  \/ \E a \in Approval : Decide(w, a)
  \/ ApproveRead(w) \/ ApproveLate(w) \/ ApproveCommit(w) \/ Resume(w)
  \/ CancelRead(w) \/ CancelCommit(w) \/ FailRun(w) \/ RecoverRead(w) \/ Examine(w)
  \/ Seize(w) \/ ReconcileRead(w) \/ Reconcile(w)
  \/ CloseJob(w)

Passes ==
  \/ \E a \in Approval : Elapse(a) \/ Block(a)
  \/ Lapse
  \/ GoQuiet

LEMMA StepKinds ==
  ASSUME TypeOK, ApprovalsLocked, [Next]_vars
  PROVE  /\ TypeOK'
         /\ \/ \E w \in Process : Moves(w) \/ Serves(w) \/ Crash(w)
            \/ \E a \in Approval : Deny(a) \/ Expire(a)
            \/ Passes
            \/ UNCHANGED vars
<1>1. \/ \E w \in Process : Moves(w) \/ Serves(w) \/ Crash(w)
      \/ \E a \in Approval : Deny(a) \/ Expire(a)
      \/ Passes
      \/ UNCHANGED vars
  BY DEF Next, ExecStep, RequestStep, Moves, Serves, Passes
<1>2. ASSUME NEW w \in Process, Moves(w) PROVE TypeOK'
  BY <1>2, ClaimFacts, DeliverFacts, CheckpointFacts, PauseReadFacts, PauseCommitFacts,
     CompleteFacts, FinishFacts, LoseLeaseFacts DEF Moves
<1>3. ASSUME NEW w \in Process, Serves(w) PROVE TypeOK'
  BY <1>3, DecideFacts, ApproveReadFacts, ApproveLateFacts, ApproveCommitFacts,
     ResumeFacts, CancelReadFacts, EndFacts, RecoverReadFacts, ExamineFacts, SeizeFacts,
     ReconcileReadFacts, ReconcileFacts, CloseJobFacts DEF Serves
<1>4. ASSUME NEW w \in Process, Crash(w) PROVE TypeOK'
  BY <1>4, CrashFacts
<1>5. ASSUME NEW a \in Approval, Deny(a) \/ Expire(a) PROVE TypeOK'
  BY <1>5, RefusalFacts
<1>6. CASE Passes
  BY <1>6, TimeFacts DEF Passes
<1>7. CASE UNCHANGED vars
  BY <1>7 DEF TypeOK, vars, run, due, world, Job
<1> QED BY <1>1, <1>2, <1>3, <1>4, <1>5, <1>6, <1>7

-----------------------------------------------------------------------------
\* A step ends the run with its effects, leaves it, or lets it go on.
LEMMA EffectsAreKept ==
  TypeOK /\ ApprovalsLocked /\ EndedWithEffects /\ [Next]_vars => EndedWithEffects'
<1> SUFFICES ASSUME TypeOK, ApprovalsLocked, EndedWithEffects, [Next]_vars PROVE EndedWithEffects'
  OBVIOUS
<1>1. Ends \/ UNCHANGED <<status, effects>> \/ status' # "ended" => EndedWithEffects'
  BY DEF EndedWithEffects, Ends, run
<1>2. ASSUME NEW w \in Process, Moves(w)
      PROVE  Ends \/ UNCHANGED <<status, effects>> \/ status' # "ended"
  <2>1. CASE PauseCommit(w)
    BY <2>1, PauseCommitFacts DEF run
  <2>2. CASE Complete(w)
    BY <2>2, CompleteFacts DEF run
  <2>3. CASE ~PauseCommit(w) /\ ~Complete(w)
    BY <1>2, <2>3, ClaimFacts, DeliverFacts, CheckpointFacts, PauseReadFacts, FinishFacts,
       LoseLeaseFacts DEF Moves, run
  <2> QED BY <2>1, <2>2, <2>3
<1>3. ASSUME NEW w \in Process, Serves(w)
      PROVE  Ends \/ UNCHANGED <<status, effects>> \/ status' # "ended"
  <2>1. CASE ApproveCommit(w)
    BY <2>1, ApproveCommitFacts
  <2>2. CASE CancelCommit(w) \/ FailRun(w)
    BY <2>2, EndFacts DEF run
  <2>3. CASE ~ApproveCommit(w) /\ ~CancelCommit(w) /\ ~FailRun(w)
    BY <1>3, <2>3, DecideFacts, ApproveReadFacts, ApproveLateFacts, ResumeFacts,
       CancelReadFacts, RecoverReadFacts, ExamineFacts, SeizeFacts, ReconcileReadFacts,
       ReconcileFacts, CloseJobFacts DEF Serves, run
  <2> QED BY <2>1, <2>2, <2>3
<1>4. ASSUME NEW w \in Process, Crash(w) PROVE UNCHANGED <<status, effects>>
  BY <1>4, CrashFacts DEF run
<1>5. ASSUME NEW a \in Approval, Deny(a) \/ Expire(a) PROVE Ends \/ UNCHANGED <<status, effects>>
  BY <1>5, RefusalFacts DEF run
<1>6. CASE Passes
  BY <1>1, <1>6, TimeFacts DEF Passes
<1>7. CASE UNCHANGED vars
  BY <1>1, <1>7 DEF vars, run
<1> QED BY <1>1, <1>2, <1>3, <1>4, <1>5, <1>6, <1>7, StepKinds

-----------------------------------------------------------------------------
\* The locks of the approvals.
LEMMA LocksKept ==
  ASSUME ApprovalsLocked,
         \A u \in Process :
           request'[u] = request[u] \/ request'[u].pc \notin {"decide", "approve", "settle"},
         \A u \in Process : request'[u].pc = "approve" => Pending(request[u].approval)',
         contended => contended',
         contended' \/ job'.approval = job.approval \/ job'.approval # NoApproval,
         status' = "waiting" => status = "waiting" \/ job'.approval # NoApproval,
         \A u \in Process : request'[u].pc = "seize" => exec'[u].pc = "idle"
  PROVE  ApprovalsLocked'
<1>1. /\ \A w \in Process : request'[w].pc = "decide" => request'[w].approval \in Approval
      /\ \A w \in Process : request'[w].pc = "approve" =>
           /\ request'[w].approval \in Approval
           /\ Pending(request[w].approval)'
           /\ request'[w].copy.approval = request'[w].approval
  BY DEF ApprovalsLocked, Pending
<1>2. \A v, w \in Process :
        /\ request'[v].pc = "approve"
        /\ request'[w].pc = "approve"
        /\ request'[v].approval = request'[w].approval
        => v = w
  BY DEF ApprovalsLocked
<1>3. /\ ~contended' /\ status' = "waiting" => job'.approval # NoApproval
      /\ \A w \in Process :
           ~contended' /\ request'[w].pc = "settle" /\ request'[w].seen = "waiting" =>
             job'.approval # NoApproval
  BY DEF ApprovalsLocked
<1> QED BY <1>1, <1>2, <1>3 DEF ApprovalsLocked, Pending

LEMMA ApprovalIsNamed == \A a \in Approval : a # NoApproval
  BY DEF Approval, NoApproval

LEMMA MovesKeepLocks ==
  ASSUME TypeOK, ApprovalsLocked, NEW w \in Process, Moves(w)
  PROVE  ApprovalsLocked'
<1>1. /\ UNCHANGED request /\ (contended => contended')
      /\ \/ exec[w].pc # "idle" /\ OtherExecs(w)
         \/ SameExecs
  BY ClaimFacts, DeliverFacts, CheckpointFacts, PauseReadFacts, PauseCommitFacts,
     CompleteFacts, FinishFacts, LoseLeaseFacts DEF Moves, world
<1>2. \A u \in Process : request'[u].pc = "seize" => exec'[u].pc = "idle"
  BY <1>1 DEF ApprovalsLocked, OtherExecs, SameExecs
<1>3. CASE PauseCommit(w)
  <2>1. \/ \E a \in Approval : /\ approvals' = [approvals EXCEPT ![a] = "pending"]
                              /\ job'.approval = a
        \/ UNCHANGED <<run, approvals, job>>
    BY <1>3, PauseCommitFacts
  <2>2. CASE UNCHANGED <<run, approvals, job>>
    BY <1>1, <1>2, <2>2, LocksKept DEF ApprovalsLocked, Pending, run
  <2>3. ASSUME NEW a \in Approval, approvals' = [approvals EXCEPT ![a] = "pending"],
               job'.approval = a
        PROVE  ApprovalsLocked'
    <3>1. \A u \in Process : request'[u].pc = "approve" => Pending(request[u].approval)'
      BY <1>1, <2>3, Types DEF ApprovalsLocked, Pending
    <3> QED BY <1>1, <1>2, <2>3, <3>1, ApprovalIsNamed, LocksKept
  <2> QED BY <2>1, <2>2, <2>3
<1>4. CASE ~PauseCommit(w)
  <2>1. /\ UNCHANGED approvals /\ (contended' \/ job'.approval = job.approval)
        /\ status' = "waiting" => status = "waiting"
    BY <1>4, ClaimFacts, DeliverFacts, CheckpointFacts, PauseReadFacts, CompleteFacts,
       FinishFacts, LoseLeaseFacts DEF Moves, Takes, Notes, Closes, Ends, run
  <2> QED BY <1>1, <1>2, <2>1, LocksKept DEF ApprovalsLocked, Pending
<1> QED BY <1>3, <1>4

LEMMA ServesKeepLocks ==
  ASSUME TypeOK, ApprovalsLocked, NEW w \in Process, Serves(w)
  PROVE  ApprovalsLocked'
<1>0. contended => contended'
  BY DecideFacts, ApproveReadFacts, ApproveLateFacts, ApproveCommitFacts, ResumeFacts,
     CancelReadFacts, EndFacts, RecoverReadFacts, ExamineFacts, SeizeFacts,
     ReconcileReadFacts, ReconcileFacts, CloseJobFacts DEF Serves, world
<1>1. CASE ApproveRead(w)
  <2> DEFINE a == request[w].approval
  <2>1. /\ OtherRequests(w) /\ UNCHANGED <<run, approvals, job, exec, world>>
        /\ request[w].pc = "decide"
        /\ \/ /\ Open(a) /\ status = "waiting" /\ job.approval = a
              /\ request'[w].pc = "approve" /\ request'[w].approval = a
              /\ request'[w].copy = job
           \/ request'[w].pc = "idle"
    BY <1>1, ApproveReadFacts
  <2>2. a \in Approval
    BY <2>1 DEF ApprovalsLocked
  <2>3. CASE request'[w].pc = "idle"
    BY <2>1, <2>3, LocksKept DEF ApprovalsLocked, Pending, OtherRequests, run, world
  <2>4. CASE request'[w].pc # "idle"
    <3> HIDE DEF a
    <3>1. \A u \in Process : u # w /\ request'[u].pc = "approve" => request'[u].approval # a
      BY <2>1, <2>4 DEF Open, Locked, OtherRequests
    <3> QED BY <2>1, <2>2, <2>4, <3>1
            DEF ApprovalsLocked, Open, Pending, OtherRequests, run, world
  <2> QED BY <2>3, <2>4
<1>5. ASSUME NEW a \in Approval, Decide(w, a) PROVE ApprovalsLocked'
  <2>1. /\ OtherRequests(w) /\ UNCHANGED <<run, approvals, job, exec, world>>
        /\ request'[w].pc = "decide" /\ request'[w].approval = a
    BY <1>5, DecideFacts
  <2> QED BY <2>1 DEF ApprovalsLocked, Pending, OtherRequests, run, world
<1>2. CASE ApproveCommit(w)
  <2>1. /\ OtherRequests(w) /\ UNCHANGED exec /\ status' = "running"
        /\ request[w].pc = "approve" /\ request'[w].pc = "resume"
        /\ approvals' = [approvals EXCEPT ![request[w].approval] = "approved"]
        /\ job'.approval = request[w].copy.approval
    BY <1>2, ApproveCommitFacts
  <2>2. request[w].approval \in Approval /\ job'.approval # NoApproval
    BY <2>1, ApprovalIsNamed DEF ApprovalsLocked
  <2>3. \A u \in Process : request'[u].pc = "approve" => Pending(request[u].approval)'
    BY <2>1, <2>2, Types DEF ApprovalsLocked, Pending, OtherRequests
  <2>4. \A u \in Process : request'[u].pc = "seize" => exec'[u].pc = "idle"
    BY <2>1 DEF ApprovalsLocked, OtherRequests
  <2> QED BY <1>0, <2>1, <2>2, <2>3, <2>4, LocksKept DEF OtherRequests
<1>3. CASE ReconcileRead(w)
  <2>1. /\ OtherRequests(w) /\ UNCHANGED <<run, approvals, job, exec, world>>
        /\ request'[w].pc = "settle" /\ request'[w].seen = status
    BY <1>3, ReconcileReadFacts
  <2> QED BY <2>1 DEF ApprovalsLocked, Pending, OtherRequests, run, world
<1>4. CASE /\ ~ApproveCommit(w) /\ ~ReconcileRead(w) /\ ~ApproveRead(w)
           /\ ~ \E a \in Approval : Decide(w, a)
  <2>1. /\ OtherRequests(w) /\ UNCHANGED approvals /\ job'.approval = job.approval
        /\ request'[w].pc \notin {"decide", "approve", "settle"}
    BY <1>4, ApproveLateFacts, ResumeFacts, CancelReadFacts, EndFacts, RecoverReadFacts,
       ExamineFacts, SeizeFacts, ReconcileFacts, CloseJobFacts DEF Serves, Takes, Closes
  <2>2. status' = "waiting" => status = "waiting"
    BY <1>4, ApproveLateFacts, ResumeFacts, CancelReadFacts, EndFacts, RecoverReadFacts,
       ExamineFacts, SeizeFacts, ReconcileFacts, CloseJobFacts DEF Serves, Ends, run
  <2>3. \/ OtherExecs(w) /\ request'[w].pc # "seize"
        \/ SameExecs /\ request'[w].pc # "seize"
        \/ UNCHANGED exec /\ request'[w].pc # "seize"
        \/ UNCHANGED exec /\ exec[w].pc = "idle"
    BY <1>4, ApproveLateFacts, ResumeFacts, CancelReadFacts, EndFacts, RecoverReadFacts,
       ExamineFacts, SeizeFacts, ReconcileFacts, CloseJobFacts DEF Serves
  <2>4. \A u \in Process : request'[u].pc = "seize" => exec'[u].pc = "idle"
    BY <2>1, <2>3 DEF ApprovalsLocked, OtherRequests, OtherExecs, SameExecs
  <2> QED BY <1>0, <2>1, <2>2, <2>4, LocksKept DEF ApprovalsLocked, OtherRequests, Pending
<1> QED BY <1>1, <1>2, <1>3, <1>4, <1>5 DEF Serves

LEMMA LocksAreKept == TypeOK /\ ApprovalsLocked /\ [Next]_vars => ApprovalsLocked'
<1> SUFFICES ASSUME TypeOK, ApprovalsLocked, [Next]_vars PROVE ApprovalsLocked'
  OBVIOUS
<1>1. ASSUME NEW w \in Process, Crash(w) PROVE ApprovalsLocked'
  <2>1. /\ UNCHANGED <<run, approvals, job, contended>>
        /\ \A u \in Process : exec'[u] = exec[u] \/ exec'[u].pc = "idle"
        /\ \A u \in Process : request'[u] = request[u] \/ request'[u].pc = "idle"
    BY <1>1, CrashFacts
  <2> QED BY <2>1, LocksKept DEF ApprovalsLocked, Pending, run
<1>2. ASSUME NEW a \in Approval, Deny(a) \/ Expire(a) PROVE ApprovalsLocked'
  <2>1. /\ UNCHANGED <<job, exec, request, contended>> /\ Open(a)
        /\ \E s \in Refused : approvals' = [approvals EXCEPT ![a] = s]
        /\ status' = "waiting" => status = "waiting"
    BY <1>2, RefusalFacts DEF Ends, run, world
  <2>2. \A u \in Process : request'[u].pc = "approve" => Pending(request[u].approval)'
    BY <2>1, Types DEF ApprovalsLocked, Pending, Open, Locked
  <2> QED BY <2>1, <2>2, LocksKept DEF ApprovalsLocked
<1>3. CASE Passes
  <2>1. /\ UNCHANGED <<status, approvals, exec, request, contended>>
        /\ job'.approval = job.approval
    BY <1>3, TimeFacts DEF Passes
  <2> QED BY <2>1, LocksKept DEF ApprovalsLocked, Pending
<1>4. CASE UNCHANGED vars
  BY <1>4, LocksKept DEF ApprovalsLocked, Pending, vars, run, world
<1> QED BY <1>1, <1>2, <1>3, <1>4, StepKinds, MovesKeepLocks, ServesKeepLocks

-----------------------------------------------------------------------------
\* A run that never ended, while it is undisturbed.
Held ==
  /\ TypeOK /\ EndedWithEffects /\ ApprovalsLocked
  /\ Orderly /\ HeldInOneHand /\ PendingIsAlone

LEMMA HeldFacts ==
  ASSUME Held
  PROVE  /\ status \in {"running", "waiting"}
         /\ effects = 0 /\ faults = 0 /\ contended = FALSE /\ quiet = FALSE /\ repeated = FALSE
         /\ \A w \in Process : Hand(w) =>
              /\ status = "running"
              /\ \A u \in Process : u # w => exec[u].pc = "idle"
              /\ \A u \in Process : u # w => request[u].pc # "resume"
              /\ exec[w].pc # "idle" => request[w].pc # "resume"
              /\ \A u \in Process : request[u].pc # "approve"
BY DEF Held, TypeOK, EndedWithEffects, Orderly, Undisturbed, HeldInOneHand, Hand

\* The execution that has the run in hand goes on.
LEMMA HandGoesOn ==
  ASSUME Held, NEW w \in Process, exec[w].pc # "idle", OtherExecs(w),
         UNCHANGED <<status, effects, approvals, request, repeated>>, quiet' = FALSE,
         exec'[w].pc \notin {"idle", "claim", "finish"}, Owns(w)',
         exec'[w].text < exec'[w].next,
         exec'[w].pc \in {"held", "pause"} => \E a \in Approval : approvals[a] = "absent"
  PROVE  HeldInOneHand'
<1>1. /\ Hand(w) /\ status = "running" /\ status' = status /\ repeated' = FALSE
      /\ \A u \in Process : u # w => exec'[u].pc = "idle"
      /\ \A u \in Process : request'[u].pc \notin {"resume", "approve"}
  BY HeldFacts DEF Hand, OtherExecs
<1>2. /\ Hand(w)' /\ \A u \in Process : Hand(u)' => u = w
  BY <1>1 DEF Hand
<1>3. /\ \A u \in Process :
           request'[u].pc \in {"idle", "decide", "approve", "resume", "cancel", "settle"}
      /\ \A u \in Process : request'[u].pc = "settle" => request'[u].seen = "waiting"
  BY DEF Held, HeldInOneHand
<1>4. \A u \in Process : Active(u)' => u = w
  BY <1>1 DEF Active
<1> QED BY <1>1, <1>2, <1>3, <1>4 DEF HeldInOneHand, Active

\* Requests come and go that do not touch the run.
LEMMA RequestsComeAndGo ==
  ASSUME Held, SameExecs, UNCHANGED <<run, approvals, job, repeated>>,
         \A u \in Process :
           \/ request'[u] = request[u]
           \/ request[u].pc # "resume" /\ request'[u].pc \in {"idle", "decide", "cancel"}
           \/ /\ request[u].pc # "resume" /\ request'[u].pc = "settle"
              /\ request'[u].seen = "waiting"
           \/ /\ request[u].pc # "resume" /\ request'[u].pc = "approve"
              /\ request'[u].copy = job /\ status = "waiting"
  PROVE  HeldInOneHand'
<1>1. /\ status' = status
      /\ \A u \in Process : Hand(u)' <=> Hand(u)
      /\ \A u \in Process : Active(u)' <=> Active(u)
      /\ \A u \in Process : Owns(u)' <=> Owns(u)
      /\ \A u \in Process : request'[u].pc = "resume" => request'[u] = request[u]
  BY DEF SameExecs, Hand, Active, Owns, run
<1>2. /\ ~quiet' /\ ~repeated'
      /\ \A u \in Process :
           request'[u].pc \in {"idle", "decide", "approve", "resume", "cancel", "settle"}
      /\ \A u \in Process : request'[u].pc = "settle" => request'[u].seen = "waiting"
      /\ \A u \in Process : request'[u].pc = "approve" =>
           status' = "waiting" /\ request'[u].copy = job'
  BY DEF Held, HeldInOneHand, run
<1>3. /\ status' = "running" => \E w \in Process : Hand(w)'
      /\ \A v, w \in Process : Hand(v)' /\ Hand(w)' => v = w
      /\ \A w \in Process : Hand(w)' => status' = "running"
      /\ status' = "waiting" => job'.status = "queued" /\ \E a \in Approval : Current(a)'
  BY <1>1 DEF Held, HeldInOneHand, Current
<1>4. /\ \A w \in Process : Active(w)' =>
           Owns(w)' /\ exec'[w].text < exec'[w].next /\ exec'[w].pc # "finish"
      /\ \A w \in Process : exec'[w].pc \in {"held", "pause"} =>
           \E a \in Approval : approvals'[a] = "absent"
      /\ \A w \in Process : exec'[w].pc = "claim" =>
           job'.status = "queued" /\ job'.text < exec'[w].next
  BY <1>1 DEF Held, HeldInOneHand, SameExecs
<1>5. \A w \in Process : request'[w].pc = "resume" =>
        /\ exec'[w].pc = "idle"
        /\ job'.status = "queued"
        /\ job'.approval = request'[w].approval
  BY <1>1 DEF Held, HeldInOneHand, SameExecs
<1> QED BY <1>2, <1>3, <1>4, <1>5 DEF HeldInOneHand

LEMMA MovesHold ==
  ASSUME Held, Orderly', NEW w \in Process, Moves(w)
  PROVE  HeldInOneHand'
<1>0. /\ TypeOK
      /\ exec[w].pc \notin {"idle", "claim"} =>
           Owns(w) /\ exec[w].text < exec[w].next /\ exec[w].pc # "finish"
      /\ exec[w].pc \in {"held", "pause"} => \E a \in Approval : approvals[a] = "absent"
      /\ exec[w].pc = "claim" => job.status = "queued" /\ job.text < exec[w].next
  BY DEF Held, HeldInOneHand, Active
<1>1. CASE Claim(w)
  <2>1. /\ exec[w].pc = "claim" /\ OtherExecs(w)
        /\ UNCHANGED <<run, approvals, request, repeated>>
        /\ \/ /\ Takes(w) /\ exec'[w].pc = "stream"
              /\ exec'[w].text = job.text /\ exec'[w].next = exec[w].next
           \/ contended'
           \/ ~Claimable
    BY <1>0, <1>1, ClaimFacts
  <2>2. Claimable /\ ~contended'
    BY <1>0, <2>1 DEF Claimable, Orderly, Undisturbed
  <2> QED BY <1>0, <2>1, <2>2, HeldFacts, HandGoesOn DEF Takes, Owns, run
<1>2. CASE Deliver(w)
  <2>1. /\ exec[w].pc = "stream" /\ OtherExecs(w) /\ exec'[w].pc = "logged" /\ quiet' = FALSE
        /\ UNCHANGED <<status, effects, approvals, job, request>>
        /\ exec[w].text < exec[w].next =>
             repeated' = repeated /\ exec'[w].text < exec'[w].next
    BY <1>0, <1>2, DeliverFacts
  <2> QED BY <1>0, <2>1, HandGoesOn DEF Owns
<1>3. CASE Checkpoint(w) \/ PauseCheckpoint(w)
  <2>1. /\ exec[w].pc \in {"stream", "logged"} /\ OtherExecs(w)
        /\ UNCHANGED <<run, approvals, request, repeated>>
        /\ Owns(w) =>
             /\ Notes(w)
             /\ \/ /\ exec'[w].pc = "stream"
                   /\ exec'[w].text = exec[w].text /\ exec'[w].next = exec[w].next
                \/ /\ exec'[w].pc = "held" /\ exec'[w].text = 0 /\ exec'[w].next = 1
                   /\ \E a \in Approval : approvals[a] = "absent"
    BY <1>0, <1>3, CheckpointFacts
  <2> QED BY <1>0, <2>1, HeldFacts, HandGoesOn DEF Owns, Notes, run
<1>4. CASE PauseRead(w)
  <2>1. /\ exec[w].pc = "held" /\ OtherExecs(w)
        /\ UNCHANGED <<run, approvals, job, request, repeated>>
        /\ status = "running" =>
             /\ exec'[w].pc = "pause"
             /\ exec'[w].text = exec[w].text /\ exec'[w].next = exec[w].next
    BY <1>0, <1>4, PauseReadFacts
  <2>2. status = "running"
    BY <2>1, HeldFacts DEF Hand
  <2> QED BY <1>0, <2>1, <2>2, HeldFacts, HandGoesOn DEF Owns, run
<1>5. CASE PauseCommit(w)
  <2>1. /\ exec[w].pc = "pause" /\ OtherExecs(w) /\ exec'[w].pc = "idle"
        /\ UNCHANGED <<request, repeated>>
        /\ \/ /\ Owns(w) /\ status' = "waiting" /\ quiet' = FALSE
              /\ \E a \in Approval :
                   /\ approvals[a] = "absent"
                   /\ approvals' = [approvals EXCEPT ![a] = "pending"]
                   /\ job'.status = "queued" /\ job'.approval = a
           \/ ~Owns(w) \/ \A a \in Approval : approvals[a] # "absent"
    BY <1>0, <1>5, PauseCommitFacts
  <2>2. PICK a \in Approval :
          /\ status' = "waiting" /\ quiet' = FALSE
          /\ approvals' = [approvals EXCEPT ![a] = "pending"]
          /\ job'.status = "queued" /\ job'.approval = a
    BY <1>0, <2>1
  <2>3. /\ \A u \in Process : exec'[u].pc = "idle"
        /\ \A u \in Process : request'[u].pc \notin {"resume", "approve"}
        /\ repeated' = FALSE
    BY <2>1, HeldFacts DEF Hand, OtherExecs
  <2>4. approvals'[a] = "pending"
    BY <1>0, <2>2, Types
  <2>5. /\ \A u \in Process :
             request'[u].pc \in {"idle", "decide", "approve", "resume", "cancel", "settle"}
        /\ \A u \in Process : request'[u].pc = "settle" => request'[u].seen = "waiting"
    BY <2>1 DEF Held, HeldInOneHand
  <2> QED BY <2>2, <2>3, <2>4, <2>5 DEF HeldInOneHand, Hand, Active, Current
<1>6. CASE Complete(w)
  <2>1. \/ Ends
        \/ effects > 0
    BY <1>0, <1>6, CompleteFacts
  <2> QED BY <2>1, HeldFacts DEF Ends, Orderly
<1>7. CASE Finish(w)
  BY <1>0, <1>7, FinishFacts
<1>8. CASE LoseLease(w)
  <2>1. SameExecs /\ UNCHANGED <<run, approvals, job, request, repeated>>
    BY <1>0, <1>8, LoseLeaseFacts
  <2> QED BY <2>1, RequestsComeAndGo
<1> QED BY <1>1, <1>2, <1>3, <1>4, <1>5, <1>6, <1>7, <1>8 DEF Moves

LEMMA ServesHold ==
  ASSUME Held, Orderly', NEW w \in Process, Serves(w)
  PROVE  HeldInOneHand'
<1>0. /\ TypeOK /\ request[w].pc \in {"idle", "decide", "approve", "resume", "cancel", "settle"}
      /\ request[w].pc = "settle" => request[w].seen = "waiting" /\ job.approval # NoApproval
      /\ request[w].pc = "resume" =>
           job.status = "queued" /\ job.approval = request[w].approval
  BY DEF Held, HeldInOneHand, ApprovalsLocked, Orderly, Undisturbed
<1>1. UNCHANGED exec => SameExecs
  BY DEF SameExecs
<1>2. ASSUME \/ \E a \in Approval : Decide(w, a)
             \/ ApproveRead(w) \/ ApproveLate(w)
      PROVE  HeldInOneHand'
  <2>1. /\ OtherRequests(w) /\ UNCHANGED <<run, approvals, job, exec, repeated>>
        /\ request[w].pc \in {"idle", "decide"}
        /\ \/ request'[w].pc \in {"idle", "decide"}
           \/ /\ request'[w].pc = "approve" /\ request'[w].copy = job
              /\ status = "waiting"
           \/ contended'
    BY <1>0, <1>2, DecideFacts, ApproveReadFacts, ApproveLateFacts
  <2>2. ~contended'
    BY DEF Orderly, Undisturbed
  <2> QED BY <1>1, <2>1, <2>2, RequestsComeAndGo DEF OtherRequests
<1>3. CASE CancelRead(w) \/ ReconcileRead(w)
  <2>1. /\ OtherRequests(w) /\ SameExecs /\ UNCHANGED <<run, approvals, job, repeated>>
        /\ request[w].pc = "idle"
        /\ \/ request'[w].pc = "cancel"
           \/ request'[w].pc = "settle" /\ request'[w].seen = status /\ status # "running"
    BY <1>0, <1>1, <1>3, CancelReadFacts, ReconcileReadFacts
  <2> QED BY <2>1, HeldFacts, RequestsComeAndGo DEF OtherRequests
<1>4. CASE Reconcile(w)
  <2>1. /\ OtherRequests(w) /\ UNCHANGED <<run, approvals, exec, repeated>>
        /\ request[w].pc = "settle"
        /\ \/ ~Kept(request[w].seen)
           \/ UNCHANGED job /\ request'[w].pc = "idle"
    BY <1>0, <1>4, ReconcileFacts
  <2>2. Kept(request[w].seen)
    BY <1>0, <2>1 DEF Kept
  <2> QED BY <1>1, <2>1, <2>2, RequestsComeAndGo DEF OtherRequests
<1>5. CASE CancelCommit(w) \/ FailRun(w)
  <2>1. Ends \/ effects > 0
    BY <1>0, <1>5, EndFacts
  <2> QED BY <2>1, HeldFacts DEF Ends, Orderly
<1>6. CASE RecoverRead(w)
  BY <1>0, <1>6, HeldFacts, RecoverReadFacts
<1>7. CASE Examine(w) \/ Seize(w) \/ CloseJob(w)
  BY <1>0, <1>7, ExamineFacts, SeizeFacts, CloseJobFacts
<1>8. CASE ApproveCommit(w)
  <2>1. /\ OtherRequests(w) /\ UNCHANGED <<exec, repeated>>
        /\ request[w].pc = "approve" /\ request'[w].pc = "resume"
        /\ request'[w].approval = request[w].approval
        /\ approvals' = [approvals EXCEPT ![request[w].approval] = "approved"]
        /\ status' = "running" /\ quiet' = FALSE
        /\ job'.status = "queued" /\ job'.approval = request[w].copy.approval
    BY <1>0, <1>8, ApproveCommitFacts DEF Held
  <2>2. /\ status = "waiting" /\ request[w].copy.approval = request[w].approval
        /\ \A u \in Process : u # w => request[u].pc # "approve"
    BY <2>1 DEF Held, HeldInOneHand, ApprovalsLocked, PendingIsAlone
  <2>3. /\ \A u \in Process : exec'[u].pc = "idle"
        /\ \A u \in Process : u # w => request'[u].pc \notin {"resume", "approve"}
        /\ repeated' = FALSE
    BY <2>1, <2>2, HeldFacts DEF Hand, OtherRequests
  <2>4. /\ \A u \in Process :
             request'[u].pc \in {"idle", "decide", "approve", "resume", "cancel", "settle"}
        /\ \A u \in Process : request'[u].pc = "settle" => request'[u].seen = "waiting"
    BY <2>1 DEF Held, HeldInOneHand, OtherRequests
  <2> QED BY <2>1, <2>2, <2>3, <2>4 DEF HeldInOneHand, Hand, Active
<1>9. CASE Resume(w)
  <2>1. /\ OtherRequests(w) /\ OtherExecs(w)
        /\ UNCHANGED <<run, approvals, job, repeated>>
        /\ request[w].pc = "resume" /\ request'[w].pc = "idle"
        /\ \/ exec'[w].pc = "claim" /\ exec'[w].next = job.text + 1
           \/ ~(/\ status = "running" /\ job.approval = request[w].approval
                /\ job.status # "closed")
    BY <1>0, <1>9, ResumeFacts
  <2>2. status = "running"
    BY <2>1, HeldFacts DEF Hand
  <2>3. exec'[w].pc = "claim" /\ exec'[w].next = job.text + 1
    BY <1>0, <2>1, <2>2
  <2>4. job.text < job.text + 1
    BY <1>0, Types DEF Job
  <2>5. /\ \A u \in Process : u # w => exec'[u].pc = "idle"
        /\ \A u \in Process : request'[u].pc \notin {"resume", "approve"}
        /\ quiet' = FALSE /\ repeated' = FALSE /\ status' = "running"
    BY <2>1, <2>2, HeldFacts DEF Hand, OtherExecs, OtherRequests, run
  <2>6. /\ \A u \in Process :
             request'[u].pc \in {"idle", "decide", "approve", "resume", "cancel", "settle"}
        /\ \A u \in Process : request'[u].pc = "settle" => request'[u].seen = "waiting"
    BY <2>1 DEF Held, HeldInOneHand, OtherRequests
  <2>7. job'.status = "queued" /\ job'.text < exec'[w].next
    BY <1>0, <2>1, <2>3, <2>4
  <2> QED BY <2>3, <2>5, <2>6, <2>7 DEF HeldInOneHand, Hand, Active
<1> QED BY <1>2, <1>3, <1>4, <1>5, <1>6, <1>7, <1>8, <1>9 DEF Serves

LEMMA RefusalsHold ==
  ASSUME Held, Orderly', NEW a \in Approval, Deny(a) \/ Expire(a)
  PROVE  HeldInOneHand'
<1>1. /\ Open(a)
      /\ \/ status = "waiting" /\ Ends
         \/ status # "waiting"
  BY RefusalFacts DEF Held
<1>2. status = "waiting"
  BY <1>1, HeldFacts DEF Held, PendingIsAlone, Open, Pending
<1> QED BY <1>1, <1>2, HeldFacts DEF Ends, Orderly

LEMMA PassesHold ==
  ASSUME Held, Orderly', Passes
  PROVE  HeldInOneHand'
<1>1. /\ UNCHANGED <<status, effects, approvals, exec, request, repeated>>
      /\ \/ faults' = faults + 1
         \/ UNCHANGED <<faults, quiet, job>>
         \/ ~Busy /\ job.status = "running"
         \/ ~(\E w \in Process : Hand(w)) /\ status = "running"
  BY TimeFacts DEF Passes, Held
<1>2. ~(~(\E w \in Process : Hand(w)) /\ status = "running")
  BY DEF Held, HeldInOneHand
<1>3. ~(~Busy /\ job.status = "running")
  <2> SUFFICES ASSUME job.status = "running" PROVE Busy
    OBVIOUS
  <2>1. status = "running"
    BY HeldFacts DEF Held, HeldInOneHand
  <2>2. PICK w \in Process : Active(w)
    BY <2>1 DEF Held, HeldInOneHand, Hand, Active
  <2> QED BY <2>2 DEF Held, HeldInOneHand, Active, Busy
<1>4. faults = 0 /\ faults' = 0
  BY HeldFacts DEF Orderly, Undisturbed
<1>5. faults' # faults + 1
  BY <1>4
<1>6. UNCHANGED <<quiet, job>>
  BY <1>1, <1>2, <1>3, <1>5
<1> QED BY <1>1, <1>6, RequestsComeAndGo DEF SameExecs, run

-----------------------------------------------------------------------------
\* A run, ended or not, while it is undisturbed.
Unfaulted ==
  /\ TypeOK /\ EndedWithEffects /\ ApprovalsLocked
  /\ Orderly => HeldInOneHand
  /\ Undisturbed
  /\ PendingIsAlone /\ EndedIsQuiet /\ OvertakenIsIdle /\ RefusedIsOver

StaysUnfaulted == PendingIsAlone' /\ EndedIsQuiet' /\ OvertakenIsIdle' /\ RefusedIsOver'

\* Steps that leave the run and its approvals alone.
LEMMA RunLeftAlone ==
  ASSUME Unfaulted, UNCHANGED <<status, approvals>>,
         \A u \in Process : exec'[u].pc # "idle" =>
           exec[u].pc # "idle" \/ (status # "ended" /\ request'[u].pc # "settle"),
         \A u \in Process : exec'[u].pc = "pause" /\ Owns(u)' =>
           (exec[u].pc = "pause" /\ Owns(u)) \/ \A a \in Approval : ~Pending(a),
         \A u \in Process : request'[u].pc \in {"examine", "seize"} =>
           request[u].pc \in {"examine", "seize"} \/ status # "ended",
         \A u \in Process : request'[u].pc = "settle" /\ request'[u].seen # "waiting" =>
           (request[u].pc = "settle" /\ request[u].seen # "waiting") \/ status = "ended",
         \A u \in Process : request'[u].pc = "approve" =>
           request[u].pc = "approve" \/ status # "ended"
  PROVE  StaysUnfaulted
<1>0. status' = status /\ \A a \in Approval : Pending(a)' <=> Pending(a)
  BY DEF Pending
<1>1. PendingIsAlone'
  BY <1>0 DEF Unfaulted, PendingIsAlone
<1>2. EndedIsQuiet'
  BY <1>0 DEF Unfaulted, EndedIsQuiet
<1>3. OvertakenIsIdle'
  BY <1>0 DEF Unfaulted, OvertakenIsIdle
<1>4. RefusedIsOver'
  BY <1>0 DEF Unfaulted, RefusedIsOver
<1> QED BY <1>1, <1>2, <1>3, <1>4 DEF StaysUnfaulted

\* The run ends: it was in one hand, or waited.
LEMMA RunEnds ==
  ASSUME Unfaulted, Ends, status # "ended",
         \A a \in Approval : Pending(a)' => Pending(a),
         \A a \in Approval : approvals'[a] \in Refused =>
           approvals[a] \in Refused \/ status = "waiting",
         \A u \in Process : exec'[u].pc # "idle" => exec[u].pc # "idle",
         \A u \in Process : exec'[u].pc = "pause" => exec[u].pc = "pause",
         \A u \in Process : request'[u].pc \notin {"examine", "seize"} \/ request'[u] = request[u],
         UNCHANGED job
  PROVE  PendingIsAlone' /\ EndedIsQuiet' /\ OvertakenIsIdle'
<1>1. Held
  BY DEF Unfaulted, Held, Ends, Orderly
<1>2. status' = "ended" /\ \A u \in Process : Owns(u)' <=> Owns(u)
  BY DEF Ends, Owns
<1>3. PendingIsAlone'
  BY <1>2 DEF Unfaulted, PendingIsAlone
<1>4. /\ \A w \in Process : request'[w].pc \notin {"examine", "seize"}
      /\ \A v, w \in Process : exec'[v].pc # "idle" /\ exec'[w].pc # "idle" => v = w
  BY <1>1 DEF Held, HeldInOneHand, Hand
<1>5. ASSUME NEW a \in Approval, NEW w \in Process,
             approvals'[a] \in {"pending"} \cup Refused, exec'[w].pc # "idle"
      PROVE  FALSE
  <2>1. status = "running"
    BY <1>1, <1>5, HeldFacts DEF Hand
  <2>2. ~Pending(a) /\ approvals[a] \notin Refused
    BY <2>1 DEF Unfaulted, PendingIsAlone, RefusedIsOver
  <2> QED BY <1>5, <2>1, <2>2 DEF Pending
<1> QED BY <1>2, <1>3, <1>4, <1>5 DEF EndedIsQuiet, OvertakenIsIdle

LEMMA MovesUnfaulted ==
  ASSUME Unfaulted, Undisturbed', NEW w \in Process, Moves(w)
  PROVE  StaysUnfaulted
<1>0. TypeOK /\ UNCHANGED request
  BY ClaimFacts, DeliverFacts, CheckpointFacts, PauseReadFacts, PauseCommitFacts,
     CompleteFacts, FinishFacts, LoseLeaseFacts DEF Moves, Unfaulted
<1>1. CASE Claim(w)
  <2>1. /\ OtherExecs(w) /\ UNCHANGED <<run, approvals>>
        /\ exec[w].pc = "claim" /\ exec'[w].pc # "pause"
        /\ Takes(w) \/ UNCHANGED job
    BY <1>0, <1>1, ClaimFacts DEF Undisturbed
  <2> QED BY <1>0, <2>1, RunLeftAlone DEF run, OtherExecs, Takes, Owns
<1>2. CASE Deliver(w) \/ Checkpoint(w) \/ PauseCheckpoint(w) \/ Finish(w)
  <2>1. /\ OtherExecs(w) /\ UNCHANGED <<status, approvals>>
        /\ exec[w].pc # "idle" /\ exec'[w].pc # "pause"
        /\ Notes(w) \/ Closes \/ UNCHANGED job
    BY <1>0, <1>2, DeliverFacts, CheckpointFacts, FinishFacts DEF run
  <2> QED BY <1>0, <2>1, RunLeftAlone DEF run, OtherExecs, Notes, Closes, Owns
<1>3. CASE PauseRead(w)
  <2>1. /\ OtherExecs(w) /\ UNCHANGED <<run, approvals, job>>
        /\ exec[w].pc # "idle" /\ (exec'[w].pc = "pause" => status = "running")
    BY <1>0, <1>3, PauseReadFacts
  <2>2. exec'[w].pc = "pause" => \A a \in Approval : ~Pending(a)
    BY <2>1 DEF Unfaulted, PendingIsAlone
  <2> QED BY <1>0, <2>1, <2>2, RunLeftAlone DEF run, OtherExecs, Owns
<1>4. CASE PauseCommit(w)
  <2>1. /\ exec[w].pc = "pause" /\ OtherExecs(w) /\ exec'[w].pc = "idle"
        /\ \/ /\ Owns(w) /\ status' = "waiting" /\ job'.status = "queued"
              /\ \E a \in Approval : approvals' = [approvals EXCEPT ![a] = "pending"]
           \/ UNCHANGED <<run, approvals, job>>
    BY <1>0, <1>4, PauseCommitFacts
  <2>2. CASE UNCHANGED <<run, approvals, job>>
    BY <1>0, <2>1, <2>2, RunLeftAlone DEF run, OtherExecs, Owns
  <2>3. CASE ~UNCHANGED <<run, approvals, job>>
    <3>1. PICK a \in Approval : approvals' = [approvals EXCEPT ![a] = "pending"]
      BY <2>1, <2>3
    <3>2. Owns(w) /\ status' = "waiting" /\ job'.status = "queued"
      BY <2>1, <2>3
    <3>3. \A b \in Approval : ~Pending(b) /\ approvals[b] \notin Refused
      BY <2>1, <3>2 DEF Unfaulted, PendingIsAlone, RefusedIsOver, EndedIsQuiet
    <3>4. /\ \A b \in Approval : Pending(b)' => b = a
          /\ \A b \in Approval : approvals'[b] \notin Refused
          /\ \A u \in Process : ~Owns(u)'
      BY <1>0, <3>1, <3>2, <3>3, Types DEF Pending, Refused, Owns
    <3>5. OvertakenIsIdle'
      BY <1>0, <2>1, <3>2 DEF Unfaulted, OvertakenIsIdle, EndedIsQuiet, OtherExecs
    <3>6. PendingIsAlone' /\ EndedIsQuiet' /\ RefusedIsOver'
      BY <3>2, <3>4 DEF PendingIsAlone, EndedIsQuiet, RefusedIsOver
    <3> QED BY <3>5, <3>6 DEF StaysUnfaulted
  <2> QED BY <2>2, <2>3
<1>5. CASE Complete(w)
  <2>1. /\ OtherExecs(w) /\ UNCHANGED <<approvals, job>>
        /\ exec[w].pc = "stream" /\ exec'[w].pc # "pause"
        /\ Ends \/ UNCHANGED run
    BY <1>0, <1>5, CompleteFacts
  <2>2. CASE UNCHANGED run
    BY <1>0, <2>1, <2>2, RunLeftAlone DEF run, OtherExecs, Owns
  <2>3. CASE ~UNCHANGED run
    <3>1. Ends /\ status # "ended" /\ \A a \in Approval : approvals[a] \notin Refused
      BY <2>1, <2>3 DEF Ends, Unfaulted, RefusedIsOver
    <3>2. PendingIsAlone' /\ EndedIsQuiet' /\ OvertakenIsIdle'
      BY <1>0, <2>1, <3>1, RunEnds DEF OtherExecs, Pending
    <3> QED BY <2>1, <3>1, <3>2 DEF StaysUnfaulted, RefusedIsOver
  <2> QED BY <2>2, <2>3
<1>6. CASE LoseLease(w)
  <2>1. SameExecs /\ UNCHANGED <<run, approvals, job>>
    BY <1>0, <1>6, LoseLeaseFacts
  <2> QED BY <1>0, <2>1, RunLeftAlone DEF run, SameExecs, Owns
<1> QED BY <1>1, <1>2, <1>3, <1>4, <1>5, <1>6 DEF Moves

LEMMA ServesUnfaulted ==
  ASSUME Unfaulted, Undisturbed', NEW w \in Process, Serves(w)
  PROVE  StaysUnfaulted
<1>0. TypeOK
  BY DEF Unfaulted
<1>1. ASSUME \/ \E a \in Approval : Decide(w, a)
             \/ ApproveRead(w) \/ ApproveLate(w)
      PROVE  StaysUnfaulted
  <2>1. /\ OtherRequests(w) /\ UNCHANGED <<run, approvals, job, exec>>
        /\ \/ status = "waiting" /\ request'[w].pc = "approve"
           \/ request'[w].pc \in {"idle", "decide"}
    BY <1>0, <1>1, DecideFacts, ApproveReadFacts, ApproveLateFacts DEF Undisturbed
  <2> QED BY <2>1, RunLeftAlone DEF run, OtherRequests, Owns
<1>2. CASE ApproveCommit(w)
  <2> DEFINE a == request[w].approval
  <2>1. /\ OtherRequests(w) /\ UNCHANGED exec
        /\ request[w].pc = "approve" /\ request'[w].pc = "resume"
        /\ approvals' = [approvals EXCEPT ![a] = "approved"]
        /\ status' = "running"
    BY <1>0, <1>2, ApproveCommitFacts DEF Unfaulted
  <2>2. a \in Approval /\ Pending(a)
    BY <2>1 DEF Unfaulted, ApprovalsLocked
  <2>3. \A b \in Approval : b # a => ~Pending(b)
    BY <2>2 DEF Unfaulted, PendingIsAlone
  <2>4. \A b \in Approval : approvals[b] \notin Refused
    BY <2>1 DEF Unfaulted, RefusedIsOver
  <2> HIDE DEF a
  <2>5. \A b \in Approval : ~Pending(b)' /\ approvals'[b] \notin Refused
    BY <1>0, <2>1, <2>2, <2>3, <2>4, Types DEF Pending, Refused
  <2>6. OvertakenIsIdle'
    <3>1. status = "ended" => \A u \in Process : exec[u].pc = "idle"
      BY <2>2 DEF Unfaulted, EndedIsQuiet, Pending
    <3> QED BY <2>1, <3>1 DEF Unfaulted, OvertakenIsIdle, OtherRequests
  <2>7. PendingIsAlone' /\ EndedIsQuiet' /\ RefusedIsOver'
    BY <2>1, <2>5 DEF PendingIsAlone, EndedIsQuiet, RefusedIsOver
  <2> QED BY <2>6, <2>7 DEF StaysUnfaulted
<1>3. CASE Resume(w)
  <2>1. /\ OtherRequests(w) /\ OtherExecs(w) /\ UNCHANGED <<run, approvals, job>>
        /\ request'[w].pc = "idle"
        /\ \/ status = "running" /\ exec'[w].pc = "claim"
           \/ UNCHANGED exec
    BY <1>0, <1>3, ResumeFacts
  <2> QED BY <2>1, RunLeftAlone DEF run, OtherRequests, OtherExecs, Owns
<1>4. CASE CancelRead(w)
  <2>1. /\ OtherRequests(w) /\ SameExecs /\ UNCHANGED <<run, approvals, job>>
        /\ request'[w].pc = "cancel"
    BY <1>0, <1>4, CancelReadFacts
  <2> QED BY <2>1, RunLeftAlone DEF run, OtherRequests, SameExecs, Owns
<1>5. CASE CancelCommit(w) \/ FailRun(w)
  <2>1. /\ OtherRequests(w) /\ UNCHANGED <<approvals, job, exec>>
        /\ request'[w].pc \in {"idle", "close"}
        /\ Ends \/ UNCHANGED run
    BY <1>0, <1>5, EndFacts
  <2>2. CASE UNCHANGED run
    BY <2>1, <2>2, RunLeftAlone DEF run, OtherRequests, Owns
  <2>3. CASE ~UNCHANGED run
    <3>1. Ends /\ status # "ended" /\ \A a \in Approval : approvals[a] \notin Refused
      BY <2>1, <2>3 DEF Ends, Unfaulted, RefusedIsOver
    <3>2. PendingIsAlone' /\ EndedIsQuiet' /\ OvertakenIsIdle'
      BY <2>1, <3>1, RunEnds DEF OtherRequests, Pending
    <3> QED BY <2>1, <3>1, <3>2 DEF StaysUnfaulted, RefusedIsOver
  <2> QED BY <2>2, <2>3
<1>6. CASE RecoverRead(w)
  <2>1. /\ OtherRequests(w) /\ UNCHANGED <<run, approvals, job, exec>>
        /\ status = "running" /\ request'[w].pc = "examine"
    BY <1>0, <1>6, RecoverReadFacts
  <2> QED BY <2>1, RunLeftAlone DEF run, OtherRequests, Owns
<1>7. CASE Examine(w)
  <2>1. /\ OtherRequests(w) /\ OtherExecs(w) /\ UNCHANGED <<run, approvals, job>>
        /\ request[w].pc = "examine" /\ exec[w].pc = "idle"
        /\ request'[w].pc \in {"idle", "fail", "seize"}
    BY <1>0, <1>7, ExamineFacts
  <2>2. status # "ended"
    BY <2>1 DEF Unfaulted, EndedIsQuiet
  <2>3. exec'[w].pc # "pause"
    <3>1. CASE UNCHANGED exec
      BY <2>1, <3>1
    <3>2. CASE ~UNCHANGED exec
      BY <1>0, <1>7, <3>2, ExecutedFacts DEF Examine
    <3> QED BY <3>1, <3>2
  <2> QED BY <2>1, <2>2, <2>3, RunLeftAlone DEF run, OtherRequests, OtherExecs, Owns
<1>8. CASE Seize(w)
  <2>1. /\ OtherRequests(w) /\ UNCHANGED <<run, approvals, exec>>
        /\ request[w].pc = "seize" /\ request'[w].pc \in {"fail", "idle"}
        /\ Takes(w) \/ UNCHANGED job
    BY <1>0, <1>8, SeizeFacts
  <2>2. exec[w].pc = "idle"
    BY <2>1 DEF Unfaulted, ApprovalsLocked
  <2> QED BY <2>1, <2>2, RunLeftAlone DEF run, OtherRequests, Owns, Takes
<1>9. CASE ReconcileRead(w)
  <2>1. /\ OtherRequests(w) /\ UNCHANGED <<run, approvals, job, exec>>
        /\ status # "running" /\ request'[w].pc = "settle" /\ request'[w].seen = status
    BY <1>0, <1>9, ReconcileReadFacts
  <2>2. status = "waiting" \/ status = "ended"
    BY <1>0, <2>1 DEF TypeOK
  <2> QED BY <2>1, <2>2, RunLeftAlone DEF run, OtherRequests, Owns
<1>10. CASE Reconcile(w)
  <2>1. /\ OtherRequests(w) /\ UNCHANGED <<run, approvals, exec>>
        /\ request[w].pc = "settle" /\ request'[w].pc \in {"close", "idle"}
        /\ \/ Takes(w) /\ ~Kept(request[w].seen)
           \/ UNCHANGED job
    BY <1>0, <1>10, ReconcileFacts
  <2>2. CASE UNCHANGED job
    BY <2>1, <2>2, RunLeftAlone DEF run, OtherRequests, Owns
  <2>3. CASE Takes(w) /\ ~Kept(request[w].seen)
    <3>1. request[w].seen # "waiting"
      BY <2>1, <2>3 DEF Unfaulted, Undisturbed, ApprovalsLocked, Kept
    <3>2. exec[w].pc = "pause" => \A a \in Approval : ~Pending(a)
      BY <2>1, <3>1 DEF Unfaulted, OvertakenIsIdle, EndedIsQuiet, Pending
    <3> QED BY <2>1, <2>3, <3>2, RunLeftAlone DEF run, OtherRequests, Owns, Takes
  <2> QED BY <2>1, <2>2, <2>3
<1>11. CASE CloseJob(w)
  <2>1. /\ OtherRequests(w) /\ UNCHANGED <<run, approvals, exec>>
        /\ request'[w].pc = "idle"
        /\ Closes \/ UNCHANGED job
    BY <1>0, <1>11, CloseJobFacts
  <2> QED BY <2>1, RunLeftAlone DEF run, OtherRequests, Owns, Closes
<1> QED BY <1>1, <1>2, <1>3, <1>4, <1>5, <1>6, <1>7, <1>8, <1>9, <1>10, <1>11 DEF Serves

LEMMA RefusalsUnfaulted ==
  ASSUME Unfaulted, NEW a \in Approval, Deny(a) \/ Expire(a)
  PROVE  StaysUnfaulted
<1>1. /\ TypeOK /\ UNCHANGED <<job, exec, request>> /\ Open(a)
      /\ \/ status = "waiting" /\ Ends
         \/ status # "waiting" /\ UNCHANGED run
  BY RefusalFacts DEF Unfaulted
<1>2. PICK s \in Refused : approvals' = [approvals EXCEPT ![a] = s]
  BY RefusalFacts DEF Unfaulted
<1>3. Pending(a) /\ status # "running" /\ \A b \in Approval : b # a => ~Pending(b)
  BY <1>1 DEF Unfaulted, PendingIsAlone, Open, Pending
<1>4. /\ \A b \in Approval : ~Pending(b)'
      /\ \A b \in Approval : b # a => approvals'[b] = approvals[b]
  BY <1>1, <1>2, <1>3, Types DEF Pending, Refused
<1>5. \A u \in Process : request'[u].pc # "approve"
  BY <1>1, <1>3 DEF Unfaulted, ApprovalsLocked, Open, Locked
<1>6. CASE status = "waiting"
  <2>1. Ends /\ status # "ended"
    BY <1>1, <1>6
  <2>2. PendingIsAlone' /\ EndedIsQuiet' /\ OvertakenIsIdle'
    BY <1>1, <1>4, <1>6, <2>1, RunEnds
  <2>3. RefusedIsOver'
    BY <1>5, <2>1 DEF RefusedIsOver, Ends
  <2> QED BY <2>2, <2>3 DEF StaysUnfaulted
<1>7. CASE status = "ended"
  <2>1. status' = "ended"
    BY <1>1, <1>7 DEF run
  <2>2. PendingIsAlone' /\ OvertakenIsIdle' /\ RefusedIsOver'
    BY <1>4, <1>5, <2>1 DEF PendingIsAlone, OvertakenIsIdle, RefusedIsOver
  <2>3. EndedIsQuiet'
    BY <1>1, <1>3, <1>7 DEF Unfaulted, EndedIsQuiet, Pending
  <2> QED BY <2>2, <2>3 DEF StaysUnfaulted
<1> QED BY <1>1, <1>3, <1>6, <1>7 DEF TypeOK

LEMMA PassesUnfaulted ==
  ASSUME Unfaulted, Passes, Undisturbed'
  PROVE  StaysUnfaulted
<1>1. /\ UNCHANGED <<status, approvals, exec, request>>
      /\ \/ UNCHANGED job
         \/ job' = [job EXCEPT !.live = FALSE]
  <2>1. TypeOK /\ faults' # faults + 1
    BY DEF Unfaulted, Undisturbed
  <2> QED BY <2>1, TimeFacts DEF Passes
<1>2. \A u \in Process : Owns(u)' => Owns(u)
  <2>1. job \in Job
    BY Types DEF Unfaulted
  <2> QED BY <1>1, <2>1 DEF Owns, Job
<1> QED BY <1>1, <1>2, RunLeftAlone

-----------------------------------------------------------------------------
\* The invariant holds.
LEMMA InitPauseInv == Init => PauseInv
<1> SUFFICES ASSUME Init PROVE PauseInv
  OBVIOUS
<1>1. PICK w \in Process :
        /\ job = [NoJob EXCEPT !.status = "running", !.owner = w, !.live = TRUE]
        /\ exec = [p \in Process |->
                     IF p = w THEN [NoExec EXCEPT !.pc = "stream"] ELSE NoExec]
  BY DEF Init
<1>2. /\ status = "running" /\ effects = 0 /\ overdue = {} /\ blocked = {} /\ faults = 0
      /\ quiet = FALSE /\ repeated = FALSE /\ contended = FALSE
      /\ approvals = [a \in Approval |-> "absent"]
      /\ request = [p \in Process |-> NoRequest]
  BY DEF Init
<1>3. NoJob \in Job /\ NoExec \in ExecType
  BY DEF NoJob, Job, NoExec, ExecType
<1>4. job \in Job /\ Owns(w)
  BY <1>1, <1>3 DEF Job, Owns
<1>5. NoRequest \in RequestType /\ NoRequest.pc = "idle"
  BY <1>3 DEF NoRequest, RequestType
<1>6. /\ exec \in [Process -> ExecType]
      /\ exec[w].pc = "stream" /\ exec[w].text = 0 /\ exec[w].next = 1
      /\ \A u \in Process : u # w => exec[u].pc = "idle"
  <2> DEFINE v == [NoExec EXCEPT !.pc = "stream"]
  <2>1. v \in ExecType /\ v.pc = "stream" /\ v.text = 0 /\ v.next = 1
    BY <1>3 DEF NoExec, ExecType
  <2>2. exec = [p \in Process |-> IF p = w THEN v ELSE NoExec]
    BY <1>1
  <2> HIDE DEF v
  <2> QED BY <1>3, <2>1, <2>2 DEF NoExec
<1>7. /\ request \in [Process -> RequestType]
      /\ \A u \in Process : request[u].pc = "idle"
  BY <1>2, <1>5
<1>8. /\ approvals \in [Approval -> {"absent", "pending", "approved"} \cup Refused]
      /\ \A a \in Approval : approvals[a] = "absent"
  BY <1>2
<1>9. TypeOK
  <2>1. status \in {"running", "waiting", "ended"} /\ effects \in 0 .. 1
    BY <1>2
  <2>2. overdue \in SUBSET Approval /\ blocked \in SUBSET Approval /\ faults \in 0 .. MaxFaults
    BY <1>2
  <2>3. quiet \in BOOLEAN /\ repeated \in BOOLEAN /\ contended \in BOOLEAN
    BY <1>2
  <2> QED BY <1>4, <1>6, <1>7, <1>8, <2>1, <2>2, <2>3 DEF TypeOK, ExecType, RequestType
<1>10. EndedWithEffects /\ ApprovalsLocked
  BY <1>2, <1>7 DEF EndedWithEffects, ApprovalsLocked
<1>11. HeldInOneHand
  BY <1>2, <1>4, <1>6, <1>7 DEF HeldInOneHand, Hand, Active
<1>12. PendingIsAlone /\ EndedIsQuiet /\ OvertakenIsIdle /\ RefusedIsOver
  BY <1>2, <1>7, <1>8
     DEF PendingIsAlone, EndedIsQuiet, OvertakenIsIdle, RefusedIsOver, Pending, Refused
<1> QED BY <1>9, <1>10, <1>11, <1>12 DEF PauseInv

\* Neither trouble nor the commits of the end are taken back.
LEMMA TroubleStays ==
  ASSUME TypeOK, ApprovalsLocked, [Next]_vars
  PROVE  /\ Undisturbed' => Undisturbed /\ UNCHANGED faults
         /\ effects' >= effects
<1>0. faults \in Nat /\ effects \in Nat
  BY DEF TypeOK
<1>1. ASSUME NEW w \in Process, Moves(w)
      PROVE  faults' = faults /\ (contended => contended') /\ (effects' = effects \/ Ends)
  BY <1>1, ClaimFacts, DeliverFacts, CheckpointFacts, PauseReadFacts, PauseCommitFacts,
     CompleteFacts, FinishFacts, LoseLeaseFacts DEF Moves, run, world
<1>2. ASSUME NEW w \in Process, Serves(w)
      PROVE  faults' = faults /\ (contended => contended') /\ (effects' = effects \/ Ends)
  BY <1>2, DecideFacts, ApproveReadFacts, ApproveLateFacts, ApproveCommitFacts, ResumeFacts,
     CancelReadFacts, EndFacts, RecoverReadFacts, ExamineFacts, SeizeFacts,
     ReconcileReadFacts, ReconcileFacts, CloseJobFacts DEF Serves, run, world
<1>3. ASSUME NEW w \in Process, Crash(w)
      PROVE  faults' = faults + 1 /\ (contended => contended') /\ effects' = effects
  BY <1>3, CrashFacts DEF run
<1>4. ASSUME NEW a \in Approval, Deny(a) \/ Expire(a)
      PROVE  faults' = faults /\ (contended => contended') /\ (effects' = effects \/ Ends)
  BY <1>4, RefusalFacts DEF run, world
<1>5. ASSUME Passes
      PROVE  /\ faults' = faults \/ faults' = faults + 1
             /\ (contended => contended') /\ effects' = effects
  BY <1>5, TimeFacts DEF Passes
<1>6. ASSUME Ends PROVE effects' >= effects
  BY <1>0, <1>6 DEF Ends, run
<1>7. /\ faults' = faults \/ faults' = faults + 1
      /\ contended => contended'
      /\ effects' = effects \/ Ends
  BY <1>1, <1>2, <1>3, <1>4, <1>5, StepKinds DEF vars, run, world
<1>8. faults' = 0 => faults = 0 /\ faults' = faults
  BY <1>0, <1>7
<1>9. effects' >= effects
  BY <1>0, <1>6, <1>7
<1> QED BY <1>7, <1>8, <1>9 DEF Undisturbed

LEMMA NextPauseInv == PauseInv /\ [Next]_vars => PauseInv'
<1> SUFFICES ASSUME PauseInv, [Next]_vars PROVE PauseInv'
  OBVIOUS
<1>1. TypeOK' /\ EndedWithEffects' /\ ApprovalsLocked'
  BY StepKinds, EffectsAreKept, LocksAreKept DEF PauseInv
<1>2. Undisturbed' => Undisturbed /\ UNCHANGED faults
  BY TroubleStays DEF PauseInv
<1>3. Orderly' => Orderly
  BY <1>2, TroubleStays DEF PauseInv, TypeOK, Orderly
<1>4. ASSUME Orderly' PROVE HeldInOneHand'
  <2>1. Held
    BY <1>3, <1>4 DEF PauseInv, Held, Orderly
  <2>2. ASSUME NEW w \in Process PROVE ~Crash(w)
    BY <1>2, <1>4, <2>1, CrashFacts DEF Held, Orderly, Undisturbed
  <2>3. CASE UNCHANGED vars
    BY <2>1, <2>3, RequestsComeAndGo DEF vars, run, SameExecs
  <2> QED BY <1>4, <2>1, <2>2, <2>3, StepKinds, MovesHold, ServesHold, RefusalsHold, PassesHold
          DEF PauseInv
<1>5. ASSUME Undisturbed' PROVE StaysUnfaulted
  <2>1. Unfaulted
    BY <1>2, <1>5 DEF PauseInv, Unfaulted
  <2>2. ASSUME NEW w \in Process PROVE ~Crash(w)
    BY <1>2, <1>5, <2>1, CrashFacts DEF Unfaulted, Undisturbed
  <2>3. CASE UNCHANGED vars
    BY <2>1, <2>3, RunLeftAlone DEF vars, run, Owns
  <2> QED BY <1>5, <2>1, <2>2, <2>3, StepKinds, MovesUnfaulted, ServesUnfaulted,
             RefusalsUnfaulted, PassesUnfaulted DEF PauseInv
<1> QED BY <1>1, <1>4, <1>5 DEF PauseInv, StaysUnfaulted

LEMMA PauseInvHolds == Spec => []PauseInv
<1>1. Init => PauseInv
  BY InitPauseInv
<1>2. PauseInv /\ [Next]_vars => PauseInv'
  BY NextPauseInv
<1> QED BY <1>1, <1>2, PTL DEF Spec

-----------------------------------------------------------------------------
\* The state of the run, its approvals, its job and of what each process does is
\* always of its type, and the terminal transaction of the run commits at most once.
THEOREM TypeCorrect == Spec => []TypeOK
<1>1. PauseInv => TypeOK
  BY DEF PauseInv
<1> QED BY <1>1, PauseInvHolds, PTL

\* Pause, denial, expiry, cancellation, recovery and completion race for the end
\* of the run on any number of processes, with any number of crashes and stalls:
\* a run that ended has committed its effects, and once.
THEOREM EndsHaveEffects == Spec => []EndedWithEffects
<1>1. PauseInv => EndedWithEffects
  BY DEF PauseInv
<1> QED BY <1>1, PauseInvHolds, PTL

\* While nothing crashed or stalled and no two processes granted one approval, a
\* run that waits and never ended waits for an approval that is still pending, with
\* the job in the queue for the execution it resumes: no reconciliation and no
\* execution has taken the job from it.
THEOREM HeldTillDecided == Spec => []HeldUntilDecided
<1>1. PauseInv => HeldUntilDecided
  BY DEF PauseInv, HeldUntilDecided, HeldInOneHand
<1> QED BY <1>1, PauseInvHolds, PTL

\* Without crash, stall or an approval granted twice, a denied or expired approval
\* has ended its run: an approval cannot overtake the refusal and have the refused
\* answer go on.
THEOREM RefusalsEnd == Spec => []RefusedHasEnded
<1>1. PauseInv => RefusedHasEnded
  BY DEF PauseInv, RefusedHasEnded, RefusedIsOver
<1> QED BY <1>1, PauseInvHolds, PTL

\* However often the run is held back and approved, no part of its answer is logged
\* twice, while nothing crashed or stalled, no two processes granted one approval
\* and the run never ended.
THEOREM PartsOnce == Spec => []NothingRepeated
<1>1. PauseInv => NothingRepeated
  BY DEF PauseInv, NothingRepeated, HeldInOneHand
<1> QED BY <1>1, PauseInvHolds, PTL

\* Under the same conditions one process at most executes the run, although an
\* approval puts the job back in the queue without a look at who owns it: the
\* second approver of one pause is what can make it two.
THEOREM OneExecutes == Spec => []OneExecution
<1>1. PauseInv => OneExecution
  BY DEF PauseInv, OneExecution, HeldInOneHand, Hand
<1> QED BY <1>1, PauseInvHolds, PTL
=============================================================================
