-------------------------- MODULE ToolDispatch_proofs --------------------------
(***************************************************************************)
(* For any workers, accounts, enqueues and limit of attempts: the          *)
(* operation is sent at most MaxAttempts times, its payload is there while *)
(* it is needed, and a settled job stays settled.                          *)
(***************************************************************************)
EXTENDS ToolDispatch, FiniteSetTheorems, TLAPS

USE MaxAttemptsAssumption, AccountAssumption, CallerAssumption, NoneAssumption

\* Workers that have claimed an attempt and have yet to spend it.
Pending == {w \in Worker : worker[w] \in {"claimed", "ready"}}

\* An attempt is spent or pending, at most once, and a job that may be claimed
\* has an attempt left or gets its dead letter.
Attempts ==
  /\ IsFiniteSet(Pending)
  /\ executed + Cardinality(Pending) <= lease.attempt
  /\ executed + Cardinality(Pending) <= MaxAttempts
  /\ status \notin Terminal => lease.attempt <= MaxAttempts

\* The payload of an enqueue that has not decided, or is to delete it, is its own;
\* the job refers to one that has; only a settled job has its payload deleted.
Payloads ==
  /\ \A e \in Enqueuer : enqueue[e] \in {"stored", "drop"} => ref # e
  /\ \A e \in Enqueuer : enqueue[e] = "stored" => e \in stored
  /\ status = "absent" <=> ref = None
  /\ cleanup => status \in Terminal
  /\ \A c \in Caller : call[c] # NoCall => status # "absent"
  /\ PayloadAvailable

\* The inductive invariant.
DispatchInv == TypeOK /\ Attempts /\ Payloads

LeaseType ==
  [account : Accounts \cup {None}, attempt : 0 .. MaxAttempts + 1, live : BOOLEAN]

LEMMA InitDispatchInv == Init => DispatchInv
<1> SUFFICES ASSUME Init PROVE DispatchInv
  OBVIOUS
<1>1. TypeOK
  <2>1. lease \in LeaseType
    BY DEF Init, LeaseType
  <2>2. /\ worker \in [Worker -> {"idle", "claimed", "ready", "executed", "error"}]
        /\ enqueue \in [Enqueuer -> {"start", "stored", "drop", "done"}]
        /\ call \in [Caller -> Terminal \cup {NoCall}]
    BY DEF Init
  <2> QED BY <2>1, <2>2 DEF Init, TypeOK, LeaseType
<1>2. Pending = {}
  BY DEF Init, Pending
<1>3. Attempts
  BY <1>2, FS_EmptySet DEF Init, Attempts
<1>4. Payloads
  BY DEF Init, Payloads, PayloadAvailable
<1> QED BY <1>1, <1>3, <1>4 DEF DispatchInv

\* A worker that goes on without a new claim spends its attempt or gives it up.
LEMMA PendingShrinks ==
  ASSUME TypeOK, IsFiniteSet(Pending), NEW w \in Worker,
         \A v \in Worker : v # w => worker'[v] = worker[v]
  PROVE  /\ worker'[w] \notin {"claimed", "ready"} =>
              IsFiniteSet(Pending') /\ Cardinality(Pending') \in Nat
              /\ Cardinality(Pending') =
                   IF w \in Pending THEN Cardinality(Pending) - 1 ELSE Cardinality(Pending)
         /\ worker'[w] \in {"claimed", "ready"} /\ w \in Pending => Pending' = Pending
         /\ worker'[w] \in {"claimed", "ready"} /\ w \notin Pending =>
              IsFiniteSet(Pending') /\ Cardinality(Pending') = Cardinality(Pending) + 1
         /\ Cardinality(Pending) \in Nat
<1>1. CASE worker'[w] \notin {"claimed", "ready"}
  <2>1. Pending' = Pending \ {w}
    BY <1>1 DEF Pending
  <2> QED BY <1>1, <2>1, FS_RemoveElement, FS_CardinalityType
<1>2. CASE worker'[w] \in {"claimed", "ready"}
  <2>1. Pending' = Pending \cup {w}
    BY <1>2 DEF Pending
  <2>2. w \in Pending => Pending' = Pending
    BY <2>1
  <2> QED BY <1>2, <2>1, <2>2, FS_AddElement, FS_CardinalityType
<1> QED BY <1>1, <1>2

LEMMA ClaimKeepsDispatchInv ==
  ASSUME DispatchInv, NEW w \in Worker, Claim(w)
  PROVE  DispatchInv'
<1> USE DEF DispatchInv
<1>1. lease.attempt \in Nat /\ lease.attempt <= MaxAttempts /\ status \notin Terminal
      /\ status \in {"queued", "running"}
  BY DEF Claim, Claimable, Attempts, TypeOK, Terminal
<1>2. lease' \in LeaseType /\ lease'.attempt = lease.attempt + 1
  BY <1>1 DEF Claim, LeaseType, Accounts
<1>3. TypeOK'
  BY <1>2 DEF Claim, TypeOK, LeaseType, Terminal, store
<1>4. Payloads'
  BY <1>1 DEF Claim, Payloads, PayloadAvailable, Terminal, store
<1>5. executed \in Nat
  BY DEF TypeOK
<1>6. CASE Exhausted
  <2>1. Pending' = Pending /\ executed' = executed /\ status' \in Terminal
    BY <1>6 DEF Claim, Pending, Terminal
  <2>2. Cardinality(Pending) \in Nat
    BY FS_CardinalityType DEF Attempts
  <2> QED BY <1>1, <1>2, <1>3, <1>4, <1>5, <2>1, <2>2 DEF Attempts
<1>7. CASE ~Exhausted
  <2>1. /\ \A v \in Worker : v # w => worker'[v] = worker[v]
        /\ worker'[w] = "claimed" /\ w \notin Pending /\ executed' = executed
    BY <1>7 DEF Claim, Pending, TypeOK
  <2>2. /\ IsFiniteSet(Pending') /\ Cardinality(Pending') = Cardinality(Pending) + 1
        /\ Cardinality(Pending) \in Nat
    BY <2>1, PendingShrinks DEF Attempts
  <2>3. lease'.attempt <= MaxAttempts
    BY <1>1, <1>2, <1>7 DEF Exhausted
  <2>4. Attempts'
    BY <1>1, <1>2, <1>5, <2>1, <2>2, <2>3 DEF Attempts
  <2> QED BY <1>3, <1>4, <2>4
<1> QED BY <1>6, <1>7

\* A step of one worker that touches neither the job nor the payload.
LEMMA WorkerKeepsDispatchInv ==
  ASSUME DispatchInv, NEW w \in Worker, WorkerStep(w) \/ Crash(w)
  PROVE  DispatchInv'
<1> USE DEF DispatchInv
<1>1. UNCHANGED <<job, store, enqueue, cleanup>>
  BY DEF WorkerStep, ReadPayload, Execute, LoseCompletion, ReadForCompletion,
         ReadForFailure, Crash
<1>2. /\ worker' \in [Worker -> {"idle", "claimed", "ready", "executed", "error"}]
      /\ \A v \in Worker : v # w => worker'[v] = worker[v]
      /\ worker'[w] # "claimed"
  BY DEF WorkerStep, ReadPayload, Execute, LoseCompletion, ReadForCompletion,
         ReadForFailure, Crash, TypeOK
<1>3. /\ call' \in [Caller -> Terminal \cup {NoCall}]
      /\ \A c \in Caller : call'[c] # NoCall => call[c] # NoCall \/ status # "absent"
  <2>1. w \in Caller
    BY DEF Caller
  <2> QED
    BY <2>1 DEF WorkerStep, ReadPayload, Execute, LoseCompletion, ReadForCompletion,
         ReadForFailure, Crash, TypeOK, Terminal, Holds, NoCall
<1>4. /\ executed \in Nat
      /\ \/ executed' = executed
         \/ executed' = executed + 1 /\ w \in Pending /\ worker'[w] \in {"executed", "error"}
      /\ worker'[w] = "ready" => w \in Pending
  BY DEF WorkerStep, ReadPayload, Execute, LoseCompletion, ReadForCompletion,
         ReadForFailure, Crash, TypeOK, Pending
<1>5. TypeOK'
  BY <1>1, <1>2, <1>3, <1>4 DEF TypeOK, job, store
<1>6. Payloads'
  BY <1>1, <1>3 DEF Payloads, PayloadAvailable, job, store
<1>7. Attempts'
  <2>1. /\ IsFiniteSet(Pending') /\ Cardinality(Pending') \in Nat
        /\ Cardinality(Pending) \in Nat
        /\ executed' + Cardinality(Pending') <= executed + Cardinality(Pending)
    <3>1. CASE worker'[w] = "ready"
      BY <1>2, <1>4, <3>1, PendingShrinks DEF Attempts
    <3>2. CASE worker'[w] \notin {"claimed", "ready"}
      BY <1>2, <1>4, <3>2, PendingShrinks DEF Attempts
    <3> QED BY <1>2, <3>1, <3>2
  <2>2. lease.attempt \in Nat /\ executed' \in Nat
    BY <1>4 DEF TypeOK
  <2> QED BY <1>1, <1>4, <2>1, <2>2 DEF Attempts, job
<1> QED BY <1>5, <1>6, <1>7

LEMMA EnqueueKeepsDispatchInv ==
  ASSUME DispatchInv, NEW e \in Enqueuer, EnqueueStep(e) \/ LoseEnqueue(e)
  PROVE  DispatchInv'
<1> USE DEF DispatchInv
<1>1. UNCHANGED <<lease, worker, call, cleanup, executed>>
  BY DEF EnqueueStep, StorePayload, CommitEnqueue, FailEnqueue, DropPayload,
         LoseEnqueue, job
<1>2. TypeOK'
  <2>1. {stored', left'} \subseteq SUBSET Enqueuer /\ ref' \in Enqueuer \cup {None}
    BY DEF EnqueueStep, StorePayload, CommitEnqueue, FailEnqueue, DropPayload,
           LoseEnqueue, TypeOK, job, store
  <2>2. enqueue' \in [Enqueuer -> {"start", "stored", "drop", "done"}]
    BY DEF EnqueueStep, StorePayload, CommitEnqueue, FailEnqueue, DropPayload,
           LoseEnqueue, TypeOK
  <2>3. status' \in {status, "queued"}
    BY DEF EnqueueStep, StorePayload, CommitEnqueue, FailEnqueue, DropPayload,
           LoseEnqueue, TypeOK, job
  <2> QED BY <1>1, <2>1, <2>2, <2>3 DEF TypeOK
<1>3. Attempts'
  <2>1. Pending' = Pending
    BY <1>1 DEF Pending
  <2>2. status' = status \/ status = "absent"
    BY DEF EnqueueStep, StorePayload, CommitEnqueue, FailEnqueue, DropPayload,
           LoseEnqueue, job
  <2> QED BY <1>1, <2>1, <2>2 DEF Attempts, Terminal
<1>4. Payloads'
  <2>1. CASE StorePayload(e)
    BY <1>1, <2>1 DEF StorePayload, Payloads, PayloadAvailable, TypeOK, job
  <2>2. CASE CommitEnqueue(e)
    BY <1>1, <2>2 DEF CommitEnqueue, Payloads, PayloadAvailable, TypeOK, Terminal,
                      store
  <2>3. CASE FailEnqueue(e)
    BY <1>1, <2>3 DEF FailEnqueue, Payloads, PayloadAvailable, TypeOK, job, store
  <2>4. CASE DropPayload(e)
    BY <1>1, <2>4 DEF DropPayload, Payloads, PayloadAvailable, TypeOK, job
  <2>5. CASE LoseEnqueue(e)
    BY <1>1, <2>5 DEF LoseEnqueue, Payloads, PayloadAvailable, TypeOK, job
  <2> QED BY <2>1, <2>2, <2>3, <2>4, <2>5 DEF EnqueueStep
<1> QED BY <1>2, <1>3, <1>4

LEMMA SettlingKeepsDispatchInv ==
  ASSUME DispatchInv,
         \/ \E o \in Operator : ReadForOperator(o)
         \/ \E c \in Caller : Write(c)
         \/ DeletePayload
         \/ LoseDeletion
         \/ ExpireLease
  PROVE  DispatchInv'
<1> USE DEF DispatchInv
<1>1. UNCHANGED <<ref, enqueue, worker, executed>> /\ Pending' = Pending
  BY DEF ReadForOperator, Write, DeletePayload, LoseDeletion, ExpireLease, job, Pending
<1>2. ASSUME NEW o \in Operator, ReadForOperator(o) PROVE DispatchInv'
  <2>1. o \in Caller /\ status # "absent" /\ UNCHANGED <<job, store, cleanup>>
    BY <1>2 DEF ReadForOperator, Caller
  <2>2. /\ call' \in [Caller -> Terminal \cup {NoCall}]
        /\ \A c \in Caller : call'[c] # NoCall => call[c] # NoCall \/ status # "absent"
    BY <1>2, <2>1 DEF ReadForOperator, TypeOK, Terminal
  <2>3. TypeOK'
    BY <1>1, <2>1, <2>2 DEF TypeOK, job, store
  <2> QED
    BY <1>1, <2>1, <2>2, <2>3 DEF Attempts, Payloads, PayloadAvailable, job, store
<1>3. ASSUME NEW c \in Caller, Write(c) PROVE DispatchInv'
  <2>1. /\ status' \in Terminal /\ status # "absent" /\ cleanup' = TRUE
        /\ UNCHANGED <<lease, store>>
    BY <1>3 DEF Write, TypeOK, Payloads
  <2>2. call' \in [Caller -> Terminal \cup {NoCall}]
    BY <1>3 DEF Write, TypeOK
  <2>3. TypeOK'
    BY <1>1, <2>1, <2>2 DEF TypeOK, store
  <2> QED BY <1>1, <2>1, <2>3 DEF Attempts, Payloads, PayloadAvailable, Terminal, store
<1>4. CASE DeletePayload \/ LoseDeletion
  <2>1. status \in Terminal /\ UNCHANGED <<job, call>> /\ cleanup' = FALSE
    BY <1>4 DEF DeletePayload, LoseDeletion, Payloads
  <2>2. stored' \in {stored, stored \ {ref}} /\ left' \in {left, left \cup {ref}}
    BY <1>4 DEF DeletePayload, LoseDeletion
  <2>3. ref \in Enqueuer
    <3>1. status # "absent"
      BY <2>1 DEF Terminal
    <3>2. ref # None
      BY <3>1 DEF Payloads
    <3>3. ref \in Enqueuer \cup {None}
      BY DEF TypeOK
    <3> QED BY <3>2, <3>3
  <2>4. {stored', left'} \subseteq SUBSET Enqueuer
    BY <2>2, <2>3 DEF TypeOK
  <2>5. TypeOK'
    BY <1>1, <2>1, <2>4 DEF TypeOK, job
  <2> QED BY <1>1, <2>1, <2>2, <2>5 DEF Attempts, Payloads, PayloadAvailable, Terminal, job
<1>5. CASE ExpireLease
  <2>1. UNCHANGED <<status, store, call, cleanup>> /\ lease'.attempt = lease.attempt
        /\ lease' \in LeaseType
    BY <1>5 DEF ExpireLease, TypeOK, LeaseType
  <2>2. TypeOK'
    BY <1>1, <2>1 DEF TypeOK, LeaseType, store
  <2> QED BY <1>1, <2>1, <2>2 DEF Attempts, Payloads, PayloadAvailable, store
<1> QED BY <1>2, <1>3, <1>4, <1>5

LEMMA NextDispatchInv == DispatchInv /\ [Next]_vars => DispatchInv'
<1> SUFFICES ASSUME DispatchInv, [Next]_vars PROVE DispatchInv'
  OBVIOUS
<1>1. CASE UNCHANGED vars
  BY <1>1 DEF vars, job, store, DispatchInv, TypeOK, Attempts, Payloads, PayloadAvailable,
              Pending
<1> QED
  BY <1>1, ClaimKeepsDispatchInv, WorkerKeepsDispatchInv, EnqueueKeepsDispatchInv,
     SettlingKeepsDispatchInv
  DEF Next

-----------------------------------------------------------------------------
\* Every state of the job, the payload store and the callers is well-typed.
THEOREM TypeCorrect == Spec => []TypeOK
<1>1. DispatchInv => TypeOK
  BY DEF DispatchInv
<1> QED BY <1>1, InitDispatchInv, NextDispatchInv, PTL DEF Spec

\* However many workers there are, crash or lose their lease, the operation is
\* sent to the connector at most MaxAttempts times.
THEOREM ExecutionsAreBounded == Spec => []ExecutionsBounded
<1>1. DispatchInv => ExecutionsBounded
  <2> SUFFICES ASSUME DispatchInv PROVE ExecutionsBounded
    OBVIOUS
  <2>1. executed \in Nat /\ Cardinality(Pending) \in Nat
        /\ executed + Cardinality(Pending) <= MaxAttempts
    BY FS_CardinalityType DEF DispatchInv, TypeOK, Attempts
  <2> QED BY <2>1 DEF ExecutionsBounded
<1> QED BY <1>1, InitDispatchInv, NextDispatchInv, PTL DEF Spec

\* A job that may be claimed or worked on has its payload in the store, whichever
\* of the concurrent enqueues has created it.
THEOREM PayloadStaysAvailable == Spec => []PayloadAvailable
<1>1. DispatchInv => PayloadAvailable
  BY DEF DispatchInv, Payloads
<1> QED BY <1>1, InitDispatchInv, NextDispatchInv, PTL DEF Spec

\* A settled job never runs again, whichever calls overlap.
THEOREM SettledIsFinal == Spec => SettledStaysSettled
<1>1. DispatchInv /\ [Next]_vars => (status \in Terminal => status' \in Terminal)
  <2> SUFFICES ASSUME DispatchInv, [Next]_vars, status \in Terminal
               PROVE  status' \in Terminal
    OBVIOUS
  <2>1. ASSUME NEW e \in Enqueuer, EnqueueStep(e) \/ LoseEnqueue(e)
        PROVE  status' = status
    BY <2>1 DEF EnqueueStep, StorePayload, CommitEnqueue, FailEnqueue, DropPayload,
                LoseEnqueue, job, Terminal
  <2>2. ASSUME NEW w \in Worker PROVE ~Claim(w)
    BY DEF Claim, Claimable, Terminal
  <2>3. ASSUME NEW w \in Worker, WorkerStep(w) \/ Crash(w) PROVE status' = status
    BY <2>3 DEF WorkerStep, ReadPayload, Execute, LoseCompletion, ReadForCompletion,
                ReadForFailure, Crash, job
  <2>4. ASSUME NEW c \in Caller, Write(c) PROVE status' \in Terminal
    BY <2>4 DEF Write, DispatchInv, TypeOK
  <2>5. ASSUME \/ \E o \in Operator : ReadForOperator(o)
               \/ DeletePayload \/ LoseDeletion \/ ExpireLease \/ UNCHANGED vars
        PROVE  status' = status
    BY <2>5 DEF ReadForOperator, DeletePayload, LoseDeletion, ExpireLease, vars, job
  <2> QED BY <2>1, <2>2, <2>3, <2>4, <2>5 DEF Next
<1> QED BY <1>1, InitDispatchInv, NextDispatchInv, PTL DEF Spec, SettledStaysSettled
=============================================================================
