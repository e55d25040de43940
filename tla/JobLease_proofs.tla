--------------------------- MODULE JobLease_proofs ---------------------------
(***************************************************************************)
(* For any set of workers, any lease and any number of checkpoints: the    *)
(* leased protocol keeps its types, a row copy that is still fresh belongs *)
(* to the owner, and the protocol implements JobOwnership.                 *)
(***************************************************************************)
EXTENDS JobLease, TLAPS

\* Ages stay within what the code tells apart, so time needs no bound.
LEMMA AgeFacts ==
  /\ 0 \in Age
  /\ LeaseTicks \in Age
  /\ \A a \in Age : Older(a) \in Age
  /\ \A a \in Age : LeaseTicks - a \in Age
  /\ \A a \in Age : (IF a > 0 THEN a - 1 ELSE 0) \in Age
  BY LeaseTicksAssumption DEF Age, Older

\* A write of the row leaves no flow with a fresh copy of it.
LEMMA OutdatedMain ==
  ASSUME NEW f \in [Worker -> MainFlow]
  PROVE  /\ Outdated(f) \in [Worker -> MainFlow]
         /\ \A w \in Worker : /\ Outdated(f)[w].fresh = FALSE
                              /\ Outdated(f)[w].pc = f[w].pc
                              /\ Outdated(f)[w].goal = f[w].goal
  BY DEF Outdated, MainFlow

LEMMA OutdatedBeat ==
  ASSUME NEW f \in [Worker -> BeatFlow]
  PROVE  /\ Outdated(f) \in [Worker -> BeatFlow]
         /\ \A w \in Worker : Outdated(f)[w].fresh = FALSE
  BY DEF Outdated, BeatFlow

LEMMA StoppedBeat ==
  ASSUME NEW f \in [Worker -> BeatFlow], NEW w \in Worker
  PROVE  /\ Stopped(f, w) \in [Worker -> BeatFlow]
         /\ \A v \in Worker : Stopped(f, w)[v].fresh = f[v].fresh
  BY DEF Stopped, BeatFlow

LEMMA NoFlows ==
  /\ NoMain \in MainFlow /\ NoMain.fresh = FALSE /\ NoMain.pc = "idle"
  /\ NoBeat \in BeatFlow /\ NoBeat.fresh = FALSE
  BY AgeFacts DEF NoMain, NoBeat, MainFlow, BeatFlow, Goal

-----------------------------------------------------------------------------
\* The guard of BeginUpdate still holds when the owner's checkpoint commits:
\* nobody else advances the owner's job meanwhile.
CheckpointFits ==
  \A w \in Worker :
    /\ main[w].pc \in {"stamped", "selected"}
    /\ main[w].goal = "checkpoint"
    /\ owner = w
    => progress < MaxProgress

\* The inductive invariant.
LeaseInv == TypeOK /\ FreshCopyIsOwners /\ CheckpointFits

LEMMA InitLeaseInv == Init => LeaseInv
  BY AgeFacts, NoFlows, MaxProgressAssumption
  DEF Init, LeaseInv, TypeOK, FreshCopyIsOwners, CheckpointFits

LEMMA TickKeepsLeaseInv == LeaseInv /\ Tick => LeaseInv'
<1> SUFFICES ASSUME LeaseInv, Tick PROVE LeaseInv'
  OBVIOUS
<1>1. /\ main' \in [Worker -> MainFlow]
      /\ \A w \in Worker : /\ main'[w].pc = main[w].pc
                           /\ main'[w].goal = main[w].goal
                           /\ main'[w].fresh = main[w].fresh
  BY AgeFacts DEF LeaseInv, TypeOK, Tick, MainFlow
<1>2. /\ beat' \in [Worker -> BeatFlow]
      /\ \A w \in Worker : beat'[w].fresh = beat[w].fresh
  BY AgeFacts DEF LeaseInv, TypeOK, Tick, BeatFlow
<1>3. idle' \in Age /\ ttl' \in Age
  BY AgeFacts DEF LeaseInv, TypeOK, Tick
<1> QED
  BY <1>1, <1>2, <1>3
  DEF LeaseInv, TypeOK, FreshCopyIsOwners, CheckpointFits, Tick

LEMMA ClaimKeepsLeaseInv ==
  ASSUME LeaseInv, NEW w \in Worker, Claim(w) PROVE LeaseInv'
<1>1. /\ main' \in [Worker -> MainFlow]
      /\ \A v \in Worker : main'[v].fresh = FALSE
      /\ main'[w].pc = "working"
  BY OutdatedMain, NoFlows DEF LeaseInv, TypeOK, Claim, MainFlow, NoMain
<1>2. beat' \in [Worker -> BeatFlow] /\ \A v \in Worker : beat'[v].fresh = FALSE
  BY OutdatedBeat DEF LeaseInv, TypeOK, Claim
<1> QED
  BY <1>1, <1>2, AgeFacts
  DEF LeaseInv, TypeOK, FreshCopyIsOwners, CheckpointFits, Claim

LEMMA LoseKeepsLeaseInv ==
  ASSUME LeaseInv, NEW w \in Worker, Lose(w) PROVE LeaseInv'
<1>1. /\ main' \in [Worker -> MainFlow]
      /\ \A v \in Worker : v # w => main'[v] = main[v]
      /\ main'[w] = NoMain
  BY NoFlows DEF LeaseInv, TypeOK, Lose
<1>2. /\ beat' \in [Worker -> BeatFlow]
      /\ \A v \in Worker : beat'[v].fresh = beat[v].fresh
  BY StoppedBeat DEF LeaseInv, TypeOK, Lose
<1> QED
  BY <1>1, <1>2, NoFlows
  DEF LeaseInv, TypeOK, FreshCopyIsOwners, CheckpointFits, Lose, row

LEMMA UpdateWriteKeepsLeaseInv ==
  ASSUME LeaseInv, NEW w \in Worker, UpdateWrite(w) PROVE LeaseInv'
<1>1. CASE ~main[w].fresh
  BY <1>1, LoseKeepsLeaseInv DEF UpdateWrite
<1>2. ASSUME main[w].fresh, CommitUpdate(w) PROVE LeaseInv'
  <2>1. owner = w /\ status = "running" /\ main[w].stamp \in Age
    BY <1>2 DEF LeaseInv, TypeOK, FreshCopyIsOwners, MainFlow
  <2>2. CASE main[w].goal = "checkpoint"
    <3>1. progress < MaxProgress
      BY <2>1, <2>2, <1>2 DEF LeaseInv, CheckpointFits, UpdateWrite
    <3>2. /\ main' \in [Worker -> MainFlow]
          /\ \A v \in Worker : main'[v].fresh = FALSE
          /\ main'[w].pc = "working"
      <4> DEFINE f == Outdated(main)
      <4>1. f \in [Worker -> MainFlow] /\ \A v \in Worker : f[v].fresh = FALSE
        BY OutdatedMain DEF LeaseInv, TypeOK
      <4>2. main' = [f EXCEPT ![w].pc = "working", ![w].stamp = 0]
        BY <1>2, <2>2 DEF CommitUpdate
      <4> HIDE DEF f
      <4> QED BY <4>1, <4>2, AgeFacts DEF MainFlow
    <3>3. /\ beat' \in [Worker -> BeatFlow]
          /\ \A v \in Worker : beat'[v].fresh = FALSE
      BY <1>2, <2>2, OutdatedBeat DEF LeaseInv, TypeOK, CommitUpdate
    <3>4. status' = status /\ owner' = owner /\ progress' = progress + 1
      BY <1>2, <2>2 DEF CommitUpdate
    <3>5. TypeOK'
      <4>1. /\ writer' = w /\ idle' = main[w].stamp /\ ttl' = ttl
            /\ outcome' = [outcome EXCEPT ![w] = "committed"]
        BY <1>2 DEF CommitUpdate
      <4>2. progress' \in 0 .. MaxProgress
        BY <3>1, <3>4, MaxProgressAssumption DEF LeaseInv, TypeOK
      <4> QED
        BY <2>1, <3>2, <3>3, <3>4, <4>1, <4>2 DEF LeaseInv, TypeOK
    <3> QED
      BY <2>1, <3>2, <3>3, <3>4, <3>5
      DEF LeaseInv, FreshCopyIsOwners, CheckpointFits
  <2>3. CASE main[w].goal # "checkpoint"
    <3>1. /\ main' \in [Worker -> MainFlow]
          /\ \A v \in Worker : main'[v].fresh = FALSE
          /\ main'[w].pc = "idle"
      <4> DEFINE f == Outdated(main)
      <4>1. f \in [Worker -> MainFlow] /\ \A v \in Worker : f[v].fresh = FALSE
        BY OutdatedMain DEF LeaseInv, TypeOK
      <4>2. main' = [f EXCEPT ![w] = NoMain]
        BY <1>2, <2>3 DEF CommitUpdate
      <4> HIDE DEF f
      <4> QED BY <4>1, <4>2, NoFlows
    <3>2. /\ beat' \in [Worker -> BeatFlow]
          /\ \A v \in Worker : beat'[v].fresh = FALSE
      <4> DEFINE f == Stopped(beat, w)
      <4>1. f \in [Worker -> BeatFlow]
        BY StoppedBeat DEF LeaseInv, TypeOK
      <4>2. beat' = Outdated(f)
        BY <1>2, <2>3 DEF CommitUpdate
      <4> HIDE DEF f
      <4> QED BY <4>1, <4>2, OutdatedBeat
    <3>3. status' \in {"queued", "settled"} /\ owner' = owner
          /\ progress' = progress
      BY <1>2, <2>3 DEF CommitUpdate
    <3>4. TypeOK'
      BY <1>2, <2>1, <3>1, <3>2, <3>3 DEF LeaseInv, TypeOK, CommitUpdate
    <3> QED
      BY <2>1, <3>1, <3>2, <3>3, <3>4
      DEF LeaseInv, FreshCopyIsOwners, CheckpointFits
  <2> QED BY <2>2, <2>3
<1> QED BY <1>1, <1>2 DEF UpdateWrite

LEMMA RenewKeepsLeaseInv ==
  ASSUME LeaseInv, NEW w \in Worker, RenewSelect(w) \/ RenewWrite(w)
  PROVE  LeaseInv'
<1>1. ASSUME Abort(w)
      PROVE  /\ main' \in [Worker -> MainFlow]
             /\ \A v \in Worker : /\ main'[v].pc = main[v].pc
                                  /\ main'[v].goal = main[v].goal
                                  /\ main'[v].fresh = main[v].fresh
  <2>1. main[w].aborted \in BOOLEAN /\ beat[w].orphan \in BOOLEAN
    BY DEF LeaseInv, TypeOK, MainFlow, BeatFlow
  <2>2. main' = [main EXCEPT ![w].aborted = main[w].aborted \/ ~beat[w].orphan]
    BY <1>1 DEF Abort
  <2> DEFINE b == main[w].aborted \/ ~beat[w].orphan
  <2>3. b \in BOOLEAN
    OBVIOUS
  <2> HIDE DEF b
  <2>4. main' = [main EXCEPT ![w].aborted = b]
    BY <2>2 DEF b
  <2> QED BY <2>3, <2>4 DEF LeaseInv, TypeOK, MainFlow
<1>2. CASE RenewSelect(w) /\ Holds(w)
  <2>1. /\ beat' \in [Worker -> BeatFlow]
        /\ \A v \in Worker : v # w => beat'[v] = beat[v]
    <3>1. [NoBeat EXCEPT !.pc = "selected", !.fresh = TRUE] \in BeatFlow
      BY AgeFacts DEF NoBeat, BeatFlow
    <3> QED BY <1>2, <3>1 DEF LeaseInv, TypeOK, RenewSelect
  <2> QED
    BY <1>2, <2>1
    DEF LeaseInv, TypeOK, FreshCopyIsOwners, CheckpointFits, RenewSelect,
        Holds, row
<1>3. CASE RenewSelect(w) /\ ~Holds(w)
  BY <1>1, <1>3
  DEF LeaseInv, TypeOK, FreshCopyIsOwners, CheckpointFits, RenewSelect, row
<1>4. CASE RenewWrite(w) /\ beat[w].fresh
  <2>1. /\ main' \in [Worker -> MainFlow]
        /\ \A v \in Worker : /\ main'[v].pc = main[v].pc
                             /\ main'[v].goal = main[v].goal
                             /\ main'[v].fresh = FALSE
    <3>1. main' = Outdated(main) /\ main \in [Worker -> MainFlow]
      BY <1>4 DEF LeaseInv, TypeOK, RenewWrite
    <3> QED BY <3>1, OutdatedMain
  <2>2. /\ beat' \in [Worker -> BeatFlow]
        /\ \A v \in Worker : beat'[v].fresh = FALSE
    <3> DEFINE f == Outdated(beat)
    <3>1. f \in [Worker -> BeatFlow] /\ \A v \in Worker : f[v].fresh = FALSE
      BY OutdatedBeat DEF LeaseInv, TypeOK
    <3>2. beat' = [f EXCEPT ![w] = NoBeat]
      BY <1>4 DEF RenewWrite
    <3> HIDE DEF f
    <3> QED BY <3>1, <3>2, NoFlows
  <2>3. idle' \in Age /\ ttl' \in Age
    BY <1>4, AgeFacts DEF LeaseInv, TypeOK, RenewWrite, BeatFlow
  <2> QED
    BY <1>4, <2>1, <2>2, <2>3
    DEF LeaseInv, TypeOK, FreshCopyIsOwners, CheckpointFits, RenewWrite
<1>5. CASE RenewWrite(w) /\ ~beat[w].fresh
  <2>1. /\ beat' \in [Worker -> BeatFlow]
        /\ \A v \in Worker : v # w => beat'[v] = beat[v]
        /\ beat'[w].fresh = FALSE
    BY <1>5, NoFlows DEF LeaseInv, TypeOK, RenewWrite
  <2>2. Abort(w) /\ UNCHANGED <<idle, ttl>>
    BY <1>5 DEF RenewWrite
  <2> QED
    BY <1>1, <1>5, <2>1, <2>2
    DEF LeaseInv, TypeOK, FreshCopyIsOwners, CheckpointFits, RenewWrite
<1> QED BY <1>2, <1>3, <1>4, <1>5

LEMMA NextLeaseInv == LeaseInv /\ [Next]_vars => LeaseInv'
<1> SUFFICES ASSUME LeaseInv, [Next]_vars PROVE LeaseInv'
  OBVIOUS
<1>1. ASSUME NEW w \in Worker, NEW goal \in Goal, BeginUpdate(w, goal)
      PROVE  LeaseInv'
  <2>1. main' \in [Worker -> MainFlow]
    <3>1. main[w] \in MainFlow
      BY DEF LeaseInv, TypeOK
    <3>2. [main[w] EXCEPT !.pc = "stamped", !.goal = goal, !.stamp = 0]
            \in MainFlow
      BY <3>1, AgeFacts DEF MainFlow
    <3> QED BY <1>1, <3>2 DEF LeaseInv, TypeOK, BeginUpdate
  <2>2. \A v \in Worker : main'[v].fresh = main[v].fresh
                          /\ (v # w => main'[v] = main[v])
    BY <1>1 DEF LeaseInv, TypeOK, BeginUpdate, MainFlow
  <2>3. main'[w].goal = goal
    BY <1>1 DEF LeaseInv, TypeOK, BeginUpdate, MainFlow
  <2> QED
    BY <1>1, <2>1, <2>2, <2>3
    DEF LeaseInv, TypeOK, FreshCopyIsOwners, CheckpointFits, BeginUpdate, row
<1>2. ASSUME NEW w \in Worker, UpdateSelect(w) PROVE LeaseInv'
  <2>1. CASE ~Holds(w)
    BY <1>2, <2>1, LoseKeepsLeaseInv DEF UpdateSelect
  <2>2. CASE Holds(w)
    <3>1. /\ main' \in [Worker -> MainFlow]
          /\ \A v \in Worker : v # w => main'[v] = main[v]
          /\ main'[w].goal = main[w].goal
      BY <1>2, <2>2 DEF LeaseInv, TypeOK, UpdateSelect, MainFlow
    <3> QED
      BY <1>2, <2>2, <3>1
      DEF LeaseInv, TypeOK, FreshCopyIsOwners, CheckpointFits, UpdateSelect,
          Holds, row
  <2> QED BY <2>1, <2>2
<1>3. ASSUME NEW w \in Worker, Crash(w) PROVE LeaseInv'
  BY <1>3, NoFlows
  DEF LeaseInv, TypeOK, FreshCopyIsOwners, CheckpointFits, Crash, row
<1>4. CASE UNCHANGED vars
  BY <1>4
  DEF LeaseInv, TypeOK, FreshCopyIsOwners, CheckpointFits, vars, row
<1> QED
  BY <1>1, <1>2, <1>3, <1>4, TickKeepsLeaseInv, ClaimKeepsLeaseInv,
     UpdateWriteKeepsLeaseInv, RenewKeepsLeaseInv
  DEF Next

\* The row and the flows of every worker are always well typed.
THEOREM TypeCorrect == Spec => []TypeOK
<1>1. LeaseInv => TypeOK
  BY DEF LeaseInv
<1> QED BY <1>1, InitLeaseInv, NextLeaseInv, PTL DEF Spec

\* A copy of the row that no write has outdated is the current owner's.
THEOREM FreshCopies == Spec => []FreshCopyIsOwners
<1>1. LeaseInv => FreshCopyIsOwners
  BY DEF LeaseInv
<1> QED BY <1>1, InitLeaseInv, NextLeaseInv, PTL DEF Spec

-----------------------------------------------------------------------------
\* Every step of the lease protocol is a claim, a write by the owner, or
\* invisible to JobOwnership.
LEMMA StepRefines ==
  LeaseInv /\ [Next]_vars => [Ownership!Next]_(Ownership!vars)
<1> SUFFICES ASSUME LeaseInv, [Next]_vars
             PROVE  [Ownership!Next]_(Ownership!vars)
  OBVIOUS
<1> USE DEF Ownership!vars
<1>1. ASSUME NEW w \in Worker, Claim(w) PROVE Ownership!Next
  BY <1>1 DEF Claim, Claimable, Ownership!Next, Ownership!Claim
<1>2. ASSUME NEW w \in Worker, UpdateWrite(w), main[w].fresh
      PROVE  Ownership!Next
  <2>1. status = "running" /\ owner = w
    BY <1>2 DEF LeaseInv, FreshCopyIsOwners
  <2> QED
    BY <1>2, <2>1
    DEF UpdateWrite, CommitUpdate, Ownership!Next, Ownership!Checkpoint,
        Ownership!Release
<1>3. ASSUME NEW w \in Worker, UpdateWrite(w), ~main[w].fresh
      PROVE  UNCHANGED Ownership!vars
  BY <1>3 DEF UpdateWrite, Lose, row
<1>4. ASSUME NEW w \in Worker, UpdateSelect(w) PROVE UNCHANGED Ownership!vars
  BY <1>4 DEF UpdateSelect, Lose, row
<1>5. ASSUME NEW w \in Worker, NEW goal \in Goal,
             \/ BeginUpdate(w, goal) \/ RenewSelect(w) \/ RenewWrite(w)
             \/ Crash(w) \/ Tick
      PROVE  UNCHANGED Ownership!vars
  BY <1>5 DEF BeginUpdate, RenewSelect, RenewWrite, Crash, Tick, row
<1>6. CASE Tick
  BY <1>6 DEF Tick
<1>7. CASE UNCHANGED vars
  BY <1>7 DEF vars, row
<1>8. ASSUME NEW w \in Worker, RenewSelect(w) \/ RenewWrite(w) \/ Crash(w)
      PROVE  UNCHANGED Ownership!vars
  BY <1>8 DEF RenewSelect, RenewWrite, Crash, row
<1> QED
  BY <1>1, <1>2, <1>3, <1>4, <1>5, <1>6, <1>7, <1>8 DEF Next

\* The leased protocol implements exclusive ownership of the job.
THEOREM LeaseImplementsOwnership == Spec => ImplementsOwnership
<1>1. Init => Ownership!Init
  BY DEF Init, Ownership!Init
<1> QED
  BY <1>1, InitLeaseInv, NextLeaseInv, StepRefines, PTL
  DEF Spec, ImplementsOwnership, Ownership!Spec

-----------------------------------------------------------------------------
\* What code that runs under the lease may rely on from one step to the next: a
\* settled job never changes, progress is never lost, a write is the owner's, and
\* ownership changes without a write.
OwnerAlone ==
  /\ status = "settled" => UNCHANGED Ownership!vars
  /\ progress' >= progress
  /\ progress' # progress \/ writer' # writer
       => status = "running" /\ writer' = owner /\ owner' = owner
  /\ status = "running" /\ status' # "running" => writer' = owner /\ owner' = owner
  /\ owner' # owner => UNCHANGED <<progress, writer>>

\* Every write of the row is made by the owner of a running job, and settlement is
\* final (claimBackgroundJob, updateBackgroundJobWithLease).
THEOREM OwnerWritesAlone == Spec => [][OwnerAlone]_(Ownership!vars)
<1>1. LeaseInv /\ [Ownership!Next]_(Ownership!vars) => [OwnerAlone]_(Ownership!vars)
  <2> SUFFICES ASSUME LeaseInv, Ownership!Next
               PROVE  OwnerAlone
    OBVIOUS
  <2>1. progress \in Nat
    BY MaxProgressAssumption DEF LeaseInv, TypeOK
  <2>2. ASSUME NEW w \in Worker, Ownership!Claim(w)
        PROVE  OwnerAlone
    BY <2>1, <2>2 DEF Ownership!Claim, OwnerAlone, Ownership!vars
  <2>3. ASSUME NEW w \in Worker, Ownership!Checkpoint(w)
        PROVE  OwnerAlone
    BY <2>1, <2>3 DEF Ownership!Checkpoint, OwnerAlone, Ownership!vars
  <2>4. ASSUME NEW w \in Worker, Ownership!Release(w)
        PROVE  OwnerAlone
    BY <2>1, <2>4 DEF Ownership!Release, OwnerAlone, Ownership!vars
  <2> QED
    BY <2>2, <2>3, <2>4 DEF Ownership!Next
<1>2. LeaseInv /\ [Next]_vars => [OwnerAlone]_(Ownership!vars)
  BY <1>1, StepRefines
<1> QED
  BY <1>2, InitLeaseInv, NextLeaseInv, PTL DEF Spec
=============================================================================
