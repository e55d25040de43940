-------------------------------- MODULE Quota --------------------------------
(***************************************************************************)
(* The quota of a metric: consumeQuotas over the rows of quota_buckets     *)
(* (consume-quota.ts, quota-resets.ts, governance-billing-repository.ts),  *)
(* the shared counters of the coordinator (valkey-quota-coordinator.ts)    *)
(* and an administrator's update (quota-service.ts).                       *)
(*                                                                         *)
(* A bucket's period is named by its resetAt; resetAt of one bucket are    *)
(* numbered in the order they are drawn, which is their order in time.  A  *)
(* counter belongs to a bucket and a period.  Each call consumes one unit  *)
(* of every bucket it matches.  Some callers are in a transaction (the     *)
(* start of a run), whose writes lock the rows and are seen when it        *)
(* commits, others write each row by itself (an OpenAI completion).  Rows  *)
(* are written as a whole, by id, from the copy the caller has read.       *)
(***************************************************************************)
EXTENDS Naturals, FiniteSetsExt

CONSTANTS
  Call,         \* callers of consumeQuotas; one that has returned calls again
  InTransaction,\* those whose repository is a transaction
  Buckets,      \* number of buckets, in the order listQuotaBuckets has them
  Matches,      \* the buckets a caller's calls match
  Limit,        \* of each bucket
  Periodic,     \* buckets whose resetInterval is not "none"
  Coordinated,  \* the driver is valkey (else disabled)
  None,
  MaxPeriods,   \* bound on the periods drawn for a bucket
  MaxElapsed,   \* bound on those of a bucket that are over
  MaxUpdates,   \* bound on administrators' updates
  MaxFaults     \* bound on crashes, lost answers and evictions

Bucket == 1 .. Buckets
Period == 1 .. MaxPeriods

ASSUME BucketsAssumption == Buckets \in Nat /\ MaxPeriods \in Nat \ {0}
ASSUME CallAssumption == InTransaction \subseteq Call /\ None \notin Call \cup Nat
ASSUME MatchesAssumption == Matches \in [Call -> SUBSET Bucket]
ASSUME LimitAssumption == Limit \in [Bucket -> Nat]
ASSUME PeriodicAssumption == Periodic \subseteq Bucket
ASSUME CoordinatedAssumption == Coordinated \in BOOLEAN
ASSUME BoundAssumption == MaxElapsed \in Nat /\ MaxUpdates \in Nat /\ MaxFaults \in Nat

VARIABLES
  rows,       \* committed: used and period of each bucket
  lock,       \* the transaction that has written a bucket's row
  drawn,      \* the last period drawn for each bucket
  over,       \* the last period of each bucket that is over
  counters,   \* per bucket and period: the shared counter, None without one
  call,       \* of each call: where it is, its copy of the rows, what it was
              \* given and the buckets it has yet to write
  admin,      \* an administrator's update
  reserved,   \* per bucket and period: units given out
  setBack,    \* counters that were set to less than they were
  announced,  \* per bucket and period: the highest severity announced
  updates,
  faults

ghosts == <<reserved, setBack, announced>>
vars == <<rows, lock, drawn, over, counters, call, admin, ghosts, updates, faults>>

Row == [used : Nat, period : Period]
PerPeriod(v) == [b \in Bucket |-> [k \in Period |-> v]]
FirstRow == [used |-> 0, period |-> 1]
Idle == [pc |-> "idle", copy |-> [b \in Bucket |-> FirstRow],
         given |-> [b \in Bucket |-> 0], todo |-> {}]
NoUpdate == [pc |-> "idle", bucket |-> 1, row |-> FirstRow]

\* Types of the rows, the counters and the calls.
TypeOK ==
  /\ rows \in [Bucket -> Row]
  /\ lock \in [Bucket -> InTransaction \cup {None}]
  /\ drawn \in [Bucket -> Period]
  /\ over \in [Bucket -> 0 .. MaxElapsed]
  /\ counters \in [Bucket -> [Period -> Nat \cup {None}]]
  /\ call \in [Call -> [pc : {"idle", "listed", "reset", "write", "commit", "refused"},
                        copy : [Bucket -> Row], given : [Bucket -> Nat],
                        todo : SUBSET Bucket]]
  /\ admin \in [pc : {"idle", "write", "sync"}, bucket : Nat, row : Row]
  /\ reserved \in [Bucket -> [Period -> Nat]]
  /\ setBack \subseteq Bucket \X Period
  /\ announced \in [Bucket -> [Period -> 0 .. 3]]
  /\ updates \in 0 .. MaxUpdates
  /\ faults \in 0 .. MaxFaults

Init ==
  /\ rows = [b \in Bucket |-> FirstRow]
  /\ lock = [b \in Bucket |-> None]
  /\ drawn = [b \in Bucket |-> 1]
  /\ over = [b \in Bucket |-> 0]
  /\ counters = PerPeriod(None)
  /\ call = [c \in Call |-> Idle]
  /\ admin = NoUpdate
  /\ reserved = PerPeriod(0)
  /\ setBack = {}
  /\ announced = PerPeriod(0)
  /\ updates = 0
  /\ faults = 0

Fault == faults < MaxFaults /\ faults' = faults + 1
Higher(m, n) == IF m < n THEN n ELSE m

-----------------------------------------------------------------------------
\* listQuotaBuckets.
List(c) ==
  /\ call[c].pc = "idle"
  /\ call' = [call EXCEPT ![c] = [Idle EXCEPT !.pc = "listed", !.copy = rows]]
  /\ UNCHANGED <<rows, lock, drawn, over, counters, admin, ghosts, updates, faults>>

\* resetDueQuotaBuckets finds the buckets whose period is over and draws the
\* next one for each, from now.
Due(c) == {b \in Bucket : call[c].copy[b].period <= over[b]}

DrawPeriods(c) ==
  /\ call[c].pc = "listed"
  /\ \A b \in Due(c) : drawn[b] < MaxPeriods
  /\ drawn' = [b \in Bucket |-> IF b \in Due(c) THEN drawn[b] + 1 ELSE drawn[b]]
  /\ call' = [call EXCEPT ![c].pc = "reset", ![c].todo = Due(c),
       ![c].copy = [b \in Bucket |-> IF b \in Due(c)
                                     THEN [used |-> 0, period |-> drawn'[b]] ELSE @[b]]]
  /\ UNCHANGED <<rows, lock, over, counters, admin, ghosts, updates, faults>>

\* updateQuotaBucket: the UPDATE waits for a transaction that has written the
\* row; in a transaction it is seen by nobody else yet.
WriteRow(c, b, row) ==
  /\ lock[b] \in {None, c}
  /\ IF c \in InTransaction
     THEN lock' = [lock EXCEPT ![b] = c] /\ UNCHANGED rows
     ELSE rows' = [rows EXCEPT ![b] = row] /\ UNCHANGED lock

ResetRow(c) ==
  /\ call[c].pc = "reset"
  /\ call[c].todo # {}
  /\ LET b == Min(call[c].todo) IN
       /\ WriteRow(c, b, call[c].copy[b])
       /\ call' = [call EXCEPT ![c].todo = @ \ {b}]
  /\ UNCHANGED <<drawn, over, counters, admin, ghosts, updates, faults>>

-----------------------------------------------------------------------------
\* The rows as the call has read or reset them leave room for it.
RowsAllow(c) ==
  \A b \in Matches[c] : call[c].copy[b].used + 1 <= Limit[b]

\* (Mutant) The script starts from the row whether there is a counter or not.
Counted_Row(c, b) == call[c].copy[b].used

\* A counter, or the value the script starts it from.
Counted(c, b) ==
  LET n == counters[b][call[c].copy[b].period]
  IN IF n = None THEN call[c].copy[b].used ELSE n

CountersAllow(c) == \A b \in Matches[c] : Counted(c, b) + 1 <= Limit[b]

Checked(c) == call[c].pc = "reset" /\ call[c].todo = {}
Allowed(c) == RowsAllow(c) /\ (Coordinated => CountersAllow(c))

\* The values of the buckets value is defined for become value[b], in the period
\* the call knows.
InPeriod(f, c, value) ==
  [b \in Bucket |-> IF b \in DOMAIN value
                    THEN [f[b] EXCEPT ![call[c].copy[b].period] = value[b]] ELSE f[b]]

\* The reserveScript counts every bucket or none.
Counters(c) ==
  IF Coordinated
  THEN InPeriod(counters, c, [b \in Matches[c] |-> Counted(c, b) + 1])
  ELSE counters

\* The units of the call are given out.
Reserved(c) ==
  InPeriod(reserved, c,
           [b \in Matches[c] |-> reserved[b][call[c].copy[b].period] + 1])

\* reserve, and what it answers; a disabled coordinator adds to the copy.
Reserve(c) ==
  /\ Checked(c)
  /\ Allowed(c)
  /\ counters' = Counters(c)
  /\ reserved' = Reserved(c)
  /\ call' = [call EXCEPT ![c].pc = "write", ![c].todo = Matches[c],
       ![c].given = [b \in Bucket |->
          IF b \notin Matches[c] THEN 0
          ELSE IF Coordinated THEN Counted(c, b) + 1 ELSE call[c].copy[b].used + 1]]
  /\ UNCHANGED <<rows, lock, drawn, over, admin, setBack, announced, updates, faults>>

\* (Mutant) The script counts a bucket before it has looked at the next one.
Refuse_HalfDone(c) ==
  /\ Checked(c)
  /\ ~Allowed(c)
  /\ call' = [call EXCEPT ![c].pc = "refused"]
  /\ counters' =
       LET fits == {b \in Matches[c] : RowsAllow(c) /\ Counted(c, b) + 1 <= Limit[b]}
       IN InPeriod(counters, c, [b \in fits |-> Counted(c, b) + 1])
  /\ UNCHANGED <<rows, lock, drawn, over, admin, ghosts, updates, faults>>

\* quota_exceeded, by the rows or by the script.
Refuse(c) ==
  /\ Checked(c)
  /\ ~Allowed(c)
  /\ call' = [call EXCEPT ![c].pc = "refused"]
  /\ UNCHANGED <<rows, lock, drawn, over, counters, admin, ghosts, updates, faults>>

\* The script's answer is lost: the call fails, its units stay counted.
LoseReservation(c) ==
  /\ Fault
  /\ Coordinated
  /\ Checked(c)
  /\ Allowed(c)
  /\ counters' = Counters(c)
  /\ reserved' = Reserved(c)
  /\ call' = [call EXCEPT ![c].pc = "refused"]
  /\ UNCHANGED <<rows, lock, drawn, over, admin, setBack, announced, updates>>

-----------------------------------------------------------------------------
\* What the call writes of a bucket it has consumed from.
After(c, b) ==
  [call[c].copy[b] EXCEPT !.used = Higher(@ + 1, call[c].given[b])]

\* Promise.all: the UPDATEs of a transaction share its connection.
ConsumeRow(c) ==
  /\ call[c].pc = "write"
  /\ call[c].todo # {}
  /\ \E b \in call[c].todo :
       /\ c \in InTransaction => b = Min(call[c].todo)
       /\ WriteRow(c, b, After(c, b))
       /\ call' = [call EXCEPT ![c].todo = @ \ {b}]
  /\ UNCHANGED <<drawn, over, counters, admin, ghosts, updates, faults>>

\* severityFor: exceeded, critical, warning or nothing.
Severity(b, used) ==
  IF Limit[b] = 0 THEN 0
  ELSE IF used > Limit[b] THEN 3
  ELSE IF 10 * used >= 9 * Limit[b] THEN 2
  ELSE IF 10 * used >= 8 * Limit[b] THEN 1 ELSE 0

\* (Mutant) The alert looks at the unit of the call, not at what was written.
Raised_OwnUnit(c, b) ==
  LET before == call[c].copy[b].used
  IN IF Severity(b, before + 1) > Severity(b, before) THEN Severity(b, before + 1) ELSE 0

\* emitQuotaAlert: the severity the call has brought the bucket to, if higher
\* than it was in the row it has read.
Raised(c, b) ==
  LET after == Severity(b, After(c, b).used)
  IN IF after > Severity(b, call[c].copy[b].used) THEN after ELSE 0

\* All rows are written: the alerts go out, and the call returns or commits.
Announce(c) ==
  /\ call[c].pc = "write"
  /\ call[c].todo = {}
  /\ announced' =
       InPeriod(announced, c,
         [b \in Matches[c] |->
            Higher(announced[b][call[c].copy[b].period], Raised(c, b))])
  /\ call' = [call EXCEPT ![c] =
       IF c \in InTransaction THEN [@ EXCEPT !.pc = "commit"] ELSE Idle]
  /\ UNCHANGED <<rows, lock, drawn, over, counters, admin, reserved, setBack, updates,
                 faults>>

Unlocked(c) == [b \in Bucket |-> IF lock[b] = c THEN None ELSE lock[b]]

\* The caller's transaction commits: what it has reset, and consumed from.
Commit(c) ==
  /\ call[c].pc = "commit"
  /\ rows' = [b \in Bucket |->
       IF lock[b] # c THEN rows[b]
       ELSE IF b \in Matches[c] THEN After(c, b) ELSE call[c].copy[b]]
  /\ lock' = Unlocked(c)
  /\ call' = [call EXCEPT ![c] = Idle]
  /\ UNCHANGED <<drawn, over, counters, admin, ghosts, updates, faults>>

\* The call throws; a transaction is rolled back, also when a later statement
\* of it fails or PostgreSQL ends a deadlock.  The counters stay as they are.
Throw(c) ==
  /\ \/ call[c].pc = "refused"
     \/ c \in InTransaction /\ call[c].pc # "idle"
  /\ lock' = Unlocked(c)
  /\ call' = [call EXCEPT ![c] = Idle]
  /\ UNCHANGED <<rows, drawn, over, counters, admin, ghosts, updates, faults>>

\* A call outside of a transaction dies, or an UPDATE of its rejects, between
\* two of its statements.
Break(c) ==
  /\ Fault
  /\ c \notin InTransaction
  /\ call[c].pc # "idle"
  /\ call' = [call EXCEPT ![c] = Idle]
  /\ UNCHANGED <<rows, lock, drawn, over, counters, admin, ghosts, updates>>

-----------------------------------------------------------------------------
\* QuotaService.update reads the bucket,
UpdateRead(b) ==
  /\ admin.pc = "idle"
  /\ updates < MaxUpdates
  /\ updates' = updates + 1
  /\ admin' = [pc |-> "write", bucket |-> b, row |-> rows[b]]
  /\ UNCHANGED <<rows, lock, drawn, over, counters, call, ghosts, faults>>

\* writes the row it has read back in a transaction, with resetUsage or without,
UpdateWrite(resetUsage) ==
  /\ admin.pc = "write"
  /\ lock[admin.bucket] = None
  /\ admin' = [admin EXCEPT !.pc = "sync",
                            !.row.used = IF resetUsage THEN 0 ELSE @]
  /\ rows' = [rows EXCEPT ![admin.bucket] = admin'.row]
  /\ UNCHANGED <<lock, drawn, over, counters, call, ghosts, updates, faults>>

\* and sets the counter to the same value.
Sync ==
  LET b == admin.bucket
      k == admin.row.period
  IN /\ admin.pc = "sync"
     /\ admin' = NoUpdate
     /\ IF Coordinated
        THEN /\ counters' = [counters EXCEPT ![b][k] = admin.row.used]
             /\ setBack' = setBack \cup {<<b, k>>}
        ELSE UNCHANGED <<counters, setBack>>
     /\ UNCHANGED <<rows, lock, drawn, over, call, reserved, announced, updates, faults>>

\* The command fails; applyBillingQuotaTemplates updates without it.
LoseSync ==
  /\ Fault
  /\ admin.pc = "sync"
  /\ admin' = NoUpdate
  /\ UNCHANGED <<rows, lock, drawn, over, counters, call, ghosts, updates>>

-----------------------------------------------------------------------------
\* A period of the bucket is over.
Elapse(b) ==
  /\ b \in Periodic
  /\ over[b] < drawn[b]
  /\ over[b] < MaxElapsed
  /\ over' = [over EXCEPT ![b] = @ + 1]
  /\ UNCHANGED <<rows, lock, drawn, counters, call, admin, ghosts, updates, faults>>

\* The server of the counters loses one: a restart, or the 60 s after the end of
\* a period run out under a call that still knows it.
Evict(b, k) ==
  /\ Fault
  /\ counters[b][k] # None
  /\ counters' = [counters EXCEPT ![b][k] = None]
  /\ setBack' = setBack \cup {<<b, k>>}
  /\ UNCHANGED <<rows, lock, drawn, over, call, admin, reserved, announced, updates>>

CallStep(c) ==
  \/ List(c) \/ DrawPeriods(c) \/ ResetRow(c) \/ Refuse(c) \/ Reserve(c)
  \/ ConsumeRow(c) \/ Announce(c) \/ Commit(c) \/ Throw(c)
  \/ LoseReservation(c) \/ Break(c)

Next ==
  \/ \E c \in Call : CallStep(c)
  \/ \E b \in Bucket : UpdateRead(b) \/ Elapse(b) \/ \E k \in Period : Evict(b, k)
  \/ \E resetUsage \in BOOLEAN : UpdateWrite(resetUsage)
  \/ Sync \/ LoseSync

Spec == Init /\ [][Next]_vars

-----------------------------------------------------------------------------
\* No more units of a period are given out than its limit, by whichever calls,
\* in transactions or not, whatever they have read and however their writes
\* overwrite each other, unless its counter was set back.
LimitKept ==
  \A b \in Bucket, k \in Period :
    <<b, k>> \notin setBack => reserved[b][k] <= Limit[b]

\* A call is refused only for a bucket of which all units were given out, if not
\* to a call that went through then to one that failed later; a refusal itself
\* costs nothing, in no bucket.
RefusedWhenSpent ==
  \A c \in Call : call[c].pc = "refused" /\ faults = 0 =>
    \E b \in Matches[c] : reserved[b][call[c].copy[b].period] >= Limit[b]

\* The severity that the use of a bucket has reached was announced: two calls
\* that bring it there together do not each leave it to the other.
SeverityAnnounced ==
  faults = 0 /\ (\A c \in Call : call[c].pc # "write") =>
    \A b \in Bucket : announced[b][rows[b].period] >= Severity(b, rows[b].used)

-----------------------------------------------------------------------------
\* (Refuted) One limit holds at a time: two calls that find a period over both draw
\* the next one, or an old copy brings the old one back, and each period of the
\* bucket has a counter of its own.
OneLimitAtATime ==
  \A b \in Bucket :
    LET given(k) == reserved[b][k]
    IN setBack = {} => MapThenSumSet(given, {k \in Period : k > over[b]}) <= Limit[b]

\* (Refuted) While no call is on its way, the row shows what was consumed: the
\* later of two writes may have the smaller figure, and a unit of a call that
\* was rolled back stays counted.
RowIsCounter ==
  Coordinated /\ faults = 0 /\ (\A c \in Call : call[c].pc = "idle") /\ admin.pc = "idle" =>
    \A b \in Bucket : counters[b][rows[b].period] \in {None, rows[b].used}
=============================================================================
