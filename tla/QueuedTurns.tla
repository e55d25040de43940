----------------------------- MODULE QueuedTurns -----------------------------
(***************************************************************************)
(* The queued turns of one chat: RunQueueService (enqueue, cancel, drain)  *)
(* over the rows of queued_chat_turns, run by several server processes,    *)
(* beside users who start runs in the same chat directly.                  *)
(*                                                                         *)
(* A turn is named by its place in createdAt order.  createdAt is taken    *)
(* before the transaction that inserts the row, so a turn may appear after *)
(* a younger one.  drainingChats admits one drain of the chat per process, *)
(* so a lease token is known by the process that holds it; a crash leaves  *)
(* a leased row with owner None, a token nobody presents again.  A retried *)
(* enqueue finds its row by the idempotency key and only drains again,     *)
(* which Poll covers.  Transactions are read committed: what a transaction *)
(* has read may be outdated when it commits.  The chat's advisory lock is  *)
(* taken by claims and cancellations only, not by renewals, finishes and   *)
(* enqueues.                                                               *)
(***************************************************************************)
EXTENDS Naturals, FiniteSets

CONSTANTS
  Process,       \* server processes
  None,
  MaxTurns,      \* bound on the turns of the chat
  MaxQueue,      \* turns a chat may queue (20)
  AttemptLimit,  \* attempts after which a rejected turn has failed (3)
  MaxDirect,     \* bound on direct starts
  MaxFaults      \* bound on crashes, stalls and late errors

ASSUME MaxTurnsAssumption == MaxTurns \in Nat
ASSUME MaxQueueAssumption == MaxQueue \in Nat
ASSUME AttemptLimitAssumption == AttemptLimit \in Nat \ {0}
ASSUME MaxDirectAssumption == MaxDirect \in Nat
ASSUME MaxFaultsAssumption == MaxFaults \in Nat
ASSUME NoneAssumption == None \notin Process

Turn == 1 .. MaxTurns

VARIABLES
  status,    \* of each turn's row; "absent" and "counted" precede the row
  attempts,  \* attemptCount
  owner,     \* the process whose drain knows leaseToken, None when none does
  live,      \* leaseExpiresAt is in the future
  sent,      \* how often the turn's message and run were created
  drain,     \* the drain of the chat in each process
  runs,      \* runs of the chat that are not terminal
  direct,    \* direct starts: made so far, and between check and commit
  faults,    \* crashes, stalls and late errors so far
  stalled    \* turns whose lease ran out under a working drain

rows == <<status, attempts, owner, live>>
vars == <<rows, sent, drain, runs, direct, faults, stalled>>

NoTurn == 0
Settled == {"completed", "failed", "cancelled"}
Claiming == {"select", "update"}  \* in the transaction of a claim
Working == {"check", "create", "complete", "reject"}
NoDrain == [pc |-> "idle", turn |-> NoTurn, before |-> {}]

\* Types; "before" is the set of older turns that had a row when the turn was
\* selected.
TypeOK ==
  /\ status \in [Turn -> {"absent", "counted", "queued", "leased"} \cup Settled]
  /\ attempts \in [Turn -> Nat]
  /\ owner \in [Turn -> Process \cup {None}]
  /\ live \in [Turn -> BOOLEAN]
  /\ sent \in [Turn -> Nat]
  /\ drain \in [Process -> [pc : {"idle", "list", "claim"} \cup Claiming \cup Working,
                            turn : Turn \cup {NoTurn}, before : SUBSET Turn]]
  /\ runs \in Nat
  /\ direct \in [made : 0 .. MaxDirect, open : 0 .. MaxDirect]
  /\ faults \in 0 .. MaxFaults
  /\ stalled \subseteq Turn

Init ==
  /\ status = [t \in Turn |-> "absent"]
  /\ attempts = [t \in Turn |-> 0]
  /\ owner = [t \in Turn |-> None]
  /\ live = [t \in Turn |-> FALSE]
  /\ sent = [t \in Turn |-> 0]
  /\ drain = [p \in Process |-> NoDrain]
  /\ runs = 0
  /\ direct = [made |-> 0, open |-> 0]
  /\ faults = 0
  /\ stalled = {}

-----------------------------------------------------------------------------
Waiting == {t \in Turn : status[t] \in {"queued", "leased"}}

\* drain(chatId) is ignored while the process is draining the chat already.
DrainBegun(p) ==
  IF drain[p].pc = "idle" THEN [drain EXCEPT ![p].pc = "list"] ELSE drain

\* pg_advisory_xact_lock of the chat is free: no claim is in its transaction.
Unlocked == \A p \in Process : drain[p].pc \notin Claiming

\* The transaction of enqueue has counted the turns that wait.
Count(t) ==
  /\ status[t] = "absent"
  /\ Cardinality(Waiting) < MaxQueue
  /\ status' = [status EXCEPT ![t] = "counted"]
  /\ UNCHANGED <<attempts, owner, live, sent, drain, runs, direct, faults, stalled>>

\* It commits the row, and p drains the chat.
Insert(t, p) ==
  /\ status[t] = "counted"
  /\ status' = [status EXCEPT ![t] = "queued"]
  /\ drain' = DrainBegun(p)
  /\ UNCHANGED <<attempts, owner, live, sent, runs, direct, faults, stalled>>

\* (Mutant) The UPDATE of cancelQueuedChatTurn without its condition on status.
Cancel_AnyStatus(t) ==
  /\ Unlocked
  /\ status[t] \notin {"absent", "counted"}
  /\ status' = [status EXCEPT ![t] = "cancelled"]
  /\ owner' = [owner EXCEPT ![t] = None]
  /\ live' = [live EXCEPT ![t] = FALSE]
  /\ UNCHANGED <<attempts, sent, drain, runs, direct, faults, stalled>>

\* cancel: its guarded UPDATE under the lock; the reads around it only choose the
\* answer.
Cancel(t) ==
  /\ Unlocked
  /\ status[t] \in {"queued", "failed"}
  /\ status' = [status EXCEPT ![t] = "cancelled"]
  /\ owner' = [owner EXCEPT ![t] = None]
  /\ live' = [live EXCEPT ![t] = FALSE]
  /\ UNCHANGED <<attempts, sent, drain, runs, direct, faults, stalled>>

\* queuedForChat: a client that watches the chat has p drain it.
Poll(p) ==
  /\ drain[p].pc = "idle"
  /\ drain' = DrainBegun(p)
  /\ UNCHANGED <<rows, sent, runs, direct, faults, stalled>>

-----------------------------------------------------------------------------
\* drain reads the chat's runs and returns when one is active.
List(p) ==
  /\ drain[p].pc = "list"
  /\ drain' = [drain EXCEPT ![p].pc = IF runs > 0 THEN "idle" ELSE "claim"]
  /\ UNCHANGED <<rows, sent, runs, direct, faults, stalled>>

\* (Mutant) claimNextQueuedChatTurn does not look for a live lease first.
LiveLease_Ignored == FALSE

LiveLease == \E t \in Turn : status[t] = "leased" /\ live[t]

\* claimNextQueuedChatTurn takes the chat's lock and looks for a live lease.  Its
\* "now" is read before: a lease that runs out later is live to it all the same,
\* which only makes it claim less than here.
ReadLeases(p) ==
  /\ drain[p].pc = "claim"
  /\ Unlocked
  /\ drain' = [drain EXCEPT ![p] = IF LiveLease THEN NoDrain ELSE [@ EXCEPT !.pc = "select"]]
  /\ UNCHANGED <<rows, sent, runs, direct, faults, stalled>>

\* (Mutant) An expired lease is never taken over.
Claimable_QueuedOnly(t) == status[t] = "queued"

Claimable(t) == status[t] = "queued" \/ (status[t] = "leased" /\ ~live[t])

\* It selects the oldest candidate.
Select(p) ==
  /\ drain[p].pc = "select"
  /\ \E t \in Turn :
       /\ Claimable(t)
       /\ \A u \in Turn : Claimable(u) => t <= u
       /\ drain' = [drain EXCEPT ![p] =
            [pc |-> "update", turn |-> t,
             before |-> {u \in 1 .. t - 1 : status[u] \notin {"absent", "counted"}}]]
  /\ UNCHANGED <<rows, sent, runs, direct, faults, stalled>>

SelectNothing(p) ==
  /\ drain[p].pc = "select"
  /\ \A t \in Turn : ~Claimable(t)
  /\ drain' = [drain EXCEPT ![p] = NoDrain]
  /\ UNCHANGED <<rows, sent, runs, direct, faults, stalled>>

\* (Mutant) The UPDATE leaves leaseExpiresAt as it was.
Claim_NoExpiry(p) ==
  /\ drain[p].pc = "update"
  /\ Claimable(drain[p].turn)
  /\ status' = [status EXCEPT ![drain[p].turn] = "leased"]
  /\ attempts' = [attempts EXCEPT ![drain[p].turn] = @ + 1]
  /\ owner' = [owner EXCEPT ![drain[p].turn] = p]
  /\ drain' = [drain EXCEPT ![p].pc = "check"]
  /\ UNCHANGED <<live, sent, runs, direct, faults, stalled>>

\* It leases the candidate if that is claimable still, and commits.
Claim(p) ==
  /\ drain[p].pc = "update"
  /\ Claimable(drain[p].turn)
  /\ status' = [status EXCEPT ![drain[p].turn] = "leased"]
  /\ attempts' = [attempts EXCEPT ![drain[p].turn] = @ + 1]
  /\ owner' = [owner EXCEPT ![drain[p].turn] = p]
  /\ live' = [live EXCEPT ![drain[p].turn] = TRUE]
  /\ drain' = [drain EXCEPT ![p].pc = "check"]
  /\ UNCHANGED <<sent, runs, direct, faults, stalled>>

ClaimLost(p) ==
  /\ drain[p].pc = "update"
  /\ ~Claimable(drain[p].turn)
  /\ drain' = [drain EXCEPT ![p] = NoDrain]
  /\ UNCHANGED <<rows, sent, runs, direct, faults, stalled>>

\* startRun, persistPreparedRunStart: the transaction reads the chat's runs.
Check(p) ==
  /\ drain[p].pc = "check"
  /\ drain' = [drain EXCEPT ![p].pc = IF runs > 0 THEN "reject" ELSE "create"]
  /\ UNCHANGED <<rows, sent, runs, direct, faults, stalled>>

\* A start is refused: access, content policy, routing, quota, retrieval.
StartRejected(p) ==
  /\ drain[p].pc \in {"check", "create"}
  /\ drain' = [drain EXCEPT ![p].pc = "reject"]
  /\ UNCHANGED <<rows, sent, runs, direct, faults, stalled>>

\* The transaction commits the user message and the run.
Create(p) ==
  /\ drain[p].pc = "create"
  /\ sent' = [sent EXCEPT ![drain[p].turn] = @ + 1]
  /\ runs' = runs + 1
  /\ drain' = [drain EXCEPT ![p].pc = "complete"]
  /\ UNCHANGED <<rows, direct, faults, stalled>>

\* The condition of finishQueuedChatTurnLease and renewQueuedChatTurnLease.
Holds(p) == status[drain[p].turn] = "leased" /\ owner[drain[p].turn] = p

\* finishQueuedChatTurnLease: the lease is given up for the given status.
Finish(p, outcome) ==
  /\ drain' = [drain EXCEPT ![p] = NoDrain]
  /\ IF Holds(p)
     THEN /\ status' = [status EXCEPT ![drain[p].turn] = outcome]
          /\ owner' = [owner EXCEPT ![drain[p].turn] = None]
          /\ live' = [live EXCEPT ![drain[p].turn] = FALSE]
          /\ UNCHANGED attempts
     ELSE UNCHANGED rows
  /\ UNCHANGED <<sent, runs, direct, faults, stalled>>

\* recordUsage and the finish as completed.
Complete(p) == drain[p].pc = "complete" /\ Finish(p, "completed")

\* (Mutant) The retry forgets the attempts already made.
AfterRejection_Always(p) == "queued"

\* attemptCount is the one the claim returned, the row's while p holds it.
AfterRejection(p) ==
  IF attempts[drain[p].turn] >= AttemptLimit THEN "failed" ELSE "queued"

\* The catch block of drain.
Reject(p) == drain[p].pc = "reject" /\ Finish(p, AfterRejection(p))

\* The heartbeat, which does not look at leaseExpiresAt.
Renew(p) ==
  /\ drain[p].pc \in Working
  /\ Holds(p)
  /\ ~live[drain[p].turn]
  /\ live' = [live EXCEPT ![drain[p].turn] = TRUE]
  /\ UNCHANGED <<status, attempts, owner, sent, drain, runs, direct, faults, stalled>>

-----------------------------------------------------------------------------
\* A run becomes terminal; its process drains the chat, unless it crashed or
\* the run was denied by a policy approval.
EndRun(p) ==
  /\ runs > 0
  /\ runs' = runs - 1
  /\ drain' \in {drain, DrainBegun(p)}
  /\ UNCHANGED <<rows, sent, direct, faults, stalled>>

\* A user's own start: the same check and commit, without a turn.
DirectCheck ==
  /\ direct.made < MaxDirect
  /\ runs = 0
  /\ direct' = [made |-> direct.made + 1, open |-> direct.open + 1]
  /\ UNCHANGED <<rows, sent, drain, runs, faults, stalled>>

DirectCreate ==
  /\ direct.open > 0
  /\ direct' = [direct EXCEPT !.open = @ - 1]
  /\ runs' = runs + 1
  /\ UNCHANGED <<rows, sent, drain, faults, stalled>>

-----------------------------------------------------------------------------
\* A lease nobody renews runs out.
ExpireAbandoned(t) ==
  /\ status[t] = "leased"
  /\ live[t]
  /\ owner[t] = None
  /\ live' = [live EXCEPT ![t] = FALSE]
  /\ UNCHANGED <<status, attempts, owner, sent, drain, runs, direct, faults, stalled>>

\* The drain that holds it is paused past 60 s, heartbeat and all.
Stall(t) ==
  /\ faults < MaxFaults
  /\ status[t] = "leased"
  /\ live[t]
  /\ owner[t] # None
  /\ live' = [live EXCEPT ![t] = FALSE]
  /\ faults' = faults + 1
  /\ stalled' = stalled \cup {t}
  /\ UNCHANGED <<status, attempts, owner, sent, drain, runs, direct>>

\* recordUsage or the finish throws after the run was started: the catch block
\* treats it as a failed start.
LateError(p) ==
  /\ faults < MaxFaults
  /\ drain[p].pc = "complete"
  /\ drain' = [drain EXCEPT ![p].pc = "reject"]
  /\ faults' = faults + 1
  /\ UNCHANGED <<rows, sent, runs, direct, stalled>>

\* The process dies, or the finish of the catch block throws as well; a claim is
\* rolled back.
Crash(p) ==
  /\ faults < MaxFaults
  /\ drain[p].pc \in Claiming \cup Working
  /\ drain' = [drain EXCEPT ![p] = NoDrain]
  /\ owner' = [t \in Turn |-> IF owner[t] = p THEN None ELSE owner[t]]
  /\ faults' = faults + 1
  /\ UNCHANGED <<status, attempts, live, sent, runs, direct, stalled>>

-----------------------------------------------------------------------------
DrainStep(p) ==
  \/ List(p) \/ ReadLeases(p) \/ Select(p) \/ SelectNothing(p) \/ Claim(p)
  \/ ClaimLost(p) \/ Check(p) \/ StartRejected(p)
  \/ Create(p) \/ Complete(p) \/ Reject(p)

Next ==
  \/ \E t \in Turn : Count(t) \/ Cancel(t) \/ ExpireAbandoned(t) \/ Stall(t)
  \/ \E t \in Turn, p \in Process : Insert(t, p)
  \/ \E p \in Process :
       Poll(p) \/ DrainStep(p) \/ Renew(p) \/ EndRun(p) \/ LateError(p) \/ Crash(p)
  \/ DirectCheck
  \/ DirectCreate

Spec == Init /\ [][Next]_vars

\* Steps of the server go on, runs end (their own jobs are recovered), time
\* passes, and a client that shows a waiting turn keeps polling.
Fairness ==
  /\ \A p \in Process : WF_vars(DrainStep(p)) /\ WF_vars(Poll(p))
  /\ WF_vars(\E p \in Process : EndRun(p))
  /\ WF_vars(DirectCreate)
  /\ \A t \in Turn : WF_vars(ExpireAbandoned(t))
  /\ \A t \in Turn : WF_vars(\E p \in Process : Insert(t, p))

FairSpec == Spec /\ Fairness

-----------------------------------------------------------------------------
\* A turn's message enters the chat once, and once more at most for each crash,
\* stall or late error of a drain: rejections, lost races against direct starts
\* and other drains never repeat it.
SentOncePerFault == \A t \in Turn : sent[t] <= 1 + faults

\* Retries are bounded: beyond the three attempts of the catch block a turn is
\* claimed again only for a lease that was lost.
AttemptsBounded == \A t \in Turn : attempts[t] <= AttemptLimit + faults

\* Turns start in the order they were asked for: while a drain is starting a
\* turn, every older turn that had a row when it was selected is settled, or has
\* lost its lease under a drain that was paused: that drain's renewal may bring
\* the lease back between the two reads of the claim.
StartedInOrder ==
  \A p \in Process : drain[p].pc \in {"check", "create"} =>
    \A u \in drain[p].before : status[u] \in Settled \/ u \in stalled

\* A turn whose lease never ran out under its drain is sent while it is leased,
\* never after the user has seen it cancelled, failed or completed.
SettledIsNotSent ==
  [][\A t \in Turn : t \notin stalled /\ sent'[t] # sent[t] => status[t] = "leased"]_vars

\* Every turn that waits is settled at last, whatever crashes, rejections and
\* competing starts come between.
TurnsSettle == \A t \in Turn : status[t] = "queued" ~> status[t] \in Settled

-----------------------------------------------------------------------------
\* (Refuted) "Never duplicate a user message during recovery." A crash, a stall
\* or a late error between the start and the finish sends the turn again.
TurnSentOnce == \A t \in Turn : sent[t] <= 1

\* (Refuted) "Prevent two active leases for the same chat." A renewal does not
\* look at the expiry, and an older turn can be inserted late.
OneLiveLease == Cardinality({t \in Turn : status[t] = "leased" /\ live[t]}) <= 1

\* (Refuted) "Make claim atomic and ordered per chat."  A drain that was paused
\* renews its lease between the two reads of a claim, which goes on with the next
\* turn.
ClaimsInOrder ==
  \A p \in Process : drain[p].pc \in {"check", "create"} =>
    \A u \in drain[p].before : status[u] \in Settled

\* (Refuted) "A chat can queue at most 20 turns." Two enqueues count at once.
QueueBound == Cardinality(Waiting) <= MaxQueue

\* (Refuted) "This chat is already generating a response." Two starts check at
\* once.
OneActiveRun == runs <= 1
=============================================================================
