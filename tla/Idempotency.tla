----------------------------- MODULE Idempotency -----------------------------
(***************************************************************************)
(* Commands called with an idempotency key: IdempotencyService.execute and *)
(* the row of idempotency_receipts it claims and finishes                  *)
(* (idempotency-repository.ts).                                            *)
(*                                                                         *)
(* All calls of the model use one key in one scope.  A call that owns the  *)
(* receipt does its work once, under the lease token of its claim, so a    *)
(* token names an execution.  The lease is never renewed.  A claim is a    *)
(* transaction under the scope's advisory lock, which finish does not take: *)
(* a takeover reads the receipt and writes it in two steps.  Calls answered *)
(* with a conflict, "in progress" or "failed" change nothing and are not   *)
(* actions.  Receipts are kept: deleteExpiredIdempotencyReceipts has no    *)
(* caller in the server.                                                   *)
(***************************************************************************)
EXTENDS Naturals, FiniteSets

CONSTANTS
  Call,      \* calls in progress at once; one that has returned may be made again
  Request,   \* request hashes
  None,
  MaxFaults  \* bound on crashes, lost answers and leases outlasted by work

ASSUME MaxFaultsAssumption == MaxFaults \in Nat
ASSUME NoneAssumption == None \notin Request

Token == 1 .. 1 + MaxFaults
NoToken == 0

VARIABLES
  receipt,   \* state, requestHash, leaseToken, whether the lease is live, body
  call,      \* of each call: where it is, its request and its token
  claims,    \* tokens given out
  executed,  \* executions of the command: token and request
  answered,  \* successful answers: token and request
  faults

vars == <<receipt, call, claims, executed, answered, faults>>

Execution == [token : Token, request : Request]
Idle == [pc |-> "idle", request |-> None, token |-> NoToken]

\* Types of the receipt and the calls.
TypeOK ==
  /\ receipt \in [state : {"absent", "in_progress", "completed", "failed"},
                  request : Request \cup {None}, token : Token \cup {NoToken},
                  live : BOOLEAN, body : Token \cup {NoToken}]
  /\ call \in [Call -> [pc : {"idle", "taking", "work", "worked", "failing"},
                        request : Request \cup {None}, token : Token \cup {NoToken}]]
  /\ claims \in 0 .. 1 + MaxFaults
  /\ executed \subseteq Execution
  /\ answered \subseteq Execution
  /\ faults \in 0 .. MaxFaults

Init ==
  /\ receipt = [state |-> "absent", request |-> None, token |-> NoToken,
                live |-> FALSE, body |-> NoToken]
  /\ call = [c \in Call |-> Idle]
  /\ claims = 0
  /\ executed = {}
  /\ answered = {}
  /\ faults = 0

-----------------------------------------------------------------------------
\* pg_advisory_xact_lock of the scope is free: no takeover is in its transaction.
Unlocked == \A c \in Call : call[c].pc # "taking"

\* claimIdempotencyReceipt finds no row and inserts one.
Claim(c, r) ==
  /\ call[c].pc = "idle"
  /\ Unlocked
  /\ receipt.state = "absent"
  /\ claims' = claims + 1
  /\ receipt' = [receipt EXCEPT !.state = "in_progress", !.request = r,
                                !.token = claims', !.live = TRUE]
  /\ call' = [call EXCEPT ![c] = [pc |-> "work", request |-> r, token |-> claims']]
  /\ UNCHANGED <<executed, answered, faults>>

\* (Mutant) A receipt in progress is taken over whatever its lease.
Expired_LiveLease(r) == receipt.state = "in_progress" /\ receipt.request = r

Expired(r) == receipt.state = "in_progress" /\ receipt.request = r /\ ~receipt.live

\* Or it reads one whose lease has expired.
ReadExpired(c, r) ==
  /\ call[c].pc = "idle"
  /\ Unlocked
  /\ Expired(r)
  /\ call' = [call EXCEPT ![c] = [pc |-> "taking", request |-> r, token |-> NoToken]]
  /\ UNCHANGED <<receipt, claims, executed, answered, faults>>

\* The UPDATE of that row, whatever its state is by now, and the commit.  No
\* condition reads the lease of a finished receipt.
TakeOver(c) ==
  /\ call[c].pc = "taking"
  /\ claims' = claims + 1
  /\ receipt' = [receipt EXCEPT !.token = claims', !.live = receipt.state = "in_progress"]
  /\ call' = [call EXCEPT ![c] = [pc |-> "work", request |-> call[c].request,
                                  token |-> claims']]
  /\ UNCHANGED <<executed, answered, faults>>

\* The stored response is returned.
Replay(c, r) ==
  /\ call[c].pc = "idle"
  /\ Unlocked
  /\ receipt.state = "completed"
  /\ receipt.request = r
  /\ answered' = answered \cup {[token |-> receipt.body, request |-> r]}
  /\ UNCHANGED <<receipt, call, claims, executed, faults>>

\* work() has its effect.
Work(c) ==
  /\ call[c].pc = "work"
  /\ executed' = executed \cup {[token |-> call[c].token, request |-> call[c].request]}
  /\ call' = [call EXCEPT ![c].pc = "worked"]
  /\ UNCHANGED <<receipt, claims, answered, faults>>

\* work() throws, before its effect or after it, or its answer is too large.
WorkThrows(c) ==
  /\ call[c].pc \in {"work", "worked"}
  /\ call' = [call EXCEPT ![c].pc = "failing"]
  /\ UNCHANGED <<receipt, claims, executed, answered, faults>>

\* (Mutant) The UPDATE does not compare the lease tokens.
Holds_AnyToken(c) == receipt.state = "in_progress"

\* (Mutant) The UPDATE does not ask for a receipt in progress, and the token is
\* kept when the receipt is finished.
Holds_AnyState(c) == receipt.token = call[c].token

\* The condition of finish: state and lease token, not the end of the lease.
Holds(c) == receipt.state = "in_progress" /\ receipt.token = call[c].token

\* What finish writes.  The token of a finished receipt is null in the code; no
\* condition reads it.
Finished(c, state) ==
  IF Holds(c)
  THEN [receipt EXCEPT !.state = state, !.live = FALSE,
          !.body = IF state = "completed" THEN call[c].token ELSE NoToken]
  ELSE receipt

\* completeIdempotencyReceipt, and the answer when it has written.
Complete(c) ==
  /\ call[c].pc = "worked"
  /\ receipt' = Finished(c, "completed")
  /\ IF Holds(c)
     THEN /\ answered' = answered \cup {[token |-> call[c].token, request |-> call[c].request]}
          /\ call' = [call EXCEPT ![c] = Idle]
     ELSE /\ call' = [call EXCEPT ![c].pc = "failing"]
          /\ UNCHANGED answered
  /\ UNCHANGED <<claims, executed, faults>>

\* (Mutant) A call that fails leaves its receipt in progress.
Fail_KeepsReceipt(c) ==
  /\ call[c].pc = "failing"
  /\ call' = [call EXCEPT ![c] = Idle]
  /\ UNCHANGED <<receipt, claims, executed, answered, faults>>

\* The catch block: failIdempotencyReceipt.
Fail(c) ==
  /\ call[c].pc = "failing"
  /\ receipt' = Finished(c, "failed")
  /\ call' = [call EXCEPT ![c] = Idle]
  /\ UNCHANGED <<claims, executed, answered, faults>>

-----------------------------------------------------------------------------
\* The calls that own the receipt, or have owned it.
Active == {c \in Call : call[c].pc \in {"work", "worked", "failing"}}

Holder == {c \in Active : call[c].token = receipt.token}

\* The lease of a call that is gone runs out after its 15 minutes.
ExpireAbandoned ==
  /\ receipt.live
  /\ Holder = {}
  /\ receipt' = [receipt EXCEPT !.live = FALSE]
  /\ UNCHANGED <<call, claims, executed, answered, faults>>

Fault == faults < MaxFaults /\ faults' = faults + 1

\* The work takes longer than its lease.
Outlast ==
  /\ Fault
  /\ receipt.live
  /\ Holder # {}
  /\ receipt' = [receipt EXCEPT !.live = FALSE]
  /\ UNCHANGED <<call, claims, executed, answered>>

\* completeIdempotencyReceipt rejects: its connection broke after the UPDATE
\* was committed, or before.
LoseCompletion(c) ==
  /\ Fault
  /\ call[c].pc = "worked"
  /\ receipt' \in {receipt, Finished(c, "completed")}
  /\ call' = [call EXCEPT ![c].pc = "failing"]
  /\ UNCHANGED <<claims, executed, answered>>

\* The process dies, or the audit log of the claim or the catch block throws.
Crash(c) ==
  /\ Fault
  /\ call[c].pc # "idle"
  /\ call' = [call EXCEPT ![c] = Idle]
  /\ UNCHANGED <<receipt, claims, executed, answered>>

-----------------------------------------------------------------------------
CallStep(c) == TakeOver(c) \/ Work(c) \/ WorkThrows(c) \/ Complete(c) \/ Fail(c)

Next ==
  \/ \E c \in Call, r \in Request : Claim(c, r) \/ ReadExpired(c, r) \/ Replay(c, r)
  \/ \E c \in Call : CallStep(c) \/ LoseCompletion(c) \/ Crash(c)
  \/ ExpireAbandoned
  \/ Outlast

Spec == Init /\ [][Next]_vars

\* A call that has begun goes on.
Fairness == \A c \in Call : WF_vars(CallStep(c))

FairSpec == Spec /\ Fairness

-----------------------------------------------------------------------------
Key == INSTANCE CommandOnce
  WITH open <- receipt.state \in {"absent", "in_progress"},
       outcome <- IF receipt.state = "completed"
                  THEN {[token |-> receipt.body, request |-> receipt.request]}
                  ELSE {}

\* The receipt keeps the promise of a key, through crashes, takeovers, late
\* completions and completions whose answer was lost.
ImplementsKey == Key!Spec

\* A receipt is completed with the answer of the call that owns it at that moment,
\* not of one it was taken over from.  It is taken over once more at most, by a
\* call that had read it before: at most one call works for nothing.
CompletedByOwner ==
  [][/\ receipt.state # "completed" /\ receipt'.state = "completed" => receipt'.body = claims
     /\ receipt.state = "completed" => claims' <= receipt.body + 1]_vars

\* The command is executed for one request, the one that has claimed the key, and
\* again only for a crash, a lost answer or a lease that was outlasted: callers at
\* once and errors of the work never repeat it.
ExecutedOncePerFault ==
  /\ \A e \in executed : e.request = receipt.request
  /\ Cardinality(executed) <= 1 + faults

\* Without faults a receipt does not stay in progress: every error reaches it.
FaultFreeSettles ==
  [](faults = 0) => (receipt.state = "in_progress" ~> receipt.state # "in_progress")

-----------------------------------------------------------------------------
\* (Refuted) "The durable claim prevents concurrent duplicate owners": work that
\* takes longer than 15 minutes is joined by the one that takes over.
OneOwner == Cardinality({c \in Call : call[c].pc = "work"}) <= 1

\* (Refuted) "preventing an expired worker from publishing over a takeover": it may
\* publish between the read and the write of the takeover, whose call works for
\* nothing.
CompletedByLastOwner == receipt.state = "completed" => receipt.body = claims

\* (Refuted) "The prior idempotent request reached a terminal failure. Use a new
\* key.": the failed request may have had its effect, and repeats it.
FailedHadNoEffect == receipt.state = "failed" => executed = {}
=============================================================================
