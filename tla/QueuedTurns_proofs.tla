-------------------------- MODULE QueuedTurns_proofs --------------------------
(***************************************************************************)
(* For any number of processes, turns, attempts, direct starts and faults: *)
(* how often a turn is sent and claimed, in which order, and that a settled *)
(* turn is not sent.                                                       *)
(***************************************************************************)
EXTENDS QueuedTurns, FiniteSetTheorems, TLAPS

USE MaxTurnsAssumption, MaxQueueAssumption, AttemptLimitAssumption,
    MaxDirectAssumption, MaxFaultsAssumption, NoneAssumption

DrainType ==
  [pc : {"idle", "list", "claim"} \cup Claiming \cup Working,
   turn : Turn \cup {NoTurn}, before : SUBSET Turn]

\* A direct start that has checked was counted.
CountersAgree == direct.open <= direct.made

\* A lease somebody knows the token of is held by a drain at work on the turn.
OwnersWork ==
  \A t \in Turn : owner[t] # None =>
    /\ status[t] = "leased"
    /\ drain[owner[t]].turn = t
    /\ drain[owner[t]].pc \in Working

WorkHasTurn ==
  \A p \in Process : drain[p].pc \in {"update"} \cup Working => drain[p].turn \in Turn

\* The lease may be taken over, now or when it has run out.
Lapsed(t) == status[t] = "leased" /\ (~live[t] \/ owner[t] = None)

\* The start of a turn is still to come: from a row that is not claimed yet, or
\* from a lease that has lapsed.
Waits(t) ==
  IF status[t] \in {"absent", "counted", "queued"} \/ Lapsed(t) THEN 1 ELSE 0

\* Or from a drain that is about to start it, or to give it back.
Starters(t) ==
  {p \in Process : /\ drain[p].turn = t
                   /\ \/ drain[p].pc \in {"check", "create"}
                      \/ drain[p].pc = "reject" /\ Holds(p)}

\* Every start made or to come beyond the first one has cost a fault.
StartsArePaid ==
  \A t \in Turn : /\ IsFiniteSet(Starters(t))
                  /\ sent[t] + Cardinality(Starters(t)) + Waits(t) <= 1 + faults

\* Every claim beyond the attempts of the catch block has.
ClaimsArePaid ==
  \A t \in Turn :
    /\ status[t] \in {"absent", "counted", "queued"} => attempts[t] < AttemptLimit
    /\ attempts[t] + (IF Lapsed(t) THEN 1 ELSE 0) <= AttemptLimit + faults

\* Where no lease ran out under a drain, those at work hold theirs, and a lease
\* that has run out is nobody's.
UnstalledHold ==
  /\ \A p \in Process : drain[p].pc \in Working => Holds(p) \/ drain[p].turn \in stalled
  /\ \A t \in Turn : status[t] = "leased" /\ ~live[t] => owner[t] = None \/ t \in stalled

\* The lock admits one claim at a time.  A lease it did not see live, and is live
\* now, was renewed by a drain that had been paused.
ClaimAlone ==
  /\ \A p, q \in Process : drain[p].pc \in Claiming /\ drain[q].pc \in Claiming => p = q
  /\ \A p \in Process : drain[p].pc = "select" =>
       \A t \in Turn : status[t] = "leased" /\ live[t] => t \in stalled

\* The order holds from the time the turn is selected.
SelectedInOrder ==
  \A p \in Process : drain[p].pc \in {"update", "check", "create"} =>
    \A u \in drain[p].before : status[u] \in Settled \/ u \in stalled

\* The inductive invariant.
QueueInv ==
  /\ TypeOK
  /\ CountersAgree
  /\ OwnersWork
  /\ WorkHasTurn
  /\ StartsArePaid
  /\ ClaimsArePaid
  /\ UnstalledHold
  /\ ClaimAlone
  /\ SelectedInOrder

-----------------------------------------------------------------------------
\* The types, and what ties the drains to the leases.
TypeInv == TypeOK /\ CountersAgree /\ OwnersWork /\ WorkHasTurn

StatusType == {"absent", "counted", "queued", "leased"} \cup Settled
Busy == Claiming \cup Working
Same(p) == \A q \in Process : q # p => drain'[q] = drain[q]

LEMMA Types ==
  ASSUME TypeOK
  PROVE  /\ drain \in [Process -> DrainType]
         /\ status \in [Turn -> StatusType]
         /\ owner \in [Turn -> Process \cup {None}]
         /\ live \in [Turn -> BOOLEAN]
         /\ attempts \in [Turn -> Nat]
         /\ sent \in [Turn -> Nat]
  BY DEF TypeOK, DrainType, StatusType

LEMMA DrainMoves ==
  ASSUME TypeOK, NEW p \in Process, NEW v \in DrainType, drain' = [drain EXCEPT ![p] = v]
  PROVE  /\ drain' \in [Process -> DrainType]
         /\ drain'[p] = v
         /\ Same(p)
  BY Types DEF Same

\* The steps that concern neither a lease nor a drain at work.
Quiet ==
  \/ \E t \in Turn : Count(t)
  \/ \E t \in Turn, p \in Process : Insert(t, p)
  \/ \E p \in Process : Poll(p) \/ List(p) \/ EndRun(p)
  \/ DirectCheck
  \/ DirectCreate
  \/ UNCHANGED vars

LEMMA BegunFacts ==
  ASSUME TypeOK, NEW p \in Process, drain' \in {drain, DrainBegun(p)}
  PROVE  /\ drain' \in [Process -> DrainType]
         /\ \A q \in Process : \/ drain'[q] = drain[q]
                               \/ drain[q].pc \notin Busy /\ drain'[q].pc \notin Busy
<1> DEFINE v == [drain[p] EXCEPT !.pc = "list"]
<1>0. drain[p] \in DrainType
  BY Types
<1>1. v \in DrainType /\ v.pc = "list"
  BY <1>0 DEF DrainType
<1>2. CASE drain' = drain
  BY <1>2, Types
<1>3. CASE drain' # drain
  <2>1. drain[p].pc = "idle" /\ drain' = [drain EXCEPT ![p] = v]
    BY <1>3, Types DEF DrainBegun
  <2> HIDE DEF v
  <2>2. drain' \in [Process -> DrainType] /\ drain'[p] = v /\ Same(p)
    BY <1>1, <2>1, DrainMoves
  <2> QED BY <1>1, <2>1, <2>2 DEF Same, Busy, Claiming, Working
<1> QED BY <1>2, <1>3

LEMMA QuietFacts ==
  ASSUME TypeInv, Quiet
  PROVE  /\ TypeInv'
         /\ UNCHANGED <<attempts, owner, live, sent, faults, stalled>>
         /\ \A q \in Process : \/ drain'[q] = drain[q]
                               \/ drain[q].pc \notin Busy /\ drain'[q].pc \notin Busy
         /\ \A t \in Turn : \/ status'[t] = status[t]
                            \/ /\ status[t] \in {"absent", "counted"}
                               /\ status'[t] \in {"counted", "queued"}
<1>1. UNCHANGED <<attempts, owner, live, sent, faults, stalled>>
  BY DEF Quiet, Count, Insert, Poll, List, EndRun, DirectCheck,
         DirectCreate, vars, rows
<1>2. /\ status' \in [Turn -> StatusType]
      /\ \A t \in Turn : \/ status'[t] = status[t]
                         \/ /\ status[t] \in {"absent", "counted"}
                            /\ status'[t] \in {"counted", "queued"}
  <2>1. CASE UNCHANGED status
    BY <2>1, Types DEF TypeInv
  <2>2. ASSUME NEW t \in Turn, Count(t)
        PROVE  status[t] = "absent" /\ status' = [status EXCEPT ![t] = "counted"]
    BY <2>2 DEF Count
  <2>3. ASSUME NEW t \in Turn, NEW p \in Process, Insert(t, p)
        PROVE  status[t] = "counted" /\ status' = [status EXCEPT ![t] = "queued"]
    BY <2>3 DEF Insert
  <2>4. CASE ~UNCHANGED status
    <3>1. \/ \E t \in Turn : Count(t)
          \/ \E t \in Turn, p \in Process : Insert(t, p)
      BY <2>4 DEF Quiet, Poll, List, EndRun, DirectCheck, DirectCreate,
                  vars, rows
    <3>2. PICK t \in Turn, old \in {"absent", "counted"}, new \in {"counted", "queued"} :
            status[t] = old /\ status' = [status EXCEPT ![t] = new]
      BY <2>2, <2>3, <3>1
    <3>3. new \in StatusType
      BY DEF StatusType
    <3> QED BY <3>2, <3>3, Types DEF TypeInv
  <2> QED BY <2>1, <2>4
<1>3. /\ drain' \in [Process -> DrainType]
      /\ \A q \in Process : \/ drain'[q] = drain[q]
                            \/ drain[q].pc \notin Busy /\ drain'[q].pc \notin Busy
  <2>1. ASSUME NEW p \in Process, List(p)
        PROVE  /\ drain' \in [Process -> DrainType] /\ Same(p)
               /\ drain[p].pc \notin Busy /\ drain'[p].pc \notin Busy
    <3> DEFINE v == [drain[p] EXCEPT !.pc = IF runs > 0 THEN "idle" ELSE "claim"]
    <3>0. drain[p] \in DrainType
      BY Types DEF TypeInv
    <3>1. /\ v \in DrainType /\ v.pc \in {"idle", "claim"}
          /\ drain' = [drain EXCEPT ![p] = v] /\ drain[p].pc = "list"
      BY <2>1, <3>0 DEF List, DrainType
    <3> HIDE DEF v
    <3> QED BY <3>1, DrainMoves DEF TypeInv, Busy, Claiming, Working
  <2>3. ASSUME NEW p \in Process, Poll(p) \/ EndRun(p) \/ \E t \in Turn : Insert(t, p)
        PROVE  drain' \in {drain, DrainBegun(p)}
    BY <2>3 DEF Poll, EndRun, Insert
  <2>4. CASE (\E t \in Turn : Count(t)) \/ DirectCheck \/ DirectCreate \/ UNCHANGED vars
    <3>1. drain' = drain
      BY <2>4 DEF Count, DirectCheck, DirectCreate, vars
    <3> QED BY <3>1, Types DEF TypeInv
  <2> QED BY <2>1, <2>3, <2>4, BegunFacts DEF Quiet, TypeInv, Same
<1>4. /\ runs' \in Nat /\ direct' \in [made : 0 .. MaxDirect, open : 0 .. MaxDirect]
      /\ direct'.open <= direct'.made
  <2>0. /\ runs \in Nat
        /\ direct \in [made : 0 .. MaxDirect, open : 0 .. MaxDirect]
        /\ direct.open <= direct.made
    BY DEF TypeInv, TypeOK, CountersAgree
  <2>1. CASE DirectCheck
    BY <2>0, <2>1 DEF DirectCheck
  <2>2. CASE DirectCreate
    BY <2>0, <2>2 DEF DirectCreate
  <2>3. ASSUME NEW p \in Process, EndRun(p)
        PROVE  direct' = direct /\ runs' \in Nat
    BY <2>0, <2>3 DEF EndRun
  <2>4. ASSUME NEW t \in Turn, NEW p \in Process, Insert(t, p)
        PROVE  direct' = direct /\ runs' = runs
    BY <2>4 DEF Insert
  <2>5. ASSUME NEW t \in Turn, Count(t) PROVE direct' = direct /\ runs' = runs
    BY <2>5 DEF Count
  <2>6. ASSUME NEW p \in Process, Poll(p) \/ List(p)
        PROVE  direct' = direct /\ runs' = runs
    BY <2>6 DEF Poll, List
  <2>7. CASE UNCHANGED vars
    BY <2>0, <2>7 DEF vars
  <2> QED BY <2>0, <2>1, <2>2, <2>3, <2>4, <2>5, <2>6, <2>7 DEF Quiet
<1>5. TypeOK'
  BY <1>1, <1>2, <1>3, <1>4 DEF TypeInv, TypeOK, DrainType, StatusType
<1>6. OwnersWork'
  BY <1>1, <1>2, <1>3, Types DEF TypeInv, OwnersWork, Busy
<1>7. WorkHasTurn'
  BY <1>3 DEF TypeInv, WorkHasTurn, Busy, Claiming
<1> QED BY <1>1, <1>2, <1>3, <1>4, <1>5, <1>6, <1>7 DEF TypeInv, CountersAgree

\* The steps that change a lease, or a drain at work: what becomes of the row of
\* the turn and of the drain, and the types.
OtherRows(t) ==
  \A u \in Turn : u # t =>
    /\ status'[u] = status[u] /\ owner'[u] = owner[u]
    /\ live'[u] = live[u] /\ attempts'[u] = attempts[u]

LEMMA CancelFacts ==
  ASSUME TypeInv, NEW t \in Turn, Cancel(t)
  PROVE  /\ TypeInv' /\ OtherRows(t)
         /\ UNCHANGED <<attempts, sent, drain, faults, stalled>>
         /\ status[t] \in {"queued", "failed"} /\ status'[t] = "cancelled"
         /\ owner'[t] = None /\ live'[t] = FALSE
<1>1. /\ UNCHANGED <<attempts, sent, drain, runs, direct, faults, stalled>>
      /\ status' \in [Turn -> StatusType] /\ owner' \in [Turn -> Process \cup {None}]
      /\ live' \in [Turn -> BOOLEAN]
  BY Types DEF Cancel, TypeInv, StatusType, Settled
<1>2. /\ status[t] \in {"queued", "failed"} /\ status'[t] = "cancelled"
      /\ owner'[t] = None /\ live'[t] = FALSE /\ OtherRows(t)
  BY <1>1, Types DEF Cancel, TypeInv, OtherRows
<1>3. TypeOK' /\ CountersAgree'
  BY <1>1 DEF TypeInv, TypeOK, StatusType, CountersAgree
<1>4. OwnersWork' /\ WorkHasTurn'
  BY <1>1, <1>2 DEF TypeInv, OwnersWork, WorkHasTurn, OtherRows
<1> QED BY <1>1, <1>2, <1>3, <1>4 DEF TypeInv

\* A lease that is renewed, runs out, or would have been renewed.
LEMMA LeaseFacts ==
  ASSUME TypeInv, NEW t \in Turn,
         \/ ExpireAbandoned(t)
         \/ Stall(t)
         \/ \E p \in Process : Renew(p) /\ t = drain[p].turn
  PROVE  /\ TypeInv' /\ OtherRows(t)
         /\ UNCHANGED <<attempts, status, owner, sent, drain>>
         /\ status[t] = "leased"
         /\ \/ ExpireAbandoned(t) /\ owner[t] = None /\ UNCHANGED <<faults, stalled>>
            \/ Stall(t) /\ faults' = faults + 1 /\ stalled' = stalled \cup {t}
            \/ live'[t] = TRUE /\ owner[t] # None /\ UNCHANGED <<faults, stalled>>
<1>1. /\ UNCHANGED <<attempts, status, owner, sent, drain, runs, direct>>
      /\ \/ live' = [live EXCEPT ![t] = FALSE]
         \/ live' = [live EXCEPT ![t] = TRUE]
      /\ status[t] = "leased"
  BY DEF ExpireAbandoned, Stall, Renew, Holds
<1>2. live' \in [Turn -> BOOLEAN] /\ OtherRows(t)
  BY <1>1, Types DEF TypeInv, OtherRows
<1>3. \/ ExpireAbandoned(t) /\ owner[t] = None /\ UNCHANGED <<faults, stalled>>
      \/ Stall(t) /\ faults' = faults + 1 /\ stalled' = stalled \cup {t}
      \/ live'[t] = TRUE /\ owner[t] # None /\ UNCHANGED <<faults, stalled>>
  <2>1. ASSUME NEW p \in Process, Renew(p), t = drain[p].turn
        PROVE  live'[t] = TRUE /\ owner[t] # None /\ UNCHANGED <<faults, stalled>>
    BY <2>1, Types DEF Renew, Holds, TypeInv
  <2> QED BY <2>1 DEF ExpireAbandoned, Stall
<1>4. faults' \in 0 .. MaxFaults /\ stalled' \subseteq Turn
  BY <1>3 DEF TypeInv, TypeOK, Stall
<1>5. TypeOK'
  BY <1>1, <1>2, <1>4 DEF TypeInv, TypeOK
<1>6. CountersAgree'
  BY <1>1 DEF TypeInv, CountersAgree
<1>7. OwnersWork' /\ WorkHasTurn'
  BY <1>1 DEF TypeInv, OwnersWork, WorkHasTurn
<1> QED BY <1>1, <1>2, <1>3, <1>5, <1>6, <1>7 DEF TypeInv

\* A claim's two reads, and its end without a lease.
Seek(p) == ReadLeases(p) \/ Select(p) \/ SelectNothing(p) \/ ClaimLost(p)

LEMMA SeekFacts ==
  ASSUME TypeInv, NEW p \in Process, Seek(p)
  PROVE  /\ TypeInv' /\ Same(p)
         /\ UNCHANGED <<rows, sent, faults, stalled>>
         /\ drain[p].pc \notin Working
         /\ \/ drain'[p] = NoDrain
            \/ /\ drain'[p].pc = "select" /\ Unlocked /\ ~LiveLease
            \/ /\ drain[p].pc = "select" /\ drain'[p].pc = "update"
               /\ \A u \in drain'[p].before :
                    u \in Turn /\ (status[u] \in Settled \/ (status[u] = "leased" /\ live[u]))
<1>1. /\ UNCHANGED <<rows, sent, runs, direct, faults, stalled>>
      /\ drain[p].pc \in {"claim", "select", "update"} /\ drain[p] \in DrainType
  BY Types DEF Seek, ReadLeases, Select, SelectNothing, ClaimLost, TypeInv
<1>2. NoDrain \in DrainType /\ NoDrain.pc = "idle"
  BY DEF NoDrain, DrainType
<1>3. \E v \in DrainType :
        /\ drain' = [drain EXCEPT ![p] = v]
        /\ v.pc = "update" => v.turn \in Turn
        /\ \/ v = NoDrain
           \/ v.pc = "select" /\ Unlocked /\ ~LiveLease
           \/ /\ drain[p].pc = "select" /\ v.pc = "update"
              /\ \A u \in v.before :
                   u \in Turn /\ (status[u] \in Settled \/ (status[u] = "leased" /\ live[u]))
  <2>1. CASE ReadLeases(p) /\ ~LiveLease
    <3> DEFINE v == [drain[p] EXCEPT !.pc = "select"]
    <3>1. v \in DrainType /\ v.pc = "select" /\ drain' = [drain EXCEPT ![p] = v]
      BY <1>1, <2>1 DEF ReadLeases, DrainType, Claiming
    <3> HIDE DEF v
    <3> QED BY <2>1, <3>1 DEF ReadLeases
  <2>2. CASE SelectNothing(p) \/ ClaimLost(p) \/ (ReadLeases(p) /\ LiveLease)
    <3>1. drain' = [drain EXCEPT ![p] = NoDrain]
      BY <2>2 DEF SelectNothing, ClaimLost, ReadLeases
    <3> QED BY <1>2, <3>1
  <2>3. CASE Select(p)
    <3>1. PICK t \in Turn :
            /\ \A u \in Turn : Claimable(u) => t <= u
            /\ drain' = [drain EXCEPT ![p] =
                 [pc |-> "update", turn |-> t,
                  before |-> {u \in 1 .. t - 1 : status[u] \notin {"absent", "counted"}}]]
      BY <2>3 DEF Select
    <3> DEFINE before == {u \in 1 .. t - 1 : status[u] \notin {"absent", "counted"}}
               v == [pc |-> "update", turn |-> t, before |-> before]
    <3>2. \A u \in before :
            u \in Turn /\ (status[u] \in Settled \/ (status[u] = "leased" /\ live[u]))
      <4> SUFFICES ASSUME NEW u \in 1 .. t - 1, status[u] \notin {"absent", "counted"}
                   PROVE  u \in Turn /\ (status[u] \in Settled \/ (status[u] = "leased" /\ live[u]))
        OBVIOUS
      <4>1. u \in Turn /\ ~(t <= u)
        BY <3>1 DEF Turn
      <4>2. status[u] \in StatusType /\ live[u] \in BOOLEAN /\ ~Claimable(u)
        BY <3>1, <4>1, Types DEF TypeInv
      <4>3. ~(status[u] = "queued") /\ (status[u] = "leased" => live[u])
        BY <4>2 DEF Claimable
      <4> QED BY <4>1, <4>2, <4>3 DEF StatusType
    <3> HIDE DEF before
    <3>3. v \in DrainType /\ v.pc = "update" /\ v.turn = t /\ v.before = before
          /\ drain' = [drain EXCEPT ![p] = v]
      BY <3>1, <3>2 DEF DrainType, Claiming, before
    <3> HIDE DEF v
    <3>4. drain[p].pc = "select"
      BY <2>3 DEF Select
    <3> QED BY <3>2, <3>3, <3>4
  <2> QED BY <2>1, <2>2, <2>3 DEF Seek
<1>4. PICK v \in DrainType :
        /\ drain' = [drain EXCEPT ![p] = v]
        /\ v.pc = "update" => v.turn \in Turn
        /\ \/ v = NoDrain
           \/ v.pc = "select" /\ Unlocked /\ ~LiveLease
           \/ /\ drain[p].pc = "select" /\ v.pc = "update"
              /\ \A u \in v.before :
                   u \in Turn /\ (status[u] \in Settled \/ (status[u] = "leased" /\ live[u]))
  BY <1>3
<1>5. drain' \in [Process -> DrainType] /\ drain'[p] = v /\ Same(p)
  BY <1>4, DrainMoves DEF TypeInv
<1>6. drain[p].pc \notin Working /\ v.pc \notin Working
  BY <1>1, <1>2, <1>4 DEF Working
<1>7. TypeOK' /\ CountersAgree'
  BY <1>1, <1>5 DEF TypeInv, TypeOK, CountersAgree, DrainType, rows
<1>8. WorkHasTurn'
  BY <1>4, <1>5, <1>6 DEF TypeInv, WorkHasTurn, Same
<1>9. OwnersWork'
  <2>1. \A u \in Turn : owner[u] # p
    BY <1>6, NoneAssumption DEF TypeInv, OwnersWork
  <2> QED BY <1>1, <1>5, <2>1, Types DEF TypeInv, OwnersWork, Same, rows
<1> QED BY <1>1, <1>4, <1>5, <1>6, <1>7, <1>8, <1>9 DEF TypeInv

LEMMA ClaimFacts ==
  ASSUME TypeInv, NEW p \in Process, Claim(p)
  PROVE  /\ TypeInv' /\ Same(p)
         /\ UNCHANGED <<sent, faults, stalled>>
         /\ drain[p].pc = "update" /\ drain'[p].pc = "check"
         /\ drain'[p].before = drain[p].before
         /\ \E t \in Turn :
              /\ OtherRows(t) /\ drain'[p].turn = t
              /\ Claimable(t)
              /\ status'[t] = "leased" /\ owner'[t] = p /\ live'[t] = TRUE
              /\ attempts'[t] = attempts[t] + 1
<1> DEFINE t == drain[p].turn
<1>1. /\ drain[p].pc = "update" /\ Claimable(t)
      /\ status' = [status EXCEPT ![t] = "leased"]
      /\ attempts' = [attempts EXCEPT ![t] = @ + 1]
      /\ owner' = [owner EXCEPT ![t] = p]
      /\ live' = [live EXCEPT ![t] = TRUE]
      /\ drain' = [drain EXCEPT ![p].pc = "check"]
      /\ UNCHANGED <<sent, runs, direct, faults, stalled>>
  BY DEF Claim
<1>2. t \in Turn /\ drain[p] \in DrainType
  BY <1>1, Types DEF TypeInv, WorkHasTurn
<1>3. Claimable(t)
  BY <1>1
<1> DEFINE v == [drain[p] EXCEPT !.pc = "check"]
<1>4. v \in DrainType /\ v.pc = "check" /\ v.turn = t /\ v.before = drain[p].before
      /\ drain' = [drain EXCEPT ![p] = v]
  BY <1>1, <1>2 DEF DrainType, Working
<1> HIDE DEF v, t
<1>5. drain' \in [Process -> DrainType] /\ drain'[p] = v /\ Same(p)
  BY <1>4, DrainMoves DEF TypeInv
<1>6. /\ status' \in [Turn -> StatusType] /\ owner' \in [Turn -> Process \cup {None}]
      /\ live' \in [Turn -> BOOLEAN] /\ attempts' \in [Turn -> Nat]
  BY <1>1, <1>2, Types DEF TypeInv, StatusType
<1>7. /\ OtherRows(t) /\ status'[t] = "leased" /\ owner'[t] = p /\ live'[t] = TRUE
      /\ attempts'[t] = attempts[t] + 1
  BY <1>1, <1>2, Types DEF TypeInv, OtherRows
<1>8. TypeOK' /\ CountersAgree'
  BY <1>1, <1>5, <1>6 DEF TypeInv, TypeOK, CountersAgree, DrainType, StatusType
<1>9. OwnersWork' /\ WorkHasTurn'
  <2>1. drain[p].pc \notin Working /\ v.pc \in Working
    BY <1>1, <1>4 DEF Working
  <2>2. WorkHasTurn'
    BY <1>2, <1>4, <1>5 DEF TypeInv, WorkHasTurn, Same
  <2> QED BY <1>4, <1>5, <1>7, <2>1, <2>2, Types DEF TypeInv, OwnersWork, Same, OtherRows
<1> QED BY <1>1, <1>2, <1>3, <1>4, <1>5, <1>7, <1>8, <1>9 DEF TypeInv

\* A drain that goes on with its turn, and touches no row.
LEMMA WorkFacts ==
  ASSUME TypeInv, NEW p \in Process,
         Check(p) \/ StartRejected(p) \/ Create(p) \/ LateError(p)
  PROVE  /\ TypeInv' /\ Same(p)
         /\ UNCHANGED <<status, attempts, owner, live, stalled>>
         /\ drain'[p].turn = drain[p].turn /\ drain'[p].before = drain[p].before
         /\ drain[p].turn \in Turn
         /\ \/ /\ drain[p].pc \in {"check", "create"}
               /\ drain'[p].pc \in {"create", "reject"}
               /\ UNCHANGED <<sent, faults>>
            \/ /\ drain[p].pc = "create" /\ drain'[p].pc = "complete"
               /\ sent' = [sent EXCEPT ![drain[p].turn] = @ + 1]
               /\ UNCHANGED faults
            \/ /\ drain[p].pc = "complete" /\ drain'[p].pc = "reject"
               /\ faults' = faults + 1
               /\ UNCHANGED sent
<1>0. drain[p] \in DrainType /\ runs \in Nat /\ faults \in 0 .. MaxFaults
  BY Types DEF TypeInv, TypeOK
<1>1. PICK pc \in {"create", "reject", "complete"} : drain' = [drain EXCEPT ![p].pc = pc]
  BY DEF Check, StartRejected, Create, LateError
<1> DEFINE v == [drain[p] EXCEPT !.pc = pc]
<1>2. /\ v \in DrainType /\ v.pc = pc /\ v.turn = drain[p].turn
      /\ v.before = drain[p].before /\ drain' = [drain EXCEPT ![p] = v]
  BY <1>0, <1>1 DEF DrainType, Working
<1> HIDE DEF v
<1>3. drain' \in [Process -> DrainType] /\ drain'[p] = v /\ Same(p)
  BY <1>2, DrainMoves DEF TypeInv
<1>4. drain[p].pc \in {"check", "create", "complete"} /\ drain[p].turn \in Turn
  BY DEF Check, StartRejected, Create, LateError, TypeInv, WorkHasTurn, Working
<1>5. UNCHANGED <<status, attempts, owner, live, direct, stalled>>
  BY DEF Check, StartRejected, Create, LateError, rows
<1>6. \/ /\ drain[p].pc \in {"check", "create"}
         /\ pc \in {"create", "reject"}
         /\ UNCHANGED <<sent, faults, runs>>
      \/ /\ drain[p].pc = "create" /\ pc = "complete"
         /\ sent' = [sent EXCEPT ![drain[p].turn] = @ + 1]
         /\ UNCHANGED faults /\ runs' = runs + 1
      \/ /\ drain[p].pc = "complete" /\ pc = "reject"
         /\ faults < MaxFaults /\ faults' = faults + 1
         /\ UNCHANGED <<sent, runs>>
  <2>1. drain'[p].pc = pc
    BY <1>2, <1>3
  <2>2. Check(p) => pc \in {"create", "reject"}
    BY <1>0, <2>1, Types DEF Check, TypeInv, DrainType
  <2>3. StartRejected(p) => pc = "reject"
    BY <1>0, <2>1, Types DEF StartRejected, TypeInv, DrainType
  <2>4. Create(p) => pc = "complete"
    BY <1>0, <2>1, Types DEF Create, TypeInv, DrainType
  <2>5. LateError(p) => pc = "reject"
    BY <1>0, <2>1, Types DEF LateError, TypeInv, DrainType
  <2> QED BY <2>2, <2>3, <2>4, <2>5 DEF Check, StartRejected, Create, LateError
<1>7. sent' \in [Turn -> Nat] /\ runs' \in Nat /\ faults' \in 0 .. MaxFaults
  BY <1>0, <1>4, <1>6, Types DEF TypeInv
<1>8. TypeOK'
  BY <1>3, <1>5, <1>7 DEF TypeInv, TypeOK, DrainType
<1>9. CountersAgree'
  BY <1>0, <1>5, <1>6 DEF TypeInv, CountersAgree, TypeOK
<1>10. OwnersWork' /\ WorkHasTurn'
  <2>1. v.pc \in Working
    BY <1>2 DEF Working
  <2>2. WorkHasTurn'
    BY <1>2, <1>3, <1>4 DEF TypeInv, WorkHasTurn, Same
  <2>3. OwnersWork'
    BY <1>2, <1>3, <1>5, <2>1, Types DEF TypeInv, OwnersWork, Same
  <2> QED BY <2>2, <2>3
<1> QED BY <1>2, <1>3, <1>4, <1>5, <1>6, <1>8, <1>9, <1>10 DEF TypeInv

\* A drain that is done with its turn.
LEMMA FinishFacts ==
  ASSUME TypeInv, NEW p \in Process, NEW t, t = drain[p].turn, Complete(p) \/ Reject(p)
  PROVE  /\ TypeInv' /\ Same(p)
         /\ UNCHANGED <<attempts, sent, faults, stalled>>
         /\ t \in Turn /\ drain'[p] = NoDrain
         /\ \/ ~Holds(p) /\ UNCHANGED rows
            \/ /\ Holds(p) /\ OtherRows(t) /\ owner'[t] = None
               /\ \/ drain[p].pc = "complete" /\ status'[t] = "completed"
                  \/ drain[p].pc = "reject" /\ status'[t] = "failed"
                  \/ /\ drain[p].pc = "reject" /\ status'[t] = "queued"
                     /\ attempts[t] < AttemptLimit
<1>1. /\ drain[p].pc \in {"complete", "reject"}
      /\ drain' = [drain EXCEPT ![p] = NoDrain]
      /\ UNCHANGED <<attempts, sent, runs, direct, faults, stalled>>
  BY DEF Complete, Reject, Finish, rows
<1>2. t \in Turn /\ attempts[t] \in Nat
  BY <1>1, Types DEF TypeInv, WorkHasTurn, Working
<1>3. NoDrain \in DrainType /\ NoDrain.pc = "idle"
  BY DEF NoDrain, DrainType
<1>4. drain' \in [Process -> DrainType] /\ drain'[p] = NoDrain /\ Same(p)
  BY <1>1, <1>3, DrainMoves DEF TypeInv
<1>5. CASE ~Holds(p)
  <2>1. UNCHANGED rows
    BY <1>5 DEF Complete, Reject, Finish
  <2>2. TypeOK' /\ CountersAgree'
    BY <1>1, <1>4, <2>1 DEF TypeInv, TypeOK, CountersAgree, DrainType, rows
  <2>3. OwnersWork'
    <3>1. \A u \in Turn : owner[u] # p
      BY <1>5 DEF TypeInv, OwnersWork, Holds
    <3> QED BY <1>4, <2>1, <3>1, Types DEF TypeInv, OwnersWork, Same, rows
  <2>4. WorkHasTurn'
    BY <1>3, <1>4 DEF TypeInv, WorkHasTurn, Same, Working
  <2> QED BY <1>1, <1>2, <1>4, <1>5, <2>1, <2>2, <2>3, <2>4 DEF TypeInv
<1>6. CASE Holds(p)
  <2>1. PICK outcome \in {"completed", "failed", "queued"} :
          /\ status' = [status EXCEPT ![t] = outcome]
          /\ owner' = [owner EXCEPT ![t] = None]
          /\ live' = [live EXCEPT ![t] = FALSE]
          /\ \/ drain[p].pc = "complete" /\ outcome = "completed"
             \/ drain[p].pc = "reject" /\ outcome = "failed"
             \/ /\ drain[p].pc = "reject" /\ outcome = "queued"
                /\ ~(attempts[t] >= AttemptLimit)
    <3>1. CASE Complete(p)
      BY <1>6, <3>1 DEF Complete, Finish
    <3>2. CASE Reject(p)
      BY <1>6, <3>2 DEF Reject, Finish, AfterRejection
    <3> QED BY <3>1, <3>2
  <2>2. outcome \in StatusType
    BY DEF StatusType, Settled
  <2>3. /\ status' \in [Turn -> StatusType] /\ owner' \in [Turn -> Process \cup {None}]
        /\ live' \in [Turn -> BOOLEAN]
        /\ status'[t] = outcome /\ owner'[t] = None /\ OtherRows(t)
    BY <1>1, <1>2, <2>1, <2>2, Types DEF TypeInv, OtherRows
  <2>4. TypeOK' /\ CountersAgree'
    BY <1>1, <1>4, <2>3 DEF TypeInv, TypeOK, CountersAgree, DrainType, StatusType
  <2>5. OwnersWork'
    <3>1. \A u \in Turn : owner[u] = p => u = t
      BY NoneAssumption DEF TypeInv, OwnersWork
    <3> QED BY <1>2, <1>4, <2>3, <3>1, Types DEF TypeInv, OwnersWork, Same, OtherRows
  <2>6. WorkHasTurn'
    BY <1>3, <1>4 DEF TypeInv, WorkHasTurn, Same, Working
  <2>7. attempts[t] < AttemptLimit \/ attempts[t] >= AttemptLimit
    BY <1>2
  <2> QED BY <1>1, <1>2, <1>4, <1>6, <2>1, <2>3, <2>4, <2>5, <2>6, <2>7 DEF TypeInv
<1> QED BY <1>5, <1>6

LEMMA CrashFacts ==
  ASSUME TypeInv, NEW p \in Process, Crash(p)
  PROVE  /\ TypeInv' /\ Same(p)
         /\ UNCHANGED <<status, attempts, live, sent, stalled>>
         /\ faults' = faults + 1
         /\ drain'[p] = NoDrain
         /\ \A t \in Turn : \/ owner'[t] = owner[t] /\ owner[t] # p
                            \/ owner'[t] = None /\ owner[t] = p /\ t = drain[p].turn
<1>1. /\ UNCHANGED <<status, attempts, live, sent, runs, direct, stalled>>
      /\ faults < MaxFaults /\ faults' = faults + 1
      /\ drain' = [drain EXCEPT ![p] = NoDrain]
      /\ owner' = [t \in Turn |-> IF owner[t] = p THEN None ELSE owner[t]]
  BY DEF Crash
<1>2. NoDrain \in DrainType /\ NoDrain.pc = "idle"
  BY DEF NoDrain, DrainType
<1>3. drain' \in [Process -> DrainType] /\ drain'[p] = NoDrain /\ Same(p)
  BY <1>1, <1>2, DrainMoves DEF TypeInv
<1>4. \A t \in Turn : \/ owner'[t] = owner[t] /\ owner[t] # p
                      \/ owner'[t] = None /\ owner[t] = p /\ t = drain[p].turn
  <2> SUFFICES ASSUME NEW t \in Turn
               PROVE  \/ owner'[t] = owner[t] /\ owner[t] # p
                      \/ owner'[t] = None /\ owner[t] = p /\ t = drain[p].turn
    OBVIOUS
  <2>1. owner'[t] = IF owner[t] = p THEN None ELSE owner[t]
    BY <1>1
  <2>2. owner[t] = p => t = drain[p].turn
    BY DEF TypeInv, OwnersWork
  <2> QED BY <2>1, <2>2
<1>5. TypeOK' /\ CountersAgree'
  <2>1. owner' \in [Turn -> Process \cup {None}]
    BY <1>1, Types DEF TypeInv
  <2>2. faults' \in 0 .. MaxFaults
    BY <1>1 DEF TypeInv, TypeOK
  <2> QED BY <1>1, <1>3, <2>1, <2>2 DEF TypeInv, TypeOK, CountersAgree, DrainType
<1>6. WorkHasTurn'
  BY <1>2, <1>3 DEF TypeInv, WorkHasTurn, Same, Working
<1>7. OwnersWork'
  <2> SUFFICES ASSUME NEW t \in Turn, owner'[t] # None
               PROVE  /\ status'[t] = "leased"
                      /\ drain'[owner'[t]].turn = t
                      /\ drain'[owner'[t]].pc \in Working
    BY DEF OwnersWork
  <2>1. owner'[t] = owner[t] /\ owner[t] # p /\ owner[t] \in Process
    BY <1>4, Types DEF TypeInv
  <2>2. drain'[owner[t]] = drain[owner[t]]
    BY <1>3, <2>1 DEF Same
  <2> QED BY <1>1, <2>1, <2>2 DEF TypeInv, OwnersWork
<1> QED BY <1>1, <1>3, <1>4, <1>5, <1>6, <1>7 DEF TypeInv, WorkHasTurn

-----------------------------------------------------------------------------
\* What becomes of the bound on a turn's starts when its starters, what it waits
\* for, what was sent and the faults change.
LEMMA StartersCount ==
  ASSUME NEW S, NEW R, NEW p, IsFiniteSet(S),
         \/ R \subseteq S
         \/ R \subseteq S \cup {p}
  PROVE  /\ IsFiniteSet(R)
         /\ Cardinality(S) \in Nat /\ Cardinality(R) \in Nat
         /\ Cardinality(R) <= Cardinality(S) + 1
         /\ R \subseteq S => Cardinality(R) <= Cardinality(S)
         /\ p \in S /\ R \subseteq S \ {p} => Cardinality(R) + 1 <= Cardinality(S)
<1>1. /\ IsFiniteSet(S \cup {p})
      /\ Cardinality(S \cup {p}) = (IF p \in S THEN Cardinality(S) ELSE Cardinality(S) + 1)
  BY FS_AddElement
<1>2. /\ IsFiniteSet(S \ {p})
      /\ p \in S => Cardinality(S \ {p}) = Cardinality(S) - 1
  BY FS_RemoveElement
<1>3. R \subseteq S \cup {p}
  OBVIOUS
<1>4. IsFiniteSet(R) /\ Cardinality(R) <= Cardinality(S \cup {p})
  BY <1>1, <1>3, FS_Subset
<1>5. Cardinality(S) \in Nat /\ Cardinality(R) \in Nat /\ Cardinality(S \cup {p}) \in Nat
  BY <1>1, <1>4, FS_CardinalityType
<1>6. R \subseteq S => Cardinality(R) <= Cardinality(S)
  BY FS_Subset
<1>7. R \subseteq S \ {p} => Cardinality(R) <= Cardinality(S \ {p})
  BY <1>2, FS_Subset
<1> QED BY <1>1, <1>2, <1>4, <1>5, <1>6, <1>7

LEMMA TurnStaysPaid ==
  ASSUME TypeOK, TypeOK', StartsArePaid, NEW t \in Turn, NEW p,
         \/ /\ Starters(t)' \subseteq Starters(t)
            /\ sent'[t] + Waits(t)' + faults <= sent[t] + Waits(t) + faults'
         \/ /\ Starters(t)' \subseteq Starters(t) \cup {p}
            /\ sent'[t] + Waits(t)' + faults + 1 <= sent[t] + Waits(t) + faults'
         \/ /\ p \in Starters(t) /\ Starters(t)' \subseteq Starters(t) \ {p}
            /\ sent'[t] + Waits(t)' + faults <= sent[t] + Waits(t) + faults' + 1
  PROVE  /\ IsFiniteSet(Starters(t)')
         /\ sent'[t] + Cardinality(Starters(t)') + Waits(t)' <= 1 + faults'
<1>1. /\ IsFiniteSet(Starters(t))
      /\ sent[t] + Cardinality(Starters(t)) + Waits(t) <= 1 + faults
  BY DEF StartsArePaid
<1>2. /\ sent[t] \in Nat /\ sent'[t] \in Nat /\ faults \in Nat /\ faults' \in Nat
      /\ Waits(t) \in Nat /\ Waits(t)' \in Nat
  BY DEF TypeOK, Waits
<1> DEFINE S == Starters(t)
           R == Starters(t)'
           w == Waits(t)
           v == Waits(t)'
<1> HIDE DEF S, R, w, v
<1>3. \/ R \subseteq S
      \/ R \subseteq S \cup {p}
  BY DEF R, S
<1>4. /\ IsFiniteSet(R)
      /\ Cardinality(S) \in Nat /\ Cardinality(R) \in Nat
      /\ Cardinality(R) <= Cardinality(S) + 1
      /\ R \subseteq S => Cardinality(R) <= Cardinality(S)
      /\ p \in S /\ R \subseteq S \ {p} => Cardinality(R) + 1 <= Cardinality(S)
  <2>1. IsFiniteSet(S)
    BY <1>1 DEF S
  <2> QED BY <1>3, <2>1, StartersCount
<1>5. \/ R \subseteq S /\ sent'[t] + v + faults <= sent[t] + w + faults'
      \/ sent'[t] + v + faults + 1 <= sent[t] + w + faults'
      \/ /\ p \in S /\ R \subseteq S \ {p}
         /\ sent'[t] + v + faults <= sent[t] + w + faults' + 1
  BY DEF R, S, v, w
<1>6. sent[t] + Cardinality(S) + w <= 1 + faults /\ w \in Nat /\ v \in Nat
  BY <1>1, <1>2 DEF S, w, v
<1>7. sent'[t] + Cardinality(R) + v <= 1 + faults'
  BY <1>2, <1>4, <1>5, <1>6
<1> QED BY <1>4, <1>7 DEF R, v

\* The steps, in the groups of the facts above.
LEMMA StepKinds ==
  ASSUME [Next]_vars
  PROVE  \/ Quiet
         \/ \E t \in Turn : Cancel(t)
         \/ \E t \in Turn : \/ ExpireAbandoned(t)
                            \/ Stall(t)
                            \/ \E p \in Process : Renew(p) /\ t = drain[p].turn
         \/ \E p \in Process : Seek(p)
         \/ \E p \in Process : Claim(p)
         \/ \E p \in Process : Check(p) \/ StartRejected(p) \/ Create(p) \/ LateError(p)
         \/ \E p \in Process : Complete(p) \/ Reject(p)
         \/ \E p \in Process : Crash(p)
         \/ \E p \in Process : Renew(p) /\ drain[p].turn \notin Turn
  BY DEF Next, DrainStep, Quiet, Seek

LEMMA StepFacts ==
  ASSUME TypeInv, [Next]_vars
  PROVE  /\ TypeInv'
         /\ \/ Quiet
            \/ \E t \in Turn : Cancel(t)
            \/ \E t \in Turn : \/ ExpireAbandoned(t)
                               \/ Stall(t)
                               \/ \E p \in Process : Renew(p) /\ t = drain[p].turn
            \/ \E p \in Process : Seek(p)
            \/ \E p \in Process : Claim(p)
            \/ \E p \in Process : Check(p) \/ StartRejected(p) \/ Create(p) \/ LateError(p)
            \/ \E p \in Process : Complete(p) \/ Reject(p)
            \/ \E p \in Process : Crash(p)
<1>1. ~ \E p \in Process : Renew(p) /\ drain[p].turn \notin Turn
  BY DEF Renew, TypeInv, WorkHasTurn
<1> QED BY <1>1, StepKinds, QuietFacts, SeekFacts, CancelFacts, LeaseFacts, ClaimFacts,
           WorkFacts, FinishFacts, CrashFacts

-----------------------------------------------------------------------------
LEMMA Numbers ==
  ASSUME TypeInv, NEW t \in Turn
  PROVE  /\ sent[t] \in Nat /\ attempts[t] \in Nat /\ faults \in Nat
         /\ Waits(t) \in {0, 1}
  BY DEF TypeInv, TypeOK, Waits

\* Starts are paid for.
LEMMA QuietPaid ==
  ASSUME TypeInv, StartsArePaid, Quiet, NEW t \in Turn
  PROVE  /\ IsFiniteSet(Starters(t)')
         /\ sent'[t] + Cardinality(Starters(t)') + Waits(t)' <= 1 + faults'
<1>1. Starters(t)' \subseteq Starters(t)
  <2> SUFFICES ASSUME NEW q \in Process, q \in Starters(t)' PROVE q \in Starters(t)
    BY DEF Starters
  <2>1. drain'[q].pc \in Working
    BY DEF Starters, Working
  <2>2. drain'[q] = drain[q]
    BY <2>1, QuietFacts DEF Busy
  <2>3. drain[q].turn = t
    BY <2>2 DEF Starters
  <2>4. Holds(q)' => Holds(q)
    BY <2>2, <2>3, QuietFacts DEF Holds
  <2> QED BY <2>2, <2>4 DEF Starters
<1>2. Waits(t)' <= Waits(t)
  BY QuietFacts DEF Waits, Lapsed
<1>3. sent'[t] + Waits(t)' + faults <= sent[t] + Waits(t) + faults'
  BY <1>2, QuietFacts DEF TypeInv, TypeOK, Waits
<1> QED BY <1>1, <1>3, QuietFacts, TurnStaysPaid DEF TypeInv

LEMMA SeekPaid ==
  ASSUME TypeInv, StartsArePaid, NEW p \in Process, Seek(p), NEW t \in Turn
  PROVE  /\ IsFiniteSet(Starters(t)')
         /\ sent'[t] + Cardinality(Starters(t)') + Waits(t)' <= 1 + faults'
<1>1. /\ TypeInv' /\ Same(p) /\ UNCHANGED <<rows, sent, faults>>
      /\ drain'[p].pc \notin {"check", "create", "reject"}
  BY SeekFacts DEF NoDrain
<1>2. Starters(t)' \subseteq Starters(t)
  BY <1>1 DEF Starters, Holds, Same, rows
<1>3. Waits(t)' = Waits(t)
  BY <1>1 DEF Waits, Lapsed, rows
<1>4. sent'[t] + Waits(t)' + faults <= sent[t] + Waits(t) + faults'
  BY <1>1, <1>3, Numbers DEF Waits
<1> QED BY <1>1, <1>2, <1>4, TurnStaysPaid DEF TypeInv

LEMMA CancelPaid ==
  ASSUME TypeInv, StartsArePaid, NEW c \in Turn, Cancel(c), NEW t \in Turn
  PROVE  /\ IsFiniteSet(Starters(t)')
         /\ sent'[t] + Cardinality(Starters(t)') + Waits(t)' <= 1 + faults'
<1>1. Starters(t)' \subseteq Starters(t)
  <2> SUFFICES ASSUME NEW q \in Process, q \in Starters(t)' PROVE q \in Starters(t)
    BY DEF Starters
  <2>1. drain' = drain /\ drain[q].turn = t
    BY CancelFacts DEF Starters
  <2>2. Holds(q)' => Holds(q)
    BY <2>1, CancelFacts DEF Holds, OtherRows
  <2> QED BY <2>1, <2>2 DEF Starters
<1>2. /\ TypeInv' /\ OtherRows(c) /\ UNCHANGED <<sent, faults>>
      /\ status[c] \in {"queued", "failed"} /\ status'[c] = "cancelled"
  BY CancelFacts
<1>3. Waits(t)' <= Waits(t)
  <2>1. CASE t = c
    BY <1>2, <2>1 DEF Waits, Lapsed
  <2>2. CASE t # c
    BY <1>2, <2>2 DEF Waits, Lapsed, OtherRows
  <2> QED BY <2>1, <2>2
<1>4. sent'[t] + Waits(t)' + faults <= sent[t] + Waits(t) + faults'
  BY <1>2, <1>3, Numbers DEF Waits
<1> QED BY <1>1, <1>2, <1>4, TurnStaysPaid DEF TypeInv

LEMMA LeasePaid ==
  ASSUME TypeInv, StartsArePaid, NEW c \in Turn,
         \/ ExpireAbandoned(c)
         \/ Stall(c)
         \/ \E p \in Process : Renew(p) /\ c = drain[p].turn,
         NEW t \in Turn
  PROVE  /\ IsFiniteSet(Starters(t)')
         /\ sent'[t] + Cardinality(Starters(t)') + Waits(t)' <= 1 + faults'
<1>1. Starters(t)' \subseteq Starters(t)
  BY LeaseFacts DEF Starters, Holds
<1>2. /\ TypeInv' /\ OtherRows(c) /\ UNCHANGED <<status, owner, sent>>
      /\ \/ owner[c] = None /\ status[c] = "leased" /\ UNCHANGED faults
         \/ live'[c] = TRUE /\ UNCHANGED faults
         \/ faults' = faults + 1
  BY LeaseFacts
<1>3. Waits(t)' <= Waits(t) \/ faults' = faults + 1
  <2>1. CASE t = c
    BY <1>2, <2>1 DEF Waits, Lapsed
  <2>2. CASE t # c
    BY <1>2, <2>2 DEF Waits, Lapsed, OtherRows
  <2> QED BY <2>1, <2>2
<1>4. sent'[t] + Waits(t)' + faults <= sent[t] + Waits(t) + faults'
  <2>1. CASE faults' = faults + 1
    BY <1>2, <2>1, Numbers DEF Waits
  <2>2. CASE faults' # faults + 1
    BY <1>2, <1>3, <2>2, Numbers DEF Waits
  <2> QED BY <2>1, <2>2
<1> QED BY <1>1, <1>2, <1>4, TurnStaysPaid DEF TypeInv

LEMMA ClaimPaid ==
  ASSUME TypeInv, StartsArePaid, NEW p \in Process, Claim(p), NEW t \in Turn
  PROVE  /\ IsFiniteSet(Starters(t)')
         /\ sent'[t] + Cardinality(Starters(t)') + Waits(t)' <= 1 + faults'
<1>1. PICK c \in Turn :
        /\ OtherRows(c) /\ drain'[p].turn = c
        /\ Claimable(c)
        /\ status'[c] = "leased" /\ owner'[c] = p /\ live'[c] = TRUE
  BY ClaimFacts
<1>2. /\ sent' = sent /\ faults' = faults /\ Same(p) /\ p # None
      /\ sent[t] \in Nat /\ faults \in Nat
  BY ClaimFacts, Numbers
<1>3. ASSUME NEW q \in Process, q # p, q \in Starters(t)' PROVE q \in Starters(t)
  <2>1. drain'[q] = drain[q] /\ drain[q].turn = t
    BY <1>2, <1>3 DEF Same, Starters
  <2>2. Holds(q)' => Holds(q)
    BY <1>1, <1>3, <2>1 DEF Holds, OtherRows
  <2> QED BY <1>3, <2>1, <2>2 DEF Starters
<1>4. CASE t = c
  <2>1. Starters(t)' \subseteq Starters(t) \cup {p}
    BY <1>3 DEF Starters
  <2>2. Waits(t) = 1 /\ Waits(t)' = 0
    BY <1>1, <1>2, <1>4 DEF Waits, Lapsed, Claimable
  <2>3. sent'[t] + Waits(t)' + faults + 1 <= sent[t] + Waits(t) + faults'
    BY <1>2, <2>2
  <2> QED BY <2>1, <2>3, ClaimFacts, TurnStaysPaid DEF TypeInv
<1>5. CASE t # c
  <2>1. Starters(t)' \subseteq Starters(t)
    BY <1>1, <1>3, <1>5 DEF Starters
  <2>2. Waits(t)' = Waits(t)
    BY <1>1, <1>5 DEF Waits, Lapsed, OtherRows
  <2>3. sent'[t] + Waits(t)' + faults <= sent[t] + Waits(t) + faults'
    BY <1>2, <2>2 DEF Waits
  <2> QED BY <2>1, <2>3, ClaimFacts, TurnStaysPaid DEF TypeInv
<1> QED BY <1>4, <1>5

LEMMA WorkPaid ==
  ASSUME TypeInv, StartsArePaid, NEW p \in Process,
         Check(p) \/ StartRejected(p) \/ Create(p) \/ LateError(p),
         NEW t \in Turn
  PROVE  /\ IsFiniteSet(Starters(t)')
         /\ sent'[t] + Cardinality(Starters(t)') + Waits(t)' <= 1 + faults'
<1>1. /\ Same(p) /\ UNCHANGED <<status, owner, live>>
      /\ drain'[p].turn = drain[p].turn /\ drain[p].turn \in Turn
      /\ sent \in [Turn -> Nat] /\ faults \in Nat /\ TypeInv'
  BY WorkFacts DEF TypeInv, TypeOK
<1>2. ASSUME NEW q \in Process, q # p, q \in Starters(t)' PROVE q \in Starters(t)
  BY <1>1, <1>2 DEF Same, Starters, Holds
<1>3. Waits(t)' = Waits(t) /\ Waits(t) \in Nat
  BY <1>1 DEF Waits, Lapsed
<1>4. CASE t # drain[p].turn
  <2>1. Starters(t)' \subseteq Starters(t)
    BY <1>1, <1>2, <1>4 DEF Starters
  <2>2. sent'[t] = sent[t] /\ faults' \in Nat /\ faults <= faults'
    BY <1>1, <1>4, WorkFacts
  <2>3. sent'[t] + Waits(t)' + faults <= sent[t] + Waits(t) + faults'
    BY <1>1, <1>3, <2>2
  <2> QED BY <1>1, <2>1, <2>3, TurnStaysPaid DEF TypeInv
<1>5. CASE /\ t = drain[p].turn
           /\ drain[p].pc \in {"check", "create"}
           /\ UNCHANGED <<sent, faults>>
  <2>1. Starters(t)' \subseteq Starters(t)
    BY <1>2, <1>5 DEF Starters
  <2>2. sent'[t] + Waits(t)' + faults <= sent[t] + Waits(t) + faults'
    BY <1>1, <1>3, <1>5
  <2> QED BY <1>1, <2>1, <2>2, TurnStaysPaid DEF TypeInv
<1>6. CASE /\ t = drain[p].turn
           /\ drain[p].pc = "create" /\ drain'[p].pc = "complete"
           /\ sent' = [sent EXCEPT ![drain[p].turn] = @ + 1]
           /\ UNCHANGED faults
  <2>1. p \in Starters(t) /\ Starters(t)' \subseteq Starters(t) \ {p}
    BY <1>2, <1>6 DEF Starters
  <2>2. sent'[t] = sent[t] + 1
    BY <1>1, <1>6
  <2>3. sent'[t] + Waits(t)' + faults <= sent[t] + Waits(t) + faults' + 1
    BY <1>1, <1>3, <1>6, <2>2
  <2> QED BY <1>1, <2>1, <2>3, TurnStaysPaid DEF TypeInv
<1>7. CASE t = drain[p].turn /\ faults' = faults + 1 /\ UNCHANGED sent
  <2>1. Starters(t)' \subseteq Starters(t) \cup {p}
    BY <1>2 DEF Starters
  <2>2. sent'[t] + Waits(t)' + faults + 1 <= sent[t] + Waits(t) + faults'
    BY <1>1, <1>3, <1>7
  <2> QED BY <1>1, <2>1, <2>2, TurnStaysPaid DEF TypeInv
<1> QED BY <1>4, <1>5, <1>6, <1>7, WorkFacts

LEMMA FinishPaid ==
  ASSUME TypeInv, StartsArePaid, NEW p \in Process, Complete(p) \/ Reject(p), NEW t \in Turn
  PROVE  /\ IsFiniteSet(Starters(t)')
         /\ sent'[t] + Cardinality(Starters(t)') + Waits(t)' <= 1 + faults'
<1> DEFINE c == drain[p].turn
<1>1. /\ Same(p) /\ drain'[p] = NoDrain /\ c \in Turn /\ TypeInv'
      /\ UNCHANGED <<sent, faults>> /\ sent[t] \in Nat /\ faults \in Nat
      /\ \/ ~Holds(p) /\ UNCHANGED rows
         \/ /\ Holds(p) /\ OtherRows(c) /\ owner'[c] = None
            /\ \/ status'[c] \in Settled
               \/ drain[p].pc = "reject"
  BY FinishFacts DEF TypeInv, TypeOK, Settled
<1>2. p \notin Starters(t)'
  BY <1>1 DEF Starters, NoDrain
<1>3. ASSUME NEW q \in Process, q # p, q \in Starters(t)' PROVE q \in Starters(t)
  <2>1. drain'[q] = drain[q] /\ drain[q].turn = t
    BY <1>1, <1>3 DEF Same, Starters
  <2>2. Holds(q)' => Holds(q)
    BY <1>1, <2>1 DEF Holds, OtherRows, rows
  <2> QED BY <1>3, <2>1, <2>2 DEF Starters
<1>4. Starters(t)' \subseteq Starters(t) \ {p}
  BY <1>2, <1>3 DEF Starters
<1>5. CASE t = c /\ Holds(p) /\ drain[p].pc = "reject"
  <2>1. p \in Starters(t)
    BY <1>5 DEF Starters
  <2>2. sent'[t] + Waits(t)' + faults <= sent[t] + Waits(t) + faults' + 1
    BY <1>1 DEF Waits
  <2> QED BY <1>1, <1>4, <2>1, <2>2, TurnStaysPaid DEF TypeInv
<1>6. CASE ~(t = c /\ Holds(p) /\ drain[p].pc = "reject")
  <2>1. Waits(t)' <= Waits(t)
    <3>1. CASE t = c /\ Holds(p)
      BY <1>1, <1>6, <3>1 DEF Waits, Lapsed, Settled
    <3>2. CASE ~(t = c /\ Holds(p))
      BY <1>1, <3>2 DEF Waits, Lapsed, OtherRows, rows
    <3> QED BY <3>1, <3>2
  <2>2. sent'[t] + Waits(t)' + faults <= sent[t] + Waits(t) + faults'
    BY <1>1, <2>1 DEF Waits
  <2>3. Starters(t)' \subseteq Starters(t)
    BY <1>4
  <2> QED BY <1>1, <2>2, <2>3, TurnStaysPaid DEF TypeInv
<1> QED BY <1>5, <1>6

LEMMA CrashPaid ==
  ASSUME TypeInv, StartsArePaid, NEW p \in Process, Crash(p), NEW t \in Turn
  PROVE  /\ IsFiniteSet(Starters(t)')
         /\ sent'[t] + Cardinality(Starters(t)') + Waits(t)' <= 1 + faults'
<1>1. /\ Same(p) /\ drain'[p] = NoDrain /\ UNCHANGED <<status, live, sent>>
      /\ faults' = faults + 1 /\ sent[t] \in Nat /\ faults \in Nat /\ TypeInv'
      /\ \A u \in Turn : owner'[u] \in {owner[u], None}
  BY CrashFacts DEF TypeInv, TypeOK
<1>2. Starters(t)' \subseteq Starters(t)
  <2> SUFFICES ASSUME NEW q \in Process, q \in Starters(t)' PROVE q \in Starters(t)
    BY DEF Starters
  <2>1. q # p
    BY <1>1 DEF Starters, NoDrain
  <2>2. drain'[q] = drain[q] /\ drain[q].turn = t
    BY <1>1, <2>1 DEF Same, Starters
  <2>3. Holds(q)' => Holds(q)
    BY <1>1, <2>2 DEF Holds
  <2> QED BY <2>2, <2>3 DEF Starters
<1>3. sent'[t] + Waits(t)' + faults <= sent[t] + Waits(t) + faults'
  BY <1>1 DEF Waits
<1> QED BY <1>1, <1>2, <1>3, TurnStaysPaid DEF TypeInv

LEMMA StartsStayPaid == TypeInv /\ StartsArePaid /\ [Next]_vars => StartsArePaid'
<1> SUFFICES ASSUME TypeInv, StartsArePaid, [Next]_vars, NEW t \in Turn
             PROVE  /\ IsFiniteSet(Starters(t)')
                    /\ sent'[t] + Cardinality(Starters(t)') + Waits(t)' <= 1 + faults'
  BY DEF StartsArePaid
<1> QED BY StepFacts, QuietPaid, SeekPaid, CancelPaid, LeasePaid, ClaimPaid, WorkPaid, FinishPaid,
           CrashPaid

-----------------------------------------------------------------------------
\* Claims are paid for.
LEMMA ClaimsStayPaid == TypeInv /\ ClaimsArePaid /\ [Next]_vars => ClaimsArePaid'
<1> SUFFICES ASSUME TypeInv, ClaimsArePaid, [Next]_vars, NEW t \in Turn
             PROVE  /\ status'[t] \in {"absent", "counted", "queued"} =>
                         attempts'[t] < AttemptLimit
                    /\ attempts'[t] + (IF Lapsed(t)' THEN 1 ELSE 0) <= AttemptLimit + faults'
  BY DEF ClaimsArePaid
<1>1. /\ status[t] \in {"absent", "counted", "queued"} => attempts[t] < AttemptLimit
      /\ attempts[t] + (IF Lapsed(t) THEN 1 ELSE 0) <= AttemptLimit + faults
      /\ attempts[t] \in Nat /\ faults \in Nat
  BY Numbers DEF ClaimsArePaid
\* Nothing the bound looks at changes for the worse.
<1>2. ASSUME attempts'[t] = attempts[t], faults' \in Nat, faults <= faults',
             status'[t] \in {"absent", "counted", "queued"} => attempts[t] < AttemptLimit,
             Lapsed(t)' => Lapsed(t) \/ faults + 1 <= faults'
      PROVE  /\ status'[t] \in {"absent", "counted", "queued"} =>
                   attempts'[t] < AttemptLimit
             /\ attempts'[t] + (IF Lapsed(t)' THEN 1 ELSE 0) <= AttemptLimit + faults'
  BY <1>1, <1>2
<1>3. CASE Quiet
  BY <1>1, <1>2, <1>3, QuietFacts DEF Lapsed
<1>4. ASSUME NEW c \in Turn, Cancel(c)
      PROVE  /\ UNCHANGED <<attempts, faults>>
             /\ t # c => status'[t] = status[t]
             /\ t = c => status'[t] = "cancelled"
             /\ Lapsed(t)' => Lapsed(t)
  <2>1. /\ OtherRows(c) /\ status'[c] = "cancelled" /\ UNCHANGED <<attempts, faults>>
    BY <1>4, CancelFacts
  <2> QED BY <2>1 DEF OtherRows, Lapsed
<1>5. ASSUME NEW c \in Turn,
             \/ ExpireAbandoned(c)
             \/ Stall(c)
             \/ \E p \in Process : Renew(p) /\ c = drain[p].turn
      PROVE  /\ UNCHANGED <<attempts, status>> /\ faults' \in {faults, faults + 1}
             /\ Lapsed(t)' => Lapsed(t) \/ faults' = faults + 1
  <2>1. /\ OtherRows(c) /\ UNCHANGED <<attempts, status, owner>>
        /\ \/ owner[c] = None /\ status[c] = "leased" /\ UNCHANGED faults
           \/ live'[c] = TRUE /\ UNCHANGED faults
           \/ faults' = faults + 1
    BY <1>5, LeaseFacts
  <2> QED BY <2>1 DEF OtherRows, Lapsed
<1>6. ASSUME NEW p \in Process, Claim(p)
      PROVE  /\ status'[t] \in {"absent", "counted", "queued"} => attempts'[t] < AttemptLimit
             /\ attempts'[t] + (IF Lapsed(t)' THEN 1 ELSE 0) <= AttemptLimit + faults'
  <2>1. PICK c \in Turn :
          /\ OtherRows(c) /\ attempts'[c] = attempts[c] + 1 /\ UNCHANGED faults
          /\ Claimable(c)
          /\ status'[c] = "leased" /\ owner'[c] = p /\ live'[c] = TRUE
    BY <1>6, ClaimFacts
  <2>2. CASE t = c
    <3>1. ~Lapsed(t)'
      BY <2>1, <2>2 DEF Lapsed
    <3>2. status[t] = "queued" \/ Lapsed(t)
      BY <2>1, <2>2 DEF Lapsed, Claimable
    <3> QED BY <1>1, <2>1, <2>2, <3>1, <3>2
  <2>3. CASE t # c
    <3>1. status'[t] = status[t] /\ attempts'[t] = attempts[t] /\ (Lapsed(t)' <=> Lapsed(t))
      BY <2>1, <2>3 DEF OtherRows, Lapsed
    <3> QED BY <1>1, <2>1, <3>1
  <2> QED BY <2>2, <2>3
<1>7. ASSUME NEW p \in Process,
             Check(p) \/ StartRejected(p) \/ Create(p) \/ LateError(p)
      PROVE  /\ UNCHANGED <<attempts, status>> /\ faults' \in {faults, faults + 1}
             /\ Lapsed(t)' => Lapsed(t)
  BY <1>7, WorkFacts DEF Lapsed
<1>8. ASSUME NEW p \in Process, Complete(p) \/ Reject(p)
      PROVE  /\ UNCHANGED <<attempts, faults>>
             /\ \/ status'[t] = status[t]
                \/ status'[t] \in {"completed", "failed"}
                \/ attempts[t] < AttemptLimit
             /\ Lapsed(t)' => Lapsed(t)
  <2> DEFINE c == drain[p].turn
  <2>1. /\ UNCHANGED <<attempts, faults>>
        /\ \/ UNCHANGED rows
           \/ /\ OtherRows(c) /\ status'[c] \in {"completed", "failed", "queued"}
              /\ status'[c] = "queued" => attempts[c] < AttemptLimit
    BY <1>8, FinishFacts
  <2> HIDE DEF c
  <2>2. CASE t = c
    BY <2>1, <2>2 DEF Lapsed, rows
  <2>3. CASE t # c
    BY <2>1, <2>3 DEF Lapsed, rows, OtherRows
  <2> QED BY <2>2, <2>3
<1>9. ASSUME NEW p \in Process, Crash(p)
      PROVE  UNCHANGED <<attempts, status>> /\ faults' = faults + 1
  BY <1>9, CrashFacts
<1>10. ASSUME NEW p \in Process, Seek(p)
       PROVE  UNCHANGED <<attempts, status, owner, live, faults>>
  BY <1>10, SeekFacts DEF rows
<1>11. CASE \E p \in Process : Seek(p)
  BY <1>1, <1>2, <1>10, <1>11 DEF Lapsed
<1> QED BY <1>1, <1>2, <1>3, <1>4, <1>5, <1>6, <1>7, <1>8, <1>9, <1>11, StepFacts

-----------------------------------------------------------------------------
\* Turns are started in order.
LEMMA OrderIsKept ==
  TypeInv /\ SelectedInOrder /\ ClaimAlone /\ [Next]_vars => SelectedInOrder'
<1> SUFFICES ASSUME TypeInv, SelectedInOrder, ClaimAlone, [Next]_vars, NEW q \in Process,
                    drain'[q].pc \in {"update", "check", "create"},
                    NEW u \in drain'[q].before
             PROVE  status'[u] \in Settled \/ u \in stalled'
  BY DEF SelectedInOrder
<1>0. u \in Turn /\ drain'[q].pc \in Busy
  <2>1. drain'[q] \in DrainType
    BY StepFacts DEF TypeInv, TypeOK, DrainType
  <2> QED BY <2>1 DEF DrainType, Busy, Claiming, Working
\* A drain that had selected the turn before the step.
<1>1. ASSUME drain[q].pc \in {"update", "check", "create"},
             drain[q].before = drain'[q].before
      PROVE  status[u] \in Settled \/ u \in stalled
  BY <1>1 DEF SelectedInOrder
<1>2. CASE Quiet
  <2>1. drain'[q] = drain[q]
    BY <1>0, <1>2, QuietFacts
  <2>2. status[u] \in Settled \/ u \in stalled
    BY <1>1, <2>1
  <2> QED BY <1>0, <1>2, <2>2, QuietFacts DEF Settled
<1>3. ASSUME NEW p \in Process, Seek(p) PROVE status'[u] \in Settled \/ u \in stalled'
  <2>1. UNCHANGED <<status, stalled>> /\ Same(p)
    BY <1>3, SeekFacts DEF rows
  <2>2. CASE q # p
    BY <1>1, <2>1, <2>2 DEF Same
  <2>3. CASE q = p
    <3>1. /\ drain[p].pc = "select"
          /\ u \in Turn /\ (status[u] \in Settled \/ (status[u] = "leased" /\ live[u]))
      BY <1>3, <2>3, SeekFacts DEF NoDrain
    <3> QED BY <2>1, <3>1 DEF ClaimAlone
  <2> QED BY <2>2, <2>3
<1>4. ASSUME NEW c \in Turn, Cancel(c) PROVE status'[u] \in Settled \/ u \in stalled'
  <2>1. UNCHANGED <<drain, stalled>> /\ OtherRows(c) /\ status'[c] = "cancelled"
    BY <1>4, CancelFacts
  <2>2. status[u] \in Settled \/ u \in stalled
    BY <1>1, <2>1
  <2> QED BY <1>0, <2>1, <2>2 DEF OtherRows, Settled
<1>5. ASSUME NEW c \in Turn,
             \/ ExpireAbandoned(c)
             \/ Stall(c)
             \/ \E p \in Process : Renew(p) /\ c = drain[p].turn
      PROVE  status'[u] \in Settled \/ u \in stalled'
  <2>1. UNCHANGED <<status, drain>> /\ stalled \subseteq stalled'
    BY <1>5, LeaseFacts
  <2> QED BY <1>1, <2>1
<1>6. ASSUME NEW p \in Process, Claim(p) PROVE status'[u] \in Settled \/ u \in stalled'
  <2>1. PICK c \in Turn : OtherRows(c) /\ Claimable(c)
    BY <1>6, ClaimFacts
  <2>2. /\ Same(p) /\ UNCHANGED stalled
        /\ drain[p].pc = "update" /\ drain'[p].before = drain[p].before
    BY <1>6, ClaimFacts
  <2>3. status[u] \in Settled \/ u \in stalled
    BY <1>1, <2>2 DEF Same
  <2> QED BY <1>0, <2>1, <2>2, <2>3 DEF OtherRows, Settled, Claimable
<1>7. ASSUME NEW p \in Process,
             Check(p) \/ StartRejected(p) \/ Create(p) \/ LateError(p)
      PROVE  status'[u] \in Settled \/ u \in stalled'
  <2>1. /\ UNCHANGED <<status, stalled>> /\ Same(p) /\ drain'[p].before = drain[p].before
        /\ drain'[p].pc \in {"update", "check", "create"} =>
             drain[p].pc \in {"update", "check", "create"}
    BY <1>7, WorkFacts
  <2> QED BY <1>1, <2>1 DEF Same
<1>8. ASSUME NEW p \in Process, Complete(p) \/ Reject(p)
      PROVE  status'[u] \in Settled \/ u \in stalled'
  <2> DEFINE c == drain[p].turn
  <2>1. /\ Same(p) /\ drain'[p].pc = "idle" /\ UNCHANGED stalled
        /\ \/ UNCHANGED rows
           \/ OtherRows(c) /\ Holds(p)
    BY <1>8, FinishFacts DEF NoDrain
  <2>2. status[u] \in Settled \/ u \in stalled
    BY <1>1, <2>1 DEF Same
  <2> QED BY <1>0, <2>1, <2>2 DEF OtherRows, Holds, Settled, rows
<1>9. ASSUME NEW p \in Process, Crash(p) PROVE status'[u] \in Settled \/ u \in stalled'
  <2>1. UNCHANGED <<status, stalled>> /\ Same(p) /\ drain'[p].pc = "idle"
    BY <1>9, CrashFacts DEF NoDrain
  <2> QED BY <1>1, <2>1 DEF Same
<1> QED BY <1>2, <1>3, <1>4, <1>5, <1>6, <1>7, <1>8, <1>9, StepFacts

-----------------------------------------------------------------------------
\* Where no lease ran out under a drain, those at work hold theirs.
LEMMA HoldIsKept == TypeInv /\ UnstalledHold /\ [Next]_vars => UnstalledHold'
<1> DEFINE Kept ==
      /\ \A q \in Process : drain'[q].pc \in Working => Holds(q)' \/ drain'[q].turn \in stalled'
      /\ \A t \in Turn : status'[t] = "leased" /\ ~live'[t] =>
           owner'[t] = None \/ t \in stalled'
<1> SUFFICES ASSUME TypeInv, UnstalledHold, [Next]_vars PROVE Kept
  BY DEF UnstalledHold
<1>1. /\ \A q \in Process : drain[q].pc \in Working =>
           /\ drain[q].turn \in Turn
           /\ \/ status[drain[q].turn] = "leased" /\ owner[drain[q].turn] = q
              \/ drain[q].turn \in stalled
      /\ \A t \in Turn : status[t] = "leased" /\ ~live[t] => owner[t] = None \/ t \in stalled
  BY DEF UnstalledHold, Holds, TypeInv, WorkHasTurn
<1>2. CASE Quiet
  BY <1>1, <1>2, QuietFacts DEF Holds, Busy
<1>3. ASSUME NEW p \in Process, Seek(p) PROVE Kept
  <2>1. UNCHANGED <<status, owner, live, stalled>> /\ Same(p) /\ drain'[p].pc \notin Working
    BY <1>3, SeekFacts DEF rows, NoDrain, Working
  <2> QED BY <1>1, <2>1 DEF Same, Holds
<1>4. ASSUME NEW c \in Turn, Cancel(c) PROVE Kept
  <2>1. /\ UNCHANGED <<drain, stalled>> /\ OtherRows(c) /\ owner'[c] = None
        /\ status[c] \in {"queued", "failed"}
    BY <1>4, CancelFacts
  <2> QED BY <1>1, <2>1 DEF OtherRows, Holds
<1>5. ASSUME NEW c \in Turn,
             \/ ExpireAbandoned(c)
             \/ Stall(c)
             \/ \E p \in Process : Renew(p) /\ c = drain[p].turn
      PROVE  Kept
  <2>1. /\ UNCHANGED <<status, owner, drain>> /\ OtherRows(c)
        /\ \/ owner[c] = None /\ UNCHANGED stalled
           \/ stalled' = stalled \cup {c}
           \/ live'[c] = TRUE /\ UNCHANGED stalled
    BY <1>5, LeaseFacts
  <2> QED BY <1>1, <2>1 DEF OtherRows, Holds
<1>6. ASSUME NEW p \in Process, Claim(p) PROVE Kept
  <2>1. PICK c \in Turn :
          /\ OtherRows(c) /\ drain'[p].turn = c
          /\ Claimable(c)
          /\ status'[c] = "leased" /\ owner'[c] = p /\ live'[c] = TRUE
    BY <1>6, ClaimFacts
  <2>0. Same(p) /\ UNCHANGED stalled
    BY <1>6, ClaimFacts
  \* A drain at work on the turn would hold a lease that is live.
  <2>2. ASSUME NEW q \in Process, q # p, drain'[q].pc \in Working
        PROVE  Holds(q)' \/ drain'[q].turn \in stalled'
    <3>1. drain'[q] = drain[q]
      BY <2>0, <2>2 DEF Same
    <3>2. CASE drain[q].turn \in stalled
      BY <2>0, <3>1, <3>2
    <3>3. CASE drain[q].turn \notin stalled
      <4>1. drain[q].turn \in Turn /\ status[drain[q].turn] = "leased"
            /\ owner[drain[q].turn] = q /\ q # None
        BY <1>1, <2>2, <3>1, <3>3, NoneAssumption
      <4>2. drain[q].turn # c
        BY <1>1, <2>1, <3>3, <4>1 DEF Claimable
      <4> QED BY <2>1, <3>1, <4>1, <4>2 DEF OtherRows, Holds
    <3> QED BY <3>2, <3>3
  <2> QED BY <1>1, <2>0, <2>1, <2>2 DEF OtherRows, Holds
<1>7. ASSUME NEW p \in Process,
             Check(p) \/ StartRejected(p) \/ Create(p) \/ LateError(p)
      PROVE  Kept
  <2>1. /\ UNCHANGED <<status, owner, live, stalled>> /\ Same(p)
        /\ drain'[p].turn = drain[p].turn /\ drain[p].pc \in Working
    BY <1>7, WorkFacts DEF Working
  <2> QED BY <1>1, <2>1 DEF Same, Holds
<1>8. ASSUME NEW p \in Process, Complete(p) \/ Reject(p) PROVE Kept
  <2> DEFINE c == drain[p].turn
  <2>1. /\ Same(p) /\ drain'[p].pc \notin Working /\ UNCHANGED stalled
        /\ \/ UNCHANGED rows
           \/ OtherRows(c) /\ owner'[c] = None /\ owner[c] = p
    BY <1>8, FinishFacts DEF NoDrain, Working, Holds
  <2> HIDE DEF c
  <2>2. ASSUME NEW q \in Process, drain'[q].pc \in Working
        PROVE  Holds(q)' \/ drain'[q].turn \in stalled'
    <3>1. q # p /\ drain'[q] = drain[q]
      BY <2>1, <2>2 DEF Same
    <3> QED BY <1>1, <2>1, <2>2, <3>1 DEF OtherRows, Holds, rows
  <2> QED BY <1>1, <2>1, <2>2 DEF OtherRows, rows
<1>9. ASSUME NEW p \in Process, Crash(p) PROVE Kept
  <2>1. /\ Same(p) /\ drain'[p].pc \notin Working /\ UNCHANGED <<status, live, stalled>>
        /\ \A t \in Turn : \/ owner'[t] = owner[t]
                           \/ owner'[t] = None /\ owner[t] = p
    BY <1>9, CrashFacts DEF NoDrain, Working
  <2>2. ASSUME NEW q \in Process, drain'[q].pc \in Working
        PROVE  Holds(q)' \/ drain'[q].turn \in stalled'
    <3>1. q # p /\ drain'[q] = drain[q]
      BY <2>1, <2>2 DEF Same
    <3> QED BY <1>1, <2>1, <2>2, <3>1 DEF Holds
  <2> QED BY <1>1, <2>1, <2>2
<1> QED BY <1>2, <1>3, <1>4, <1>5, <1>6, <1>7, <1>8, <1>9, StepFacts

-----------------------------------------------------------------------------
\* One claim at a time, and what it has not seen live was paused.
LEMMA ClaimStaysAlone ==
  TypeInv /\ UnstalledHold /\ ClaimAlone /\ [Next]_vars => ClaimAlone'
<1> DEFINE Alone ==
      /\ \A p, q \in Process : drain'[p].pc \in Claiming /\ drain'[q].pc \in Claiming => p = q
      /\ \A q \in Process : drain'[q].pc = "select" =>
           \A t \in Turn : status'[t] = "leased" /\ live'[t] => t \in stalled'
<1> SUFFICES ASSUME TypeInv, UnstalledHold, ClaimAlone, [Next]_vars PROVE Alone
  BY DEF ClaimAlone
<1>1. /\ \A p, q \in Process : drain[p].pc \in Claiming /\ drain[q].pc \in Claiming => p = q
      /\ \A q \in Process : drain[q].pc = "select" =>
           \A t \in Turn : status[t] = "leased" /\ live[t] => t \in stalled
      /\ "select" \in Claiming /\ "update" \in Claiming
  BY DEF ClaimAlone, Claiming
<1>2. CASE Quiet
  <2>1. \A q \in Process : drain'[q].pc \in Claiming => drain'[q] = drain[q]
    BY <1>2, QuietFacts DEF Busy
  <2>2. /\ UNCHANGED <<live, stalled>>
        /\ \A t \in Turn : status'[t] = "leased" => status[t] = "leased"
    BY <1>2, QuietFacts
  <2> QED BY <1>1, <2>1, <2>2
<1>3. ASSUME NEW p \in Process, Seek(p) PROVE Alone
  <2>1. /\ Same(p) /\ UNCHANGED <<status, live, stalled>>
        /\ \/ drain'[p].pc = "idle"
           \/ drain'[p].pc = "select" /\ Unlocked /\ ~LiveLease
           \/ drain[p].pc = "select" /\ drain'[p].pc = "update"
    BY <1>3, SeekFacts DEF NoDrain, rows
  <2> QED BY <1>1, <2>1 DEF Same, Unlocked, LiveLease, Claiming
<1>4. ASSUME NEW c \in Turn, Cancel(c) PROVE Alone
  <2>1. UNCHANGED <<drain, stalled>> /\ OtherRows(c) /\ status'[c] = "cancelled"
    BY <1>4, CancelFacts
  <2> QED BY <1>1, <2>1 DEF OtherRows
<1>5. ASSUME NEW c \in Turn,
             \/ ExpireAbandoned(c)
             \/ Stall(c)
             \/ \E p \in Process : Renew(p) /\ c = drain[p].turn
      PROVE  Alone
  <2>1. /\ UNCHANGED <<status, owner, drain>> /\ OtherRows(c) /\ status[c] = "leased"
        /\ \/ ExpireAbandoned(c) /\ UNCHANGED stalled
           \/ stalled' = stalled \cup {c}
           \/ live'[c] = TRUE /\ owner[c] # None /\ UNCHANGED stalled
    BY <1>5, LeaseFacts
  <2>2. live'[c] => live[c] \/ c \in stalled'
    <3>1. CASE ExpireAbandoned(c)
      BY <3>1 DEF ExpireAbandoned
    <3>2. CASE owner[c] # None /\ UNCHANGED stalled
      BY <2>1, <3>2 DEF UnstalledHold
    <3> QED BY <2>1, <3>1, <3>2
  <2>3. stalled \subseteq stalled'
    BY <2>1
  <2> QED BY <1>1, <2>1, <2>2, <2>3 DEF OtherRows
<1>6. ASSUME NEW p \in Process, Claim(p) PROVE Alone
  <2>1. Same(p) /\ drain[p].pc = "update" /\ drain'[p].pc = "check"
    BY <1>6, ClaimFacts
  <2>2. \A q \in Process : drain'[q].pc \notin Claiming
    BY <1>1, <2>1 DEF Same, Claiming
  <2> QED BY <1>1, <2>2
<1>7. ASSUME NEW p \in Process,
             Check(p) \/ StartRejected(p) \/ Create(p) \/ LateError(p)
      PROVE  Alone
  <2>1. /\ Same(p) /\ UNCHANGED <<status, live, stalled>>
        /\ drain'[p].pc \in {"create", "reject", "complete"}
    BY <1>7, WorkFacts
  <2> QED BY <1>1, <2>1 DEF Same, Claiming
<1>8. ASSUME NEW p \in Process, Complete(p) \/ Reject(p) PROVE Alone
  <2> DEFINE c == drain[p].turn
  <2>1. /\ Same(p) /\ drain'[p].pc = "idle" /\ UNCHANGED stalled
        /\ \/ UNCHANGED <<status, live>>
           \/ OtherRows(c) /\ status'[c] # "leased"
    BY <1>8, FinishFacts DEF NoDrain, rows
  <2> HIDE DEF c
  <2> QED BY <1>1, <2>1 DEF Same, OtherRows, Claiming
<1>9. ASSUME NEW p \in Process, Crash(p) PROVE Alone
  <2>1. Same(p) /\ UNCHANGED <<status, live, stalled>> /\ drain'[p].pc = "idle"
    BY <1>9, CrashFacts DEF NoDrain
  <2> QED BY <1>1, <2>1 DEF Same, Claiming
<1> QED BY <1>2, <1>3, <1>4, <1>5, <1>6, <1>7, <1>8, <1>9, StepFacts

-----------------------------------------------------------------------------
LEMMA InitQueueInv == Init => QueueInv
<1> SUFFICES ASSUME Init PROVE QueueInv
  OBVIOUS
<1>1. TypeOK
  <2>1. NoDrain \in DrainType
    BY DEF NoDrain, DrainType
  <2>2. drain \in [Process -> DrainType]
    BY <2>1 DEF Init
  <2> QED BY <2>2 DEF Init, TypeOK, DrainType
<1>2. CountersAgree /\ OwnersWork /\ WorkHasTurn /\ ClaimsArePaid /\ UnstalledHold
      /\ ClaimAlone /\ SelectedInOrder
  BY DEF Init, CountersAgree, OwnersWork, WorkHasTurn, ClaimsArePaid, UnstalledHold,
         ClaimAlone, SelectedInOrder, Lapsed, NoDrain, Claiming, Working
<1>3. StartsArePaid
  <2> SUFFICES ASSUME NEW t \in Turn
               PROVE  /\ IsFiniteSet(Starters(t))
                      /\ sent[t] + Cardinality(Starters(t)) + Waits(t) <= 1 + faults
    BY DEF StartsArePaid
  <2>1. Starters(t) = {}
    BY DEF Init, Starters, NoDrain
  <2>2. sent[t] = 0 /\ Waits(t) = 1 /\ faults = 0
    BY DEF Init, Waits
  <2> QED BY <2>1, <2>2, FS_EmptySet
<1> QED BY <1>1, <1>2, <1>3 DEF QueueInv

LEMMA NextQueueInv == QueueInv /\ [Next]_vars => QueueInv'
<1> SUFFICES ASSUME QueueInv, [Next]_vars PROVE QueueInv'
  OBVIOUS
<1>1. TypeInv
  BY DEF QueueInv, TypeInv
<1>2. TypeInv'
  BY <1>1, StepFacts
<1> QED BY <1>1, <1>2, StartsStayPaid, ClaimsStayPaid, OrderIsKept, HoldIsKept,
           ClaimStaysAlone DEF QueueInv, TypeInv

LEMMA QueueInvHolds == Spec => []QueueInv
BY InitQueueInv, NextQueueInv, PTL DEF Spec

\* In every state the variables have their types, whatever processes drain the
\* chat, users cancel, and drains stall or crash.
THEOREM TypeCorrect == Spec => []TypeOK
<1>1. QueueInv => TypeOK
  BY DEF QueueInv
<1> QED BY <1>1, QueueInvHolds, PTL

\* RunQueueService.drain sends a turn's message once, and once more at most for
\* each crash, stall or late error: for any number of processes that drain the
\* chat at the same time, of rejected starts and of direct starts.
THEOREM SendsArePaid == Spec => []SentOncePerFault
<1>1. QueueInv => SentOncePerFault
  <2> SUFFICES ASSUME QueueInv, NEW t \in Turn PROVE sent[t] <= 1 + faults
    BY DEF SentOncePerFault
  <2>1. /\ sent[t] + Cardinality(Starters(t)) + Waits(t) <= 1 + faults
        /\ Cardinality(Starters(t)) \in Nat
    BY FS_CardinalityType DEF QueueInv, StartsArePaid
  <2>2. sent[t] \in Nat /\ faults \in Nat /\ Waits(t) \in Nat
    BY DEF QueueInv, TypeOK, Waits
  <2> QED BY <2>1, <2>2
<1> QED BY <1>1, QueueInvHolds, PTL

\* claimNextQueuedChatTurn counts an attempt of a turn at most AttemptLimit times,
\* and once more at most for each fault: rejection alone never exceeds the limit.
THEOREM ClaimsAreBounded == Spec => []AttemptsBounded
<1>1. QueueInv => AttemptsBounded
  <2> SUFFICES ASSUME QueueInv, NEW t \in Turn PROVE attempts[t] <= AttemptLimit + faults
    BY DEF AttemptsBounded
  <2>1. attempts[t] + (IF Lapsed(t) THEN 1 ELSE 0) <= AttemptLimit + faults
    BY DEF QueueInv, ClaimsArePaid
  <2>2. attempts[t] \in Nat /\ faults \in Nat
    BY DEF QueueInv, TypeOK
  <2> QED BY <2>1, <2>2
<1> QED BY <1>1, QueueInvHolds, PTL

\* While a drain starts a turn, every older turn that had a row when the turn was
\* selected is settled, or lost its lease under a drain that was paused, in however
\* many processes turns are claimed, renewed and finished meanwhile.
THEOREM StartsAreInOrder == Spec => []StartedInOrder
<1>1. QueueInv => StartedInOrder
  BY DEF QueueInv, SelectedInOrder, StartedInOrder
<1> QED BY <1>1, QueueInvHolds, PTL

\* persistPreparedRunStart creates the message and run of a turn whose lease never
\* ran out under its drain only while the turn is leased, never when it was
\* cancelled, failed or completed meanwhile.
THEOREM SettledNeverSent == Spec => SettledIsNotSent
<1>1. QueueInv /\ [Next]_vars =>
        \A t \in Turn : t \notin stalled /\ sent'[t] # sent[t] => status[t] = "leased"
  <2> SUFFICES ASSUME QueueInv, [Next]_vars, NEW t \in Turn, t \notin stalled,
                      sent'[t] # sent[t]
               PROVE  status[t] = "leased"
    OBVIOUS
  <2>1. TypeInv
    BY DEF QueueInv, TypeInv
  <2>2. PICK p \in Process : Check(p) \/ StartRejected(p) \/ Create(p) \/ LateError(p)
    BY <2>1, StepFacts, QuietFacts, SeekFacts, CancelFacts, LeaseFacts, ClaimFacts,
       FinishFacts, CrashFacts
  <2>3. /\ drain[p].pc = "create" /\ drain[p].turn \in Turn
        /\ sent' = [sent EXCEPT ![drain[p].turn] = @ + 1]
    BY <2>1, <2>2, WorkFacts
  <2>4. t = drain[p].turn
    BY <2>3 DEF QueueInv, TypeOK
  <2>5. Holds(p)
    BY <2>3, <2>4 DEF QueueInv, UnstalledHold, Working
  <2> QED BY <2>4, <2>5 DEF Holds
<1> QED BY <1>1, QueueInvHolds, PTL DEF Spec, SettledIsNotSent
=============================================================================
