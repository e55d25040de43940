----------------------------- MODULE Quota_proofs -----------------------------
(***************************************************************************)
(* For any callers, buckets, limits, matches and bounds: the counters keep *)
(* the limits, a refusal means that a bucket is spent, and the severity a  *)
(* bucket has reached is announced.                                        *)
(***************************************************************************)
EXTENDS Quota, TLAPS

USE BucketsAssumption, CallAssumption, MatchesAssumption, LimitAssumption,
    PeriodicAssumption, CoordinatedAssumption, BoundAssumption

CallType ==
  [pc : {"idle", "listed", "reset", "write", "commit", "refused"},
   copy : [Bucket -> Row], given : [Bucket -> Nat], todo : SUBSET Bucket]
PerPeriodType(S) == [Bucket -> [Period -> S]]

\* The types, the bucket an update is about, and the buckets a call that has
\* reserved is still to write.
TypeInv ==
  /\ TypeOK
  /\ admin.pc # "idle" => admin.bucket \in Bucket
  /\ \A c \in Call : call[c].pc = "write" => call[c].todo \subseteq Matches[c]

LEMMA Constants ==
  /\ Period \subseteq Nat
  /\ 1 \in Period
  /\ FirstRow \in Row
  /\ Idle \in CallType
  BY DEF Period, FirstRow, Row, Idle, CallType, Bucket

LEMMA CallTypes == TypeOK => call \in [Call -> CallType]
  BY DEF TypeOK, CallType

\* What a step of the call c writes for it leaves the other calls alone.
LEMMA CallMoves ==
  ASSUME TypeOK, NEW c \in Call, NEW v \in CallType, call' = [call EXCEPT ![c] = v]
  PROVE  /\ call' \in [Call -> CallType]
         /\ call'[c] = v
         /\ \A d \in Call : d # c => call'[d] = call[d]
  BY DEF TypeOK, CallType

LEMMA InPeriodFacts ==
  ASSUME TypeOK, NEW c \in Call, NEW S, NEW f \in PerPeriodType(S),
         NEW B \in SUBSET Bucket, NEW value \in [B -> S]
  PROVE  /\ InPeriod(f, c, value) \in PerPeriodType(S)
         /\ \A b \in Bucket, k \in Period :
              InPeriod(f, c, value)[b][k] =
                IF b \in B /\ k = call[c].copy[b].period THEN value[b] ELSE f[b][k]
<1>1. \A b \in Bucket : call[c].copy[b].period \in Period
  BY DEF TypeOK, Row
<1>2. DOMAIN value = B
  OBVIOUS
<1> QED BY <1>1, <1>2 DEF InPeriod, PerPeriodType

LEMMA CountedType ==
  ASSUME TypeOK, NEW c \in Call, NEW b \in Bucket
  PROVE  /\ Counted(c, b) \in Nat
         /\ call[c].copy[b].used \in Nat
         /\ call[c].copy[b].period \in Period
         /\ call[c].given[b] \in Nat
         /\ Limit[b] \in Nat
         /\ Matches[c] \subseteq Bucket
<1>1. /\ call[c].copy[b] \in Row
      /\ call[c].given[b] \in Nat
  BY DEF TypeOK
<1>2. call[c].copy[b].used \in Nat /\ call[c].copy[b].period \in Period
  BY <1>1 DEF Row
<1>3. counters[b][call[c].copy[b].period] \in Nat \cup {None}
  BY <1>2 DEF TypeOK
<1> QED BY <1>1, <1>2, <1>3 DEF Counted

\* The counters a reservation writes, and the units it gives out.
LEMMA ReservationFacts ==
  ASSUME TypeOK, NEW c \in Call
  PROVE  /\ Counters(c) \in PerPeriodType(Nat \cup {None})
         /\ \A b \in Bucket, k \in Period :
              Counters(c)[b][k] =
                IF Coordinated /\ b \in Matches[c] /\ k = call[c].copy[b].period
                THEN Counted(c, b) + 1 ELSE counters[b][k]
         /\ Reserved(c) \in PerPeriodType(Nat)
         /\ \A b \in Bucket, k \in Period :
              Reserved(c)[b][k] =
                IF b \in Matches[c] /\ k = call[c].copy[b].period
                THEN reserved[b][k] + 1 ELSE reserved[b][k]
<1> DEFINE counted == [b \in Matches[c] |-> Counted(c, b) + 1]
           given == [b \in Matches[c] |-> reserved[b][call[c].copy[b].period] + 1]
<1>1. Matches[c] \in SUBSET Bucket
  OBVIOUS
<1>2. /\ counters \in PerPeriodType(Nat \cup {None})
      /\ reserved \in PerPeriodType(Nat)
  BY DEF TypeOK, PerPeriodType
<1>3. counted \in [Matches[c] -> Nat \cup {None}]
  BY <1>1, CountedType
<1>4. \A b \in Bucket : reserved[b][call[c].copy[b].period] \in Nat
  BY <1>2, CountedType DEF PerPeriodType
<1>5. given \in [Matches[c] -> Nat]
  BY <1>1, <1>4
<1>6. \A b \in Matches[c] :
         /\ counted[b] = Counted(c, b) + 1
         /\ given[b] = reserved[b][call[c].copy[b].period] + 1
  OBVIOUS
<1>7. /\ Counters(c) = IF Coordinated THEN InPeriod(counters, c, counted) ELSE counters
      /\ Reserved(c) = InPeriod(reserved, c, given)
  BY DEF Counters, Reserved
<1> HIDE DEF counted, given
<1>8. /\ InPeriod(counters, c, counted) \in PerPeriodType(Nat \cup {None})
      /\ \A b \in Bucket, k \in Period :
           InPeriod(counters, c, counted)[b][k] =
             IF b \in Matches[c] /\ k = call[c].copy[b].period
             THEN counted[b] ELSE counters[b][k]
  <2> DEFINE Count == Nat \cup {None}
  <2>1. counters \in PerPeriodType(Count) /\ counted \in [Matches[c] -> Count]
    BY <1>2, <1>3
  <2> HIDE DEF Count
  <2>2. /\ InPeriod(counters, c, counted) \in PerPeriodType(Count)
        /\ \A b \in Bucket, k \in Period :
             InPeriod(counters, c, counted)[b][k] =
               IF b \in Matches[c] /\ k = call[c].copy[b].period
               THEN counted[b] ELSE counters[b][k]
    <3> DEFINE f == counters
               B == Matches[c]
    <3>1. f \in PerPeriodType(Count) /\ counted \in [B -> Count] /\ B \in SUBSET Bucket
      BY <1>1, <2>1
    <3> HIDE DEF f, B
    <3>2. InPeriod(f, c, counted) \in PerPeriodType(Count)
      BY <3>1, InPeriodFacts, SMTT(30)
    <3>3. \A b \in Bucket, k \in Period :
             InPeriod(f, c, counted)[b][k] =
               IF b \in B /\ k = call[c].copy[b].period
               THEN counted[b] ELSE f[b][k]
      BY <3>1, InPeriodFacts, SMTT(30)
    <3> QED BY <3>2, <3>3 DEF f, B
  <2> QED BY <2>2 DEF Count
<1>9. /\ InPeriod(reserved, c, given) \in PerPeriodType(Nat)
      /\ \A b \in Bucket, k \in Period :
           InPeriod(reserved, c, given)[b][k] =
             IF b \in Matches[c] /\ k = call[c].copy[b].period
             THEN given[b] ELSE reserved[b][k]
  BY <1>1, <1>2, <1>5, InPeriodFacts
<1> QED BY <1>2, <1>6, <1>7, <1>8, <1>9

LEMMA SeverityFacts ==
  ASSUME NEW b \in Bucket
  PROVE  /\ \A m \in Nat : Severity(b, m) \in 0 .. 3
         /\ \A m, n \in Nat : m <= n => Severity(b, m) <= Severity(b, n)
         /\ Severity(b, 0) = 0
<1>1. Limit[b] \in Nat
  OBVIOUS
<1> QED BY <1>1 DEF Severity

\* What a call writes of a bucket, and the severity it announces of it.
LEMMA AfterFacts ==
  ASSUME TypeOK, NEW c \in Call, NEW b \in Bucket
  PROVE  /\ After(c, b) \in Row
         /\ After(c, b).period = call[c].copy[b].period
         /\ After(c, b).used = Higher(call[c].copy[b].used + 1, call[c].given[b])
         /\ After(c, b).used \in Nat
         /\ call[c].copy[b].used + 1 <= After(c, b).used
         /\ Raised(c, b) \in 0 .. 3
         /\ \/ Raised(c, b) = Severity(b, After(c, b).used)
            \/ Severity(b, After(c, b).used) = Severity(b, call[c].copy[b].used)
<1>1. call[c].copy[b] \in Row /\ call[c].given[b] \in Nat
  BY DEF TypeOK
<1>2. /\ After(c, b) \in Row
      /\ After(c, b).period = call[c].copy[b].period
      /\ After(c, b).used = Higher(call[c].copy[b].used + 1, call[c].given[b])
  BY <1>1 DEF After, Row, Higher
<1>3. /\ After(c, b).used \in Nat
      /\ call[c].copy[b].used \in Nat
      /\ call[c].copy[b].used + 1 <= After(c, b).used
  BY <1>1, <1>2 DEF Higher, Row
<1>4. Severity(b, call[c].copy[b].used) <= Severity(b, After(c, b).used)
      /\ Severity(b, call[c].copy[b].used) \in 0 .. 3
      /\ Severity(b, After(c, b).used) \in 0 .. 3
  BY <1>3, SeverityFacts
<1> QED BY <1>2, <1>3, <1>4 DEF Raised

-----------------------------------------------------------------------------
\* One lemma per step of a call: what becomes of the call, and the types.
Same(c) == \A d \in Call : d # c => call'[d] = call[d]

LEMMA ListFacts ==
  ASSUME TypeInv, NEW c \in Call, List(c)
  PROVE  /\ TypeInv' /\ Same(c)
         /\ call'[c].pc = "listed" /\ call'[c].copy = rows
<1> DEFINE v == [Idle EXCEPT !.pc = "listed", !.copy = rows]
<1>1. v.pc = "listed" /\ v.copy = rows /\ v \in CallType
  BY DEF TypeInv, TypeOK, CallType, Idle, FirstRow, Row, Period
<1>2. call' = [call EXCEPT ![c] = v]
  BY DEF List
<1> HIDE DEF v
<1>3. call' \in [Call -> CallType] /\ call'[c] = v /\ Same(c)
  BY <1>1, <1>2, CallMoves DEF TypeInv, Same
<1> QED BY <1>1, <1>3 DEF List, TypeInv, TypeOK, CallType, ghosts, Same

LEMMA DrawFacts ==
  ASSUME TypeInv, NEW c \in Call, DrawPeriods(c)
  PROVE  /\ TypeInv' /\ Same(c)
         /\ call[c].pc = "listed" /\ call'[c].pc = "reset"
         /\ \A b \in Bucket : \/ call'[c].copy[b] = call[c].copy[b]
                              \/ call'[c].copy[b].used = 0
<1>0. call[c] \in CallType
  BY CallTypes DEF TypeInv
<1> DEFINE copied == [b \in Bucket |-> IF b \in Due(c)
                                      THEN [used |-> 0, period |-> drawn'[b]]
                                      ELSE call[c].copy[b]]
           v == [call[c] EXCEPT !.pc = "reset", !.todo = Due(c), !.copy = copied]
<1>1. drawn' \in [Bucket -> Period]
  <2>1. ASSUME NEW b \in Due(c) PROVE drawn[b] + 1 \in Period
    <3>1. b \in Bucket /\ drawn[b] < MaxPeriods
      BY DEF DrawPeriods, Due
    <3> QED BY <3>1 DEF TypeInv, TypeOK, Period
  <2>2. drawn \in [Bucket -> Period]
    BY DEF TypeInv, TypeOK
  <2> QED BY <2>1, <2>2 DEF DrawPeriods
<1>2. copied \in [Bucket -> Row]
  BY <1>1 DEF TypeInv, TypeOK, Row
<1>3. Due(c) \in SUBSET Bucket
  BY DEF Due
<1>4. call' = [call EXCEPT ![c] = v]
  BY DEF DrawPeriods, TypeInv, TypeOK
<1>5. \A b \in Bucket : copied[b] = call[c].copy[b] \/ copied[b].used = 0
  OBVIOUS
<1> HIDE DEF copied
<1>6. v.pc = "reset" /\ v.copy = copied /\ v \in CallType
  BY <1>2, <1>3, <1>0 DEF CallType
<1> HIDE DEF v
<1>7. call' \in [Call -> CallType] /\ call'[c] = v /\ Same(c)
  BY <1>4, <1>6, CallMoves DEF TypeInv, Same
<1>8. TypeInv'
  BY <1>1, <1>6, <1>7 DEF DrawPeriods, TypeInv, TypeOK, CallType, ghosts, Same
<1> QED BY <1>5, <1>6, <1>7, <1>8 DEF DrawPeriods

\* Writing the row of b gives the row or nothing to the rest of the buckets.
LEMMA WriteFacts ==
  ASSUME TypeOK, NEW c \in Call, NEW b, NEW row, b \in Bucket => row \in Row,
         WriteRow(c, b, row)
  PROVE  /\ rows' \in [Bucket -> Row]
         /\ lock' \in [Bucket -> InTransaction \cup {None}]
         /\ \A x \in Bucket : \/ rows'[x] = rows[x]
                              \/ x = b /\ c \notin InTransaction /\ rows'[x] = row
<1>1. /\ rows \in [Bucket -> Row]
      /\ lock \in [Bucket -> InTransaction \cup {None}]
  BY DEF TypeOK
<1>2. CASE c \in InTransaction
  BY <1>1, <1>2 DEF WriteRow
<1>3. CASE c \notin InTransaction
  BY <1>1, <1>3 DEF WriteRow
<1> QED BY <1>2, <1>3

LEMMA ResetFacts ==
  ASSUME TypeInv, NEW c \in Call, ResetRow(c)
  PROVE  /\ TypeInv' /\ Same(c)
         /\ call[c].pc = "reset" /\ call'[c].pc = "reset"
         /\ call'[c].copy = call[c].copy
         /\ \A x \in Bucket : rows'[x] \in {rows[x], call[c].copy[x]}
<1>0. call[c] \in CallType
  BY CallTypes DEF TypeInv
<1> DEFINE b == Min(call[c].todo)
           v == [call[c] EXCEPT !.todo = @ \ {b}]
<1>1. call' = [call EXCEPT ![c] = v] /\ WriteRow(c, b, call[c].copy[b])
  BY DEF ResetRow, TypeInv, TypeOK
<1> HIDE DEF b
<1>2. v \in CallType /\ v.pc = call[c].pc /\ v.copy = call[c].copy
  BY <1>0 DEF CallType
<1>3. \A x \in Bucket : call[c].copy[x] \in Row
  BY DEF TypeInv, TypeOK
<1>4. /\ rows' \in [Bucket -> Row]
      /\ lock' \in [Bucket -> InTransaction \cup {None}]
      /\ \A x \in Bucket : rows'[x] \in {rows[x], call[c].copy[x]}
  BY <1>1, <1>3, WriteFacts DEF TypeInv
<1> HIDE DEF v
<1>5. call' \in [Call -> CallType] /\ call'[c] = v /\ Same(c)
  BY <1>1, <1>2, CallMoves DEF TypeInv, Same
<1>6. TypeInv'
  BY <1>2, <1>4, <1>5 DEF ResetRow, TypeInv, TypeOK, CallType, ghosts, Same
<1> QED BY <1>2, <1>4, <1>5, <1>6 DEF ResetRow

LEMMA ReserveFacts ==
  ASSUME TypeInv, NEW c \in Call, Reserve(c)
  PROVE  /\ TypeInv' /\ Same(c)
         /\ call'[c].pc = "write" /\ call'[c].copy = call[c].copy
         /\ \A b \in Matches[c] : call'[c].given[b] =
              IF Coordinated THEN Counted(c, b) + 1 ELSE call[c].copy[b].used + 1
<1>0. call[c] \in CallType
  BY CallTypes DEF TypeInv
<1> DEFINE given ==
             [b \in Bucket |->
                IF b \notin Matches[c] THEN 0
                ELSE IF Coordinated THEN Counted(c, b) + 1 ELSE call[c].copy[b].used + 1]
           v == [call[c] EXCEPT !.pc = "write", !.todo = Matches[c], !.given = given]
<1>1. call' = [call EXCEPT ![c] = v]
  BY DEF Reserve, TypeInv, TypeOK
<1>2. given \in [Bucket -> Nat]
  BY CountedType DEF TypeInv
<1>3. \A b \in Matches[c] : given[b] =
         IF Coordinated THEN Counted(c, b) + 1 ELSE call[c].copy[b].used + 1
  BY CountedType DEF TypeInv
<1> HIDE DEF given
<1>4. /\ v \in CallType /\ v.pc = "write" /\ v.copy = call[c].copy
      /\ v.given = given /\ v.todo = Matches[c]
  BY <1>2, <1>0 DEF CallType
<1> HIDE DEF v
<1>5. call' \in [Call -> CallType] /\ call'[c] = v /\ Same(c)
  BY <1>1, <1>4, CallMoves DEF TypeInv, Same
<1>6. /\ counters' \in PerPeriodType(Nat \cup {None})
      /\ reserved' \in PerPeriodType(Nat)
  BY ReservationFacts DEF Reserve, TypeInv
<1>7. TypeInv'
  BY <1>4, <1>5, <1>6 DEF Reserve, TypeInv, TypeOK, CallType, PerPeriodType, Same
<1> QED BY <1>3, <1>4, <1>5, <1>7

LEMMA RefuseFacts ==
  ASSUME TypeInv, NEW c \in Call, Refuse(c) \/ LoseReservation(c)
  PROVE  /\ TypeInv' /\ Same(c)
         /\ call'[c].pc = "refused" /\ call'[c].copy = call[c].copy
<1>0. call[c] \in CallType
  BY CallTypes DEF TypeInv
<1> DEFINE v == [call[c] EXCEPT !.pc = "refused"]
<1>1. call' = [call EXCEPT ![c] = v]
  BY DEF Refuse, LoseReservation, TypeInv, TypeOK
<1>2. v \in CallType /\ v.pc = "refused" /\ v.copy = call[c].copy
  BY <1>0 DEF CallType
<1> HIDE DEF v
<1>3. call' \in [Call -> CallType] /\ call'[c] = v /\ Same(c)
  BY <1>1, <1>2, CallMoves DEF TypeInv, Same
<1>4. /\ counters' \in PerPeriodType(Nat \cup {None})
      /\ reserved' \in PerPeriodType(Nat)
  BY ReservationFacts DEF Refuse, LoseReservation, ghosts, TypeInv, TypeOK, PerPeriodType
<1>5. faults' \in 0 .. MaxFaults
  BY DEF Refuse, LoseReservation, Fault, TypeInv, TypeOK
<1>6. TypeInv'
  BY <1>2, <1>3, <1>4, <1>5
  DEF Refuse, LoseReservation, TypeInv, TypeOK, CallType, PerPeriodType, ghosts, Same
<1> QED BY <1>2, <1>3, <1>6

LEMMA ConsumeFacts ==
  ASSUME TypeInv, NEW c \in Call, ConsumeRow(c)
  PROVE  /\ TypeInv' /\ Same(c)
         /\ call[c].pc = "write" /\ call'[c].pc = "write"
         /\ call'[c].copy = call[c].copy /\ call'[c].given = call[c].given
         /\ \A x \in Bucket :
              \/ rows'[x] = rows[x]
              \/ x \in Matches[c] /\ c \notin InTransaction /\ rows'[x] = After(c, x)
<1>0. call[c] \in CallType
  BY CallTypes DEF TypeInv
<1>1. PICK b \in call[c].todo : /\ WriteRow(c, b, After(c, b))
                                /\ call' = [call EXCEPT ![c].todo = @ \ {b}]
  BY DEF ConsumeRow
<1>2. b \in Matches[c] /\ b \in Bucket /\ call[c].todo \subseteq Matches[c]
  BY DEF ConsumeRow, TypeInv
<1> DEFINE v == [call[c] EXCEPT !.todo = @ \ {b}]
<1>3. call' = [call EXCEPT ![c] = v]
  BY <1>1 DEF TypeInv, TypeOK
<1>4. /\ v \in CallType /\ v.pc = call[c].pc /\ v.copy = call[c].copy
      /\ v.given = call[c].given /\ v.todo \subseteq Matches[c]
  BY <1>2, <1>0 DEF CallType
<1>5. /\ rows' \in [Bucket -> Row]
      /\ lock' \in [Bucket -> InTransaction \cup {None}]
      /\ \A x \in Bucket : \/ rows'[x] = rows[x]
                           \/ x = b /\ c \notin InTransaction /\ rows'[x] = After(c, b)
  <2>1. After(c, b) \in Row
    BY <1>2, AfterFacts DEF TypeInv
  <2> QED BY <1>1, <2>1, WriteFacts DEF TypeInv
<1> HIDE DEF v
<1>6. call' \in [Call -> CallType] /\ call'[c] = v /\ Same(c)
  BY <1>3, <1>4, CallMoves DEF TypeInv, Same
<1>7. TypeInv'
  BY <1>4, <1>5, <1>6 DEF ConsumeRow, TypeInv, TypeOK, CallType, ghosts, Same
<1> QED BY <1>2, <1>4, <1>5, <1>6, <1>7 DEF ConsumeRow

LEMMA AnnounceFacts ==
  ASSUME TypeInv, NEW c \in Call, Announce(c)
  PROVE  /\ TypeInv' /\ Same(c)
         /\ call[c].pc = "write"
         /\ call'[c].pc = IF c \in InTransaction THEN "commit" ELSE "idle"
         /\ \/ c \notin InTransaction /\ call'[c] = Idle
            \/ call'[c].copy = call[c].copy /\ call'[c].given = call[c].given
         /\ \A b \in Bucket, k \in Period :
              /\ announced[b][k] <= announced'[b][k]
              /\ b \in Matches[c] /\ k = call[c].copy[b].period =>
                   Raised(c, b) <= announced'[b][k]
<1>0. call[c] \in CallType /\ Idle \in CallType
  BY CallTypes, Constants DEF TypeInv
<1> DEFINE v == IF c \in InTransaction THEN [call[c] EXCEPT !.pc = "commit"] ELSE Idle
           value == [b \in Matches[c] |->
                       Higher(announced[b][call[c].copy[b].period], Raised(c, b))]
<1>1. call' = [call EXCEPT ![c] = v] /\ announced' = InPeriod(announced, c, value)
  BY DEF Announce, TypeInv, TypeOK
<1>2. /\ v \in CallType
      /\ v.pc = IF c \in InTransaction THEN "commit" ELSE "idle"
      /\ \/ c \notin InTransaction /\ v = Idle
         \/ v.copy = call[c].copy /\ v.given = call[c].given
  BY <1>0 DEF CallType, Idle
<1>3. announced \in PerPeriodType(0 .. 3)
  BY DEF TypeInv, TypeOK, PerPeriodType
<1>4. ASSUME NEW b \in Matches[c]
      PROVE  /\ announced[b][call[c].copy[b].period] \in 0 .. 3
             /\ Raised(c, b) \in 0 .. 3
  BY <1>3, CountedType, AfterFacts DEF TypeInv, PerPeriodType
<1>5. /\ value \in [Matches[c] -> 0 .. 3]
      /\ \A b \in Matches[c] : /\ announced[b][call[c].copy[b].period] <= value[b]
                              /\ Raised(c, b) <= value[b]
  BY <1>4 DEF Higher
<1> HIDE DEF value, v
<1>6. /\ announced' \in PerPeriodType(0 .. 3)
      /\ \A b \in Bucket, k \in Period :
           announced'[b][k] = IF b \in Matches[c] /\ k = call[c].copy[b].period
                              THEN value[b] ELSE announced[b][k]
  <2> DEFINE f == announced
             B == Matches[c]
             Sev == 0 .. 3
  <2>1. f \in PerPeriodType(Sev) /\ value \in [B -> Sev] /\ B \in SUBSET Bucket
    BY <1>3, <1>5
  <2>0. TypeOK
    BY DEF TypeInv
  <2> HIDE DEF f, B, Sev
  <2>2. /\ InPeriod(f, c, value) \in PerPeriodType(Sev)
        /\ \A b \in Bucket, k \in Period :
             InPeriod(f, c, value)[b][k] =
               IF b \in B /\ k = call[c].copy[b].period THEN value[b] ELSE f[b][k]
    BY <2>0, <2>1, InPeriodFacts, SMTT(30)
  <2> QED BY <1>1, <2>2 DEF f, B, Sev
<1>7. \A b \in Bucket, k \in Period :
         /\ announced[b][k] <= announced'[b][k]
         /\ b \in Matches[c] /\ k = call[c].copy[b].period =>
              Raised(c, b) <= announced'[b][k]
  <2> SUFFICES ASSUME NEW b \in Bucket, NEW k \in Period
      PROVE  /\ announced[b][k] <= announced'[b][k]
             /\ b \in Matches[c] /\ k = call[c].copy[b].period =>
                  Raised(c, b) <= announced'[b][k]
    OBVIOUS
  <2>1. announced[b][k] \in 0 .. 3
    BY <1>3 DEF PerPeriodType
  <2> QED BY <1>5, <1>6, <2>1
<1>8. call' \in [Call -> CallType] /\ call'[c] = v /\ Same(c)
  BY <1>1, <1>2, CallMoves DEF TypeInv, Same
<1>9. TypeInv'
  BY <1>2, <1>6, <1>8 DEF Announce, TypeInv, TypeOK, CallType, PerPeriodType, Same
<1> QED BY <1>2, <1>7, <1>8, <1>9 DEF Announce

LEMMA UnlockedType ==
  ASSUME TypeOK, NEW c \in Call
  PROVE  Unlocked(c) \in [Bucket -> InTransaction \cup {None}]
  BY DEF Unlocked, TypeOK

LEMMA CommitFacts ==
  ASSUME TypeInv, NEW c \in Call, Commit(c)
  PROVE  /\ TypeInv' /\ Same(c)
         /\ call[c].pc = "commit" /\ call'[c] = Idle
         /\ \A b \in Bucket : \/ rows'[b] = rows[b]
                              \/ b \in Matches[c] /\ rows'[b] = After(c, b)
                              \/ rows'[b] = call[c].copy[b]
<1>1. call' = [call EXCEPT ![c] = Idle] /\ Idle \in CallType
  BY Constants DEF Commit
<1>2. call' \in [Call -> CallType] /\ call'[c] = Idle /\ Same(c)
  BY <1>1, CallMoves DEF TypeInv, Same
<1>3. /\ rows' \in [Bucket -> Row]
      /\ \A b \in Bucket : \/ rows'[b] = rows[b]
                           \/ b \in Matches[c] /\ rows'[b] = After(c, b)
                           \/ rows'[b] = call[c].copy[b]
  <2>1. \A b \in Bucket : /\ rows[b] \in Row
                         /\ call[c].copy[b] \in Row
                         /\ After(c, b) \in Row
    BY AfterFacts DEF TypeInv, TypeOK
  <2> QED BY <2>1 DEF Commit
<1>4. lock' \in [Bucket -> InTransaction \cup {None}]
  BY UnlockedType DEF Commit, TypeInv
<1>5. TypeInv'
  <2>1. Idle.pc = "idle"
    BY DEF Idle
  <2> QED
    BY <1>2, <1>3, <1>4, <2>1 DEF Commit, TypeInv, TypeOK, CallType, ghosts, Same
<1> QED BY <1>2, <1>3, <1>5 DEF Commit

LEMMA EndFacts ==
  ASSUME TypeInv, NEW c \in Call, Throw(c) \/ Break(c)
  PROVE  /\ TypeInv' /\ Same(c)
         /\ call'[c] = Idle /\ rows' = rows
<1>1. call' = [call EXCEPT ![c] = Idle] /\ Idle \in CallType
  BY Constants DEF Throw, Break
<1>2. call' \in [Call -> CallType] /\ call'[c] = Idle /\ Same(c)
  BY <1>1, CallMoves DEF TypeInv, Same
<1>3. lock' \in [Bucket -> InTransaction \cup {None}]
  BY UnlockedType DEF Throw, Break, TypeInv, TypeOK
<1>4. faults' \in 0 .. MaxFaults
  BY DEF Throw, Break, Fault, TypeInv, TypeOK
<1>5. TypeInv'
  <2>1. Idle.pc = "idle"
    BY DEF Idle
  <2> QED
    BY <1>2, <1>3, <1>4, <2>1
    DEF Throw, Break, TypeInv, TypeOK, CallType, ghosts, Same
<1> QED BY <1>2, <1>5 DEF Throw, Break

\* What an administrator's update, the end of a period and the loss of a counter
\* leave.
LEMMA UpdateWriteFacts ==
  ASSUME TypeInv, NEW resetUsage \in BOOLEAN, UpdateWrite(resetUsage)
  PROVE  /\ TypeInv' /\ call' = call
         /\ admin'.row.period = admin.row.period
         /\ admin'.row.used \in {0, admin.row.used}
         /\ \A b \in Bucket : rows'[b] \in {rows[b], admin'.row}
<1>0. admin \in [pc : {"idle", "write", "sync"}, bucket : Nat, row : Row]
  BY DEF TypeInv, TypeOK
<1>1. admin' = [admin EXCEPT !.pc = "sync",
                             !.row.used = IF resetUsage THEN 0 ELSE @]
  BY DEF UpdateWrite
<1>2. admin.row \in Row
  BY <1>0
<1>3. /\ admin'.pc = "sync" /\ admin'.bucket = admin.bucket
      /\ admin'.row.period = admin.row.period
      /\ admin'.row.used \in {0, admin.row.used}
      /\ admin'.row \in Row
      /\ admin' \in [pc : {"idle", "write", "sync"}, bucket : Nat, row : Row]
  BY <1>0, <1>1, <1>2 DEF Row
<1>4. admin.bucket \in Bucket
  BY DEF UpdateWrite, TypeInv
<1>5. rows' \in [Bucket -> Row] /\ \A b \in Bucket : rows'[b] \in {rows[b], admin'.row}
  BY <1>3 DEF UpdateWrite, TypeInv, TypeOK
<1>6. TypeInv'
  BY <1>3, <1>4, <1>5 DEF UpdateWrite, TypeInv, TypeOK, ghosts
<1> QED BY <1>3, <1>5, <1>6 DEF UpdateWrite

LEMMA SyncFacts ==
  ASSUME TypeInv, Sync
  PROVE  /\ TypeInv' /\ call' = call /\ rows' = rows /\ admin' = NoUpdate
         /\ setBack \subseteq setBack'
         /\ \A b \in Bucket, k \in Period :
              \/ counters'[b][k] = counters[b][k]
              \/ /\ b = admin.bucket /\ k = admin.row.period
                 /\ counters'[b][k] = admin.row.used
                 /\ <<b, k>> \in setBack'
<1>1. /\ admin.bucket \in Bucket
      /\ admin.row.used \in Nat
      /\ admin.row.period \in Period
  BY DEF Sync, TypeInv, TypeOK, Row
<1>2. NoUpdate \in [pc : {"idle", "write", "sync"}, bucket : Nat, row : Row]
      /\ NoUpdate.pc = "idle"
  BY Constants DEF NoUpdate
<1>3. counters \in [Bucket -> [Period -> Nat \cup {None}]]
  BY DEF TypeInv, TypeOK
<1>4. counters' \in [Bucket -> [Period -> Nat \cup {None}]]
  <2>1. CASE Coordinated
    <3>1. counters' = [counters EXCEPT ![admin.bucket][admin.row.period] = admin.row.used]
      BY <2>1 DEF Sync
    <3> QED BY <1>1, <1>3, <3>1
  <2>2. CASE ~Coordinated
    BY <1>3, <2>2 DEF Sync
  <2> QED BY <2>1, <2>2
<1>5. setBack' \subseteq Bucket \X Period /\ setBack \subseteq setBack'
  BY <1>1 DEF Sync, TypeInv, TypeOK
<1>6. \A b \in Bucket, k \in Period :
         \/ counters'[b][k] = counters[b][k]
         \/ /\ b = admin.bucket /\ k = admin.row.period
            /\ counters'[b][k] = admin.row.used
            /\ <<b, k>> \in setBack'
  BY <1>1, <1>3 DEF Sync
<1>7. TypeInv'
  BY <1>2, <1>4, <1>5 DEF Sync, TypeInv, TypeOK
<1> QED BY <1>5, <1>6, <1>7 DEF Sync

LEMMA OtherFacts ==
  ASSUME TypeInv,
         \/ LoseSync
         \/ \E b \in Bucket : UpdateRead(b) \/ Elapse(b) \/ \E k \in Period : Evict(b, k)
  PROVE  /\ TypeInv' /\ call' = call /\ rows' = rows
         /\ admin' \in {admin, NoUpdate}
              \cup {[pc |-> "write", bucket |-> b, row |-> rows[b]] : b \in Bucket}
         /\ UNCHANGED <<reserved, announced>>
         /\ setBack \subseteq setBack'
         /\ \A b \in Bucket, k \in Period :
              \/ counters'[b][k] = counters[b][k]
              \/ counters'[b][k] = None /\ <<b, k>> \in setBack'
<1>1. CASE LoseSync
  <2>1. NoUpdate \in [pc : {"idle", "write", "sync"}, bucket : Nat, row : Row]
        /\ NoUpdate.pc = "idle"
    BY Constants DEF NoUpdate
  <2>2. faults' \in 0 .. MaxFaults
    BY <1>1 DEF LoseSync, Fault, TypeInv, TypeOK
  <2> QED BY <1>1, <2>1, <2>2 DEF LoseSync, TypeInv, TypeOK, ghosts
<1>2. ASSUME NEW b \in Bucket, UpdateRead(b)
      PROVE  /\ TypeInv'
             /\ UNCHANGED <<call, rows, ghosts, counters>>
             /\ admin' = [pc |-> "write", bucket |-> b, row |-> rows[b]]
  <2>1. updates' \in 0 .. MaxUpdates
    BY <1>2 DEF UpdateRead, TypeInv, TypeOK
  <2>2. /\ admin' \in [pc : {"idle", "write", "sync"}, bucket : Nat, row : Row]
        /\ admin'.bucket = b
    BY <1>2 DEF UpdateRead, TypeInv, TypeOK, Bucket
  <2> QED BY <1>2, <2>1, <2>2 DEF UpdateRead, TypeInv, TypeOK, ghosts
<1>3. ASSUME NEW b \in Bucket, Elapse(b)
      PROVE  TypeInv' /\ UNCHANGED <<call, rows, admin, ghosts, counters>>
  <2>1. over' \in [Bucket -> 0 .. MaxElapsed]
    BY <1>3 DEF Elapse, TypeInv, TypeOK
  <2> QED BY <1>3, <2>1 DEF Elapse, TypeInv, TypeOK, ghosts
<1>4. ASSUME NEW b \in Bucket, NEW k \in Period, Evict(b, k)
      PROVE  /\ TypeInv'
             /\ UNCHANGED <<call, rows, admin, reserved, announced>>
             /\ setBack' = setBack \cup {<<b, k>>}
             /\ counters' = [counters EXCEPT ![b][k] = None]
             /\ counters \in [Bucket -> [Period -> Nat \cup {None}]]
  <2>1. faults' \in 0 .. MaxFaults
    BY <1>4 DEF Evict, Fault, TypeInv, TypeOK
  <2>2. /\ counters' \in [Bucket -> [Period -> Nat \cup {None}]]
        /\ counters \in [Bucket -> [Period -> Nat \cup {None}]]
        /\ setBack' \subseteq Bucket \X Period
    BY <1>4 DEF Evict, TypeInv, TypeOK
  <2> QED BY <1>4, <2>1, <2>2 DEF Evict, TypeInv, TypeOK
<1>5. ASSUME NEW b \in Bucket, NEW k \in Period, Evict(b, k), NEW x \in Bucket,
             NEW m \in Period
      PROVE  \/ counters'[x][m] = counters[x][m]
             \/ counters'[x][m] = None /\ <<x, m>> \in setBack'
  BY <1>4, <1>5
<1> QED BY <1>1, <1>2, <1>3, <1>4, <1>5 DEF LoseSync, ghosts

LEMMA InitTypeInv == Init => TypeInv
<1> SUFFICES ASSUME Init PROVE TypeInv
  OBVIOUS
<1>1. call = [c \in Call |-> Idle] /\ Idle \in CallType /\ Idle.pc = "idle"
  BY Constants DEF Init, Idle
<1>2. rows \in [Bucket -> Row] /\ drawn \in [Bucket -> Period]
  BY Constants DEF Init
<1>3. admin \in [pc : {"idle", "write", "sync"}, bucket : Nat, row : Row]
      /\ admin.pc = "idle"
  BY Constants DEF Init, NoUpdate
<1>4. /\ counters \in [Bucket -> [Period -> Nat \cup {None}]]
      /\ reserved \in [Bucket -> [Period -> Nat]]
      /\ announced \in [Bucket -> [Period -> 0 .. 3]]
  BY DEF Init, PerPeriod
<1> QED BY <1>1, <1>2, <1>3, <1>4 DEF Init, TypeInv, TypeOK, CallType

\* The steps by which the units of a period, or its announcement, grow, and the
\* steps that leave them.
LEMMA ReservedGrows ==
  ASSUME TypeInv, [Next]_vars
  PROVE  /\ TypeInv'
         /\ \A b \in Bucket, k \in Period : reserved[b][k] <= reserved'[b][k]
         /\ setBack \subseteq setBack'
<1>1. reserved \in [Bucket -> [Period -> Nat]]
  BY DEF TypeInv, TypeOK
<1>2. ASSUME NEW c \in Call, CallStep(c)
      PROVE  TypeInv' /\ (UNCHANGED reserved \/ reserved' = Reserved(c))
             /\ setBack' = setBack
  BY <1>2, ListFacts, DrawFacts, ResetFacts, RefuseFacts, ReserveFacts, ConsumeFacts,
     AnnounceFacts, CommitFacts, EndFacts
  DEF CallStep, List, DrawPeriods, ResetRow, Refuse, Reserve, ConsumeRow, Announce,
      Commit, Throw, LoseReservation, Break, ghosts
<1>3. ASSUME NEW c \in Call, reserved' = Reserved(c), NEW b \in Bucket, NEW k \in Period
      PROVE  reserved[b][k] <= reserved'[b][k]
  BY <1>1, <1>3, ReservationFacts DEF TypeInv
<1>4. ASSUME NEW resetUsage \in BOOLEAN, UpdateWrite(resetUsage)
      PROVE  TypeInv' /\ UNCHANGED reserved /\ setBack' = setBack
  BY <1>4, UpdateWriteFacts DEF UpdateWrite, ghosts
<1>5. ASSUME Sync PROVE TypeInv' /\ UNCHANGED reserved /\ setBack \subseteq setBack'
  BY <1>5, SyncFacts DEF Sync
<1>6. CASE UNCHANGED vars
  <2>1. TypeInv'
    BY <1>6 DEF vars, ghosts, TypeInv, TypeOK
  <2> QED BY <1>1, <1>6, <2>1 DEF vars, ghosts
<1> QED BY <1>1, <1>2, <1>3, <1>4, <1>5, <1>6, OtherFacts DEF Next

-----------------------------------------------------------------------------
\* The shared counter of a period that nobody set back covers the units given
\* out, and has not passed the limit.
CounterKept ==
  \A b \in Bucket, k \in Period :
    <<b, k>> \notin setBack =>
      IF counters[b][k] = None
      THEN reserved[b][k] = 0
      ELSE reserved[b][k] <= counters[b][k] /\ counters[b][k] <= Limit[b]

LEMMA NextCounterKept ==
  Coordinated /\ TypeInv /\ CounterKept /\ [Next]_vars => CounterKept'
<1> SUFFICES ASSUME Coordinated, TypeInv, CounterKept, [Next]_vars,
                    NEW b \in Bucket, NEW k \in Period, <<b, k>> \notin setBack'
             PROVE  IF counters'[b][k] = None
                    THEN reserved'[b][k] = 0
                    ELSE /\ reserved'[b][k] <= counters'[b][k]
                         /\ counters'[b][k] <= Limit[b]
  BY DEF CounterKept
<1>1. /\ <<b, k>> \notin setBack
      /\ IF counters[b][k] = None
         THEN reserved[b][k] = 0
         ELSE reserved[b][k] <= counters[b][k] /\ counters[b][k] <= Limit[b]
      /\ reserved[b][k] \in Nat
      /\ counters[b][k] \in Nat \cup {None}
  BY ReservedGrows DEF CounterKept, TypeInv, TypeOK
<1>2. ASSUME NEW c \in Call, Checked(c), Allowed(c), counters' = Counters(c),
             reserved' = Reserved(c)
      PROVE  IF counters'[b][k] = None
             THEN reserved'[b][k] = 0
             ELSE reserved'[b][k] <= counters'[b][k] /\ counters'[b][k] <= Limit[b]
  <2>1. CASE b \in Matches[c] /\ k = call[c].copy[b].period
    <3>1. /\ Counted(c, b) \in Nat
          /\ Counted(c, b) + 1 <= Limit[b]
          /\ counters[b][k] # None => Counted(c, b) = counters[b][k]
      BY <1>2, <2>1, CountedType DEF Allowed, CountersAllow, Counted, TypeInv
    <3>2. /\ counters'[b][k] = Counted(c, b) + 1
          /\ reserved'[b][k] = reserved[b][k] + 1
      BY <1>2, <2>1, ReservationFacts DEF TypeInv
    <3> QED BY <1>1, <3>1, <3>2
  <2>2. CASE ~(b \in Matches[c] /\ k = call[c].copy[b].period)
    <3>1. counters'[b][k] = counters[b][k] /\ reserved'[b][k] = reserved[b][k]
      BY <1>2, <2>2, ReservationFacts DEF TypeInv
    <3> QED BY <1>1, <3>1
  <2> QED BY <2>1, <2>2
<1>3. ASSUME NEW c \in Call, CallStep(c)
      PROVE  \/ UNCHANGED <<counters, reserved>>
             \/ /\ Checked(c) /\ Allowed(c)
                /\ counters' = Counters(c) /\ reserved' = Reserved(c)
  BY <1>3
  DEF CallStep, List, DrawPeriods, ResetRow, Refuse, Reserve, ConsumeRow, Announce,
      Commit, Throw, LoseReservation, Break, ghosts
<1>4. ASSUME Sync PROVE counters'[b][k] = counters[b][k] /\ UNCHANGED reserved
  BY <1>4, SyncFacts DEF Sync
<1>5. ASSUME NEW resetUsage \in BOOLEAN, UpdateWrite(resetUsage)
      PROVE  UNCHANGED <<counters, reserved>>
  BY <1>5 DEF UpdateWrite, ghosts
<1>6. ASSUME \/ LoseSync
             \/ \E x \in Bucket : UpdateRead(x) \/ Elapse(x) \/ \E m \in Period : Evict(x, m)
      PROVE  counters'[b][k] = counters[b][k] /\ UNCHANGED reserved
  BY <1>6, OtherFacts
<1>7. CASE UNCHANGED vars
  BY <1>1, <1>7 DEF vars, ghosts
<1> QED BY <1>1, <1>2, <1>3, <1>4, <1>5, <1>6, <1>7 DEF Next

\* With the shared counters, the limit of a period is kept by whichever calls, in
\* transactions or not, whatever rows they have read, unless its counter was set
\* back.
THEOREM CountersKeepLimits ==
  ASSUME Coordinated
  PROVE  Spec => []LimitKept
<1>1. Init => CounterKept
  BY DEF Init, CounterKept, PerPeriod
<1>2. TypeInv /\ CounterKept => LimitKept
  BY DEF TypeInv, TypeOK, CounterKept, LimitKept
<1>3. Coordinated
  OBVIOUS
<1>4. TypeInv /\ CounterKept /\ [Next]_vars => TypeInv' /\ CounterKept'
  BY <1>3, ReservedGrows, NextCounterKept
<1> QED BY <1>1, <1>2, <1>4, InitTypeInv, PTL DEF Spec

\* Every state of the rows, the counters and the calls is well-typed.
THEOREM TypeCorrect == Spec => []TypeOK
<1>1. TypeInv => TypeOK
  BY DEF TypeInv
<1> QED BY <1>1, InitTypeInv, ReservedGrows, PTL DEF Spec

-----------------------------------------------------------------------------
\* The use in a row, in a copy of it and in a counter was given out.
Backed(b, row) == row.used <= reserved[b][row.period]

UseIsReserved ==
  /\ \A b \in Bucket : Backed(b, rows[b])
  /\ admin.pc # "idle" => Backed(admin.bucket, admin.row)
  /\ \A c \in Call, b \in Bucket : Backed(b, call[c].copy[b])
  /\ \A c \in Call : call[c].pc \in {"write", "commit"} =>
       \A b \in Matches[c] : Backed(b, After(c, b))
  /\ \A b \in Bucket, k \in Period :
       counters[b][k] # None => counters[b][k] <= reserved[b][k]

\* What was given out once stays given out.
LEMMA BackedStays ==
  ASSUME TypeInv, [Next]_vars, NEW b \in Bucket, NEW row \in Row, Backed(b, row)
  PROVE  row.used <= reserved'[b][row.period]
<1>1. row.used \in Nat /\ row.period \in Period
  BY DEF Row
<1>2. /\ reserved[b][row.period] \in Nat
      /\ reserved'[b][row.period] \in Nat
      /\ reserved[b][row.period] <= reserved'[b][row.period]
  BY <1>1, ReservedGrows DEF TypeInv, TypeOK
<1> QED BY <1>1, <1>2 DEF Backed

LEMMA RowsTyped ==
  ASSUME TypeInv
  PROVE  /\ \A b \in Bucket : rows[b] \in Row
         /\ admin.row \in Row
         /\ \A c \in Call, b \in Bucket : call[c].copy[b] \in Row /\ After(c, b) \in Row
         /\ \A c \in Call : Matches[c] \in SUBSET Bucket
  BY AfterFacts DEF TypeInv, TypeOK

LEMMA FirstRowBacked ==
  ASSUME TypeInv
  PROVE  /\ \A b \in Bucket : Backed(b, FirstRow)
         /\ \A b \in Bucket, row \in Row : row.used = 0 => Backed(b, row)
         /\ \A b \in Bucket : Idle.copy[b] = FirstRow
         /\ Idle.pc = "idle"
<1>1. \A b \in Bucket, k \in Period : reserved[b][k] \in Nat
  BY DEF TypeInv, TypeOK
<1>2. \A row \in Row : row.period \in Period
  BY DEF Row
<1>3. \A b \in Bucket, row \in Row : row.used = 0 => Backed(b, row)
  BY <1>1, <1>2 DEF Backed
<1>4. FirstRow \in Row /\ FirstRow.used = 0
  BY Constants DEF FirstRow
<1>5. Idle.pc = "idle" /\ \A b \in Bucket : Idle.copy[b] = FirstRow
  BY DEF Idle
<1> QED BY <1>3, <1>4, <1>5

\* Each part of UseIsReserved after a step, from where the step takes the rows.
LEMMA CallStepBacked ==
  ASSUME TypeInv, UseIsReserved, NEW c \in Call, CallStep(c)
  PROVE  /\ \A b \in Bucket : Backed(b, rows[b])'
         /\ \A b \in Bucket : Backed(b, call[c].copy[b])'
         /\ call'[c].pc \in {"write", "commit"} =>
              \A b \in Matches[c] : Backed(b, After(c, b))'
         /\ Same(c) /\ admin' = admin
         /\ \A b \in Bucket, k \in Period :
              counters'[b][k] # None => counters'[b][k] <= reserved'[b][k]
<1>0. [Next]_vars /\ TypeInv'
  BY ReservedGrows DEF Next
<1>1. ASSUME NEW b \in Bucket, NEW row \in Row, Backed(b, row)
      PROVE  row.used <= reserved'[b][row.period]
  BY <1>0, <1>1, BackedStays
<1>2. /\ \A b \in Bucket : rows[b].used <= reserved'[b][rows[b].period]
      /\ \A b \in Bucket : call[c].copy[b].used <= reserved'[b][call[c].copy[b].period]
      /\ call[c].pc \in {"write", "commit"} => \A b \in Matches[c] :
           After(c, b).used <= reserved'[b][After(c, b).period]
  BY <1>1, RowsTyped DEF UseIsReserved
<1>3. \A b \in Bucket : \A row \in Row : row.used = 0 =>
        row.used <= reserved'[b][row.period]
  <2>1. \A row \in Row : row.period \in Period
    BY DEF Row
  <2>2. \A b \in Bucket, k \in Period : reserved'[b][k] \in Nat
    BY <1>0 DEF TypeInv, TypeOK
  <2> QED BY <2>1, <2>2
<1>4. \A b \in Bucket : call'[c].copy[b] \in Row
  BY <1>0 DEF TypeInv, TypeOK
<1>5. Same(c) /\ admin' = admin
  BY ListFacts, DrawFacts, ResetFacts, RefuseFacts, ReserveFacts, ConsumeFacts,
     AnnounceFacts, CommitFacts, EndFacts
  DEF CallStep, List, DrawPeriods, ResetRow, Refuse, Reserve, ConsumeRow, Announce,
      Commit, Throw, LoseReservation, Break
<1>6. \/ rows' = rows
      \/ ResetRow(c) \/ ConsumeRow(c) \/ Commit(c)
  BY DEF CallStep, List, DrawPeriods, Refuse, Reserve, Announce, Throw,
         LoseReservation, Break
<1>7. \A b \in Bucket : Backed(b, rows[b])'
  <2>1. \A b \in Bucket : \/ rows'[b] = rows[b]
                         \/ rows'[b] = call[c].copy[b]
                         \/ /\ call[c].pc \in {"write", "commit"}
                            /\ b \in Matches[c] /\ rows'[b] = After(c, b)
    BY <1>6, ResetFacts, ConsumeFacts, CommitFacts
  <2> QED BY <1>2, <2>1 DEF Backed
<1>8. \A b \in Bucket : Backed(b, call[c].copy[b])'
  <2>1. \A b \in Bucket : \/ call'[c].copy[b] = call[c].copy[b]
                         \/ call'[c].copy[b] = rows[b]
                         \/ call'[c].copy[b].used = 0
    BY ListFacts, DrawFacts, ResetFacts, RefuseFacts, ReserveFacts, ConsumeFacts,
       AnnounceFacts, CommitFacts, EndFacts, FirstRowBacked
    DEF CallStep, FirstRow
  <2> QED BY <1>2, <1>3, <1>4, <2>1 DEF Backed
<1>9. \A b \in Bucket, k \in Period :
         counters'[b][k] # None => counters'[b][k] <= reserved'[b][k]
  <2>1. \/ UNCHANGED <<counters, reserved>>
        \/ counters' = Counters(c) /\ reserved' = Reserved(c)
    BY DEF CallStep, List, DrawPeriods, ResetRow, Refuse, Reserve, ConsumeRow,
           Announce, Commit, Throw, LoseReservation, Break, ghosts
  <2>2. SUFFICES ASSUME NEW b \in Bucket, NEW k \in Period, counters'[b][k] # None,
                        counters' = Counters(c), reserved' = Reserved(c)
                 PROVE  counters'[b][k] <= reserved'[b][k]
    BY <2>1 DEF UseIsReserved
  <2>3. /\ reserved[b][k] \in Nat
        /\ counters[b][k] \in Nat \cup {None}
        /\ counters[b][k] # None => counters[b][k] <= reserved[b][k]
    BY DEF UseIsReserved, TypeInv, TypeOK
  <2>4. CASE b \in Matches[c] /\ k = call[c].copy[b].period
    <3>1. Counted(c, b) <= reserved[b][k] /\ Counted(c, b) \in Nat
      BY <2>3, <2>4, CountedType DEF Counted, UseIsReserved, Backed, TypeInv
    <3>2. /\ counters'[b][k] \in {Counted(c, b) + 1, counters[b][k]}
          /\ reserved'[b][k] = reserved[b][k] + 1
      BY <2>2, <2>4, ReservationFacts DEF TypeInv
    <3> QED BY <2>2, <2>3, <3>1, <3>2
  <2>5. CASE ~(b \in Matches[c] /\ k = call[c].copy[b].period)
    <3>1. counters'[b][k] = counters[b][k] /\ reserved'[b][k] = reserved[b][k]
      BY <2>2, <2>5, ReservationFacts DEF TypeInv
    <3> QED BY <2>2, <2>3, <3>1
  <2> QED BY <2>4, <2>5
<1>10. ASSUME call'[c].pc \in {"write", "commit"}, NEW b \in Matches[c]
       PROVE  Backed(b, After(c, b))'
  <2>0. b \in Bucket
    BY RowsTyped
  <2>1. CASE Reserve(c)
    <3>1. /\ call'[c].copy = call[c].copy
          /\ call'[c].given[b] =
               IF Coordinated THEN Counted(c, b) + 1 ELSE call[c].copy[b].used + 1
      BY <2>1, ReserveFacts
    <3> DEFINE k == call[c].copy[b].period
    <3>2. /\ reserved[b][k] \in Nat
          /\ counters[b][k] # None => counters[b][k] <= reserved[b][k]
          /\ call[c].copy[b].used <= reserved[b][k]
          /\ call[c].copy[b].used \in Nat
          /\ Counted(c, b) \in Nat
          /\ k \in Period
      BY <2>0, CountedType DEF UseIsReserved, Backed, TypeInv, TypeOK
    <3>3. Counted(c, b) <= reserved[b][k]
      BY <3>2 DEF Counted
    <3>4. reserved'[b][k] = reserved[b][k] + 1
      BY <2>0, <2>1, <3>2, ReservationFacts DEF Reserve, TypeInv
    <3>5. /\ After(c, b)'.period = k
          /\ After(c, b)'.used = Higher(call[c].copy[b].used + 1, call'[c].given[b])
      BY <1>4, <2>0, <3>1 DEF After, Row
    <3> QED BY <3>1, <3>2, <3>3, <3>4, <3>5 DEF Backed, Higher
  <2>2. CASE ~Reserve(c)
    <3>1. /\ call[c].pc \in {"write", "commit"}
          /\ call'[c].copy = call[c].copy /\ call'[c].given = call[c].given
      BY <1>10, <2>2, ListFacts, DrawFacts, ResetFacts, RefuseFacts, ConsumeFacts,
         AnnounceFacts, CommitFacts, EndFacts, FirstRowBacked
      DEF CallStep
    <3>2. After(c, b)' = After(c, b)
      BY <3>1 DEF After
    <3> QED BY <1>2, <3>1, <3>2 DEF Backed
  <2> QED BY <2>1, <2>2
<1> QED BY <1>5, <1>7, <1>8, <1>9, <1>10

LEMMA InitUseIsReserved == Init => UseIsReserved
<1> SUFFICES ASSUME Init PROVE UseIsReserved
  OBVIOUS
<1>1. TypeInv
  BY InitTypeInv
<1>2. rows = [b \in Bucket |-> FirstRow] /\ admin.pc = "idle"
  BY DEF Init, NoUpdate
<1>3. \A c \in Call : call[c] = Idle
  BY DEF Init
<1>4. \A b \in Bucket, k \in Period : counters[b][k] = None
  BY DEF Init, PerPeriod
<1> QED BY <1>1, <1>2, <1>3, <1>4, FirstRowBacked DEF UseIsReserved

LEMMA NextUseIsReserved == TypeInv /\ UseIsReserved /\ [Next]_vars => UseIsReserved'
<1> SUFFICES ASSUME TypeInv, UseIsReserved, [Next]_vars PROVE UseIsReserved'
  OBVIOUS
<1>0. TypeInv'
  BY ReservedGrows
<1>1. ASSUME NEW b \in Bucket, NEW row \in Row, Backed(b, row)
      PROVE  row.used <= reserved'[b][row.period]
  BY <1>1, BackedStays
<1>2. /\ \A b \in Bucket : rows[b].used <= reserved'[b][rows[b].period]
      /\ admin.pc # "idle" => admin.row.used <= reserved'[admin.bucket][admin.row.period]
      /\ \A c \in Call, b \in Bucket :
           call[c].copy[b].used <= reserved'[b][call[c].copy[b].period]
      /\ \A c \in Call : call[c].pc \in {"write", "commit"} => \A b \in Matches[c] :
           After(c, b).used <= reserved'[b][After(c, b).period]
  BY <1>1, RowsTyped DEF UseIsReserved, TypeInv
\* The parts about a call that the step leaves alone.
<1>3. ASSUME NEW c \in Call, call'[c] = call[c]
      PROVE  /\ \A b \in Bucket : Backed(b, call[c].copy[b])'
             /\ call'[c].pc \in {"write", "commit"} =>
                  \A b \in Matches[c] : Backed(b, After(c, b))'
  BY <1>2, <1>3 DEF Backed, After
<1>4. ASSUME NEW c \in Call, CallStep(c) PROVE UseIsReserved'
  <2>1. /\ \A b \in Bucket : Backed(b, rows[b])'
        /\ \A b \in Bucket : Backed(b, call[c].copy[b])'
        /\ call'[c].pc \in {"write", "commit"} =>
             \A b \in Matches[c] : Backed(b, After(c, b))'
        /\ \A d \in Call : d # c => call'[d] = call[d]
        /\ admin' = admin
        /\ \A b \in Bucket, k \in Period :
             counters'[b][k] # None => counters'[b][k] <= reserved'[b][k]
    BY <1>4, CallStepBacked DEF Same
  <2>2. admin'.pc # "idle" => Backed(admin.bucket, admin.row)'
    BY <1>2, <2>1 DEF Backed
  <2>3. \A d \in Call : \A b \in Bucket : Backed(b, call[d].copy[b])'
    BY <1>3, <2>1
  <2>4. \A d \in Call : call'[d].pc \in {"write", "commit"} =>
          \A b \in Matches[d] : Backed(b, After(d, b))'
    BY <1>3, <2>1
  <2> QED BY <2>1, <2>2, <2>3, <2>4 DEF UseIsReserved
<1>5. ASSUME NEW resetUsage \in BOOLEAN, UpdateWrite(resetUsage)
      PROVE  UseIsReserved'
  <2>1. /\ call' = call /\ UNCHANGED <<reserved, counters>>
        /\ admin'.bucket = admin.bucket /\ admin.pc = "write"
        /\ rows' = [rows EXCEPT ![admin.bucket] = admin'.row]
    BY <1>5 DEF UpdateWrite, ghosts, TypeInv, TypeOK
  <2>2. /\ admin'.row \in Row
        /\ admin'.row.period = admin.row.period
        /\ admin'.row.used \in {0, admin.row.used}
        /\ admin.bucket \in Bucket
    BY <1>0, <1>5, <2>1, UpdateWriteFacts DEF TypeInv, TypeOK
  <2>3. reserved[admin.bucket][admin.row.period] \in Nat
    <3>1. admin.row.period \in Period
      BY DEF TypeInv, TypeOK, Row
    <3> QED BY <2>2, <3>1 DEF TypeInv, TypeOK
  <2>4. Backed(admin.bucket, admin.row)'
    BY <2>1, <2>2, <2>3 DEF Backed, UseIsReserved
  <2>5. \A b \in Bucket : Backed(b, rows[b])'
    <3> SUFFICES ASSUME NEW b \in Bucket PROVE Backed(b, rows[b])'
      OBVIOUS
    <3>1. rows'[b] = rows[b] \/ (b = admin.bucket /\ rows'[b] = admin'.row)
      BY <2>1 DEF TypeInv, TypeOK
    <3> QED BY <1>2, <2>1, <2>4, <3>1 DEF Backed
  <2> QED BY <1>3, <2>1, <2>4, <2>5 DEF UseIsReserved
<1>6. ASSUME Sync PROVE UseIsReserved'
  <2>1. call' = call /\ rows' = rows /\ admin'.pc = "idle" /\ UNCHANGED reserved
    BY <1>6, SyncFacts DEF Sync, NoUpdate
  <2>2. \A b \in Bucket, k \in Period :
          counters'[b][k] # None => counters'[b][k] <= reserved'[b][k]
    BY <1>2, <1>6, <2>1, SyncFacts DEF UseIsReserved, Sync
  <2> QED BY <1>2, <1>3, <2>1, <2>2 DEF UseIsReserved, Backed
<1>7. ASSUME \/ LoseSync
             \/ \E x \in Bucket : UpdateRead(x) \/ Elapse(x) \/ \E m \in Period : Evict(x, m)
      PROVE  UseIsReserved'
  <2>1. /\ call' = call /\ rows' = rows /\ UNCHANGED reserved
        /\ \A b \in Bucket, k \in Period :
             counters'[b][k] = counters[b][k] \/ counters'[b][k] = None
        /\ admin' \in {admin, NoUpdate}
              \cup {[pc |-> "write", bucket |-> b, row |-> rows[b]] : b \in Bucket}
    BY <1>7, OtherFacts
  <2>2. admin'.pc # "idle" => Backed(admin.bucket, admin.row)'
    BY <1>2, <2>1 DEF Backed, NoUpdate
  <2>3. \A b \in Bucket, k \in Period :
          counters'[b][k] # None => counters'[b][k] <= reserved'[b][k]
    BY <2>1 DEF UseIsReserved
  <2> QED BY <1>2, <1>3, <2>1, <2>2, <2>3 DEF UseIsReserved, Backed
<1>8. CASE UNCHANGED vars
  BY <1>8 DEF vars, ghosts, UseIsReserved, Backed, After
<1> QED BY <1>4, <1>5, <1>6, <1>7, <1>8 DEF Next

\* A refusal means that a unit of room is missing in what was given out.
LEMMA RefusalIsSpent ==
  ASSUME TypeInv, UseIsReserved, NEW c \in Call, ~Allowed(c)
  PROVE  \E b \in Matches[c] : Limit[b] <= reserved[b][call[c].copy[b].period]
<1>1. PICK b \in Matches[c] : \/ ~(call[c].copy[b].used + 1 <= Limit[b])
                              \/ ~(Counted(c, b) + 1 <= Limit[b])
  BY DEF Allowed, RowsAllow, CountersAllow
<1> DEFINE k == call[c].copy[b].period
<1>2. /\ Counted(c, b) \in Nat /\ call[c].copy[b].used \in Nat /\ k \in Period
      /\ Limit[b] \in Nat /\ b \in Bucket
  BY CountedType DEF TypeInv
<1>3. /\ reserved[b][k] \in Nat
      /\ call[c].copy[b].used <= reserved[b][k]
      /\ counters[b][k] # None => counters[b][k] <= reserved[b][k]
  BY <1>2 DEF TypeInv, TypeOK, UseIsReserved, Backed
<1>4. Counted(c, b) <= reserved[b][k]
  BY <1>3 DEF Counted
<1> QED BY <1>1, <1>2, <1>3, <1>4

LEMMA FaultsStay ==
  ASSUME TypeInv, [Next]_vars, faults' = 0
  PROVE  faults = 0
<1>1. faults \in Nat
  BY DEF TypeInv, TypeOK
<1>2. CASE Fault
  BY <1>1, <1>2 DEF Fault
<1>3. ASSUME NEW c \in Call, CallStep(c) PROVE Fault \/ faults' = faults
  BY <1>3
  DEF CallStep, List, DrawPeriods, ResetRow, Refuse, Reserve, ConsumeRow, Announce,
      Commit, Throw, LoseReservation, Break
<1>4. CASE \E c \in Call : CallStep(c)
  BY <1>2, <1>3, <1>4
<1>5. CASE \/ \E resetUsage \in BOOLEAN : UpdateWrite(resetUsage)
           \/ Sync \/ LoseSync
           \/ \E b \in Bucket : UpdateRead(b) \/ Elapse(b) \/ \E k \in Period : Evict(b, k)
  BY <1>2, <1>5 DEF UpdateWrite, Sync, LoseSync, UpdateRead, Elapse, Evict
<1>6. CASE UNCHANGED vars
  BY <1>6 DEF vars
<1> QED BY <1>4, <1>5, <1>6 DEF Next

LEMMA NextRefused ==
  TypeInv /\ UseIsReserved /\ RefusedWhenSpent /\ [Next]_vars => RefusedWhenSpent'
<1> SUFFICES ASSUME TypeInv, UseIsReserved, RefusedWhenSpent, [Next]_vars,
                    NEW c \in Call, call'[c].pc = "refused", faults' = 0
             PROVE  \E b \in Matches[c] : reserved'[b][call'[c].copy[b].period] >= Limit[b]
  BY DEF RefusedWhenSpent
<1>1. ASSUME Refuse(c) \/ call'[c] = call[c]
      PROVE  call'[c].copy = call[c].copy /\ \E b \in Matches[c] :
               Limit[b] <= reserved[b][call[c].copy[b].period]
  <2>1. CASE Refuse(c)
    BY <2>1, RefuseFacts, RefusalIsSpent DEF Refuse
  <2>2. CASE call'[c] = call[c]
    <3>1. faults = 0
      BY FaultsStay
    <3>2. PICK b \in Matches[c] : reserved[b][call[c].copy[b].period] >= Limit[b]
      BY <2>2, <3>1 DEF RefusedWhenSpent
    <3>3. Limit[b] \in Nat /\ reserved[b][call[c].copy[b].period] \in Nat
      BY CountedType DEF TypeInv, TypeOK
    <3> QED BY <2>2, <3>2, <3>3
  <2> QED BY <1>1, <2>1, <2>2
<1>2. Refuse(c) \/ call'[c] = call[c]
  <2>1. ASSUME NEW d \in Call, CallStep(d), d # c PROVE call'[c] = call[c]
    BY <2>1, ListFacts, DrawFacts, ResetFacts, RefuseFacts, ReserveFacts, ConsumeFacts,
       AnnounceFacts, CommitFacts, EndFacts
    DEF CallStep, Same
  <2>2. ASSUME CallStep(c) PROVE Refuse(c)
    <3>1. ~LoseReservation(c)
      BY DEF LoseReservation, Fault, TypeInv, TypeOK
    <3> QED
      BY <2>2, <3>1, ListFacts, DrawFacts, ResetFacts, ReserveFacts, ConsumeFacts,
         AnnounceFacts, CommitFacts, EndFacts, FirstRowBacked
      DEF CallStep
  <2> QED
    BY <2>1, <2>2, UpdateWriteFacts, SyncFacts, OtherFacts DEF Next, vars
<1>3. PICK b \in Matches[c] : Limit[b] <= reserved[b][call[c].copy[b].period]
  BY <1>1, <1>2
<1>4. /\ call[c].copy[b].period \in Period /\ b \in Bucket /\ Limit[b] \in Nat
  BY CountedType DEF TypeInv
<1>5. /\ reserved[b][call[c].copy[b].period] \in Nat
      /\ reserved'[b][call[c].copy[b].period] \in Nat
      /\ reserved[b][call[c].copy[b].period] <= reserved'[b][call[c].copy[b].period]
  BY <1>4, ReservedGrows DEF TypeInv, TypeOK
<1> QED BY <1>1, <1>2, <1>3, <1>4, <1>5

\* Without faults a call is refused only for a bucket of which all units of the
\* period it knows were given out.
THEOREM RefusalsAreDue == Spec => []RefusedWhenSpent
<1>1. Init => RefusedWhenSpent
  BY DEF Init, Idle, RefusedWhenSpent
<1> QED
  BY <1>1, InitTypeInv, InitUseIsReserved, ReservedGrows, NextUseIsReserved,
     NextRefused, PTL
  DEF Spec

-----------------------------------------------------------------------------
\* The severity s of the bucket b in its period k is announced, or a call that
\* writes rows others see, and has brought the bucket there, is about to.
Settled(b, k, s) ==
  \/ s <= announced[b][k]
  \/ \E d \in Call \ InTransaction :
       /\ call[d].pc = "write" /\ b \in Matches[d]
       /\ call[d].copy[b].period = k
       /\ s <= Raised(d, b)

RowSettled(b, row) == Settled(b, row.period, Severity(b, row.used))

\* So is the severity of every row, of every copy of it, and of what a call that
\* has announced writes when it commits.
SeveritySettled ==
  faults = 0 =>
    /\ \A b \in Bucket : RowSettled(b, rows[b])
    /\ admin.pc # "idle" =>
         \A b \in Bucket : b = admin.bucket => RowSettled(b, admin.row)
    /\ \A c \in Call, b \in Bucket : RowSettled(b, call[c].copy[b])
    /\ \A c \in Call : call[c].pc = "commit" =>
         \A b \in Matches[c] : RowSettled(b, After(c, b))

\* What is announced is not taken back.
LEMMA AnnouncedGrows ==
  ASSUME TypeInv, [Next]_vars, NEW b \in Bucket, NEW k \in Period
  PROVE  announced[b][k] <= announced'[b][k] /\ announced[b][k] \in 0 .. 3
<1>1. announced[b][k] \in 0 .. 3
  BY DEF TypeInv, TypeOK
<1>2. ASSUME NEW c \in Call, CallStep(c) PROVE Announce(c) \/ UNCHANGED announced
  BY <1>2
  DEF CallStep, List, DrawPeriods, ResetRow, Refuse, Reserve, ConsumeRow, Announce,
      Commit, Throw, LoseReservation, Break, ghosts
<1>3. ASSUME NEW c \in Call, CallStep(c) PROVE announced[b][k] <= announced'[b][k]
  BY <1>1, <1>2, <1>3, AnnounceFacts
<1>4. CASE \/ \E resetUsage \in BOOLEAN : UpdateWrite(resetUsage)
           \/ Sync
           \/ UNCHANGED vars
  <2>1. announced' = announced
    BY <1>4 DEF UpdateWrite, Sync, vars, ghosts
  <2> QED BY <1>1, <2>1
<1> QED BY <1>1, <1>3, <1>4, OtherFacts DEF Next

\* Each step takes a call of that writes by itself on, or lets it announce.
LEMMA WriterGoesOn ==
  ASSUME TypeInv, [Next]_vars, faults' = 0, NEW d \in Call \ InTransaction,
         call[d].pc = "write"
  PROVE  \/ /\ call'[d].pc = "write"
            /\ call'[d].copy = call[d].copy /\ call'[d].given = call[d].given
         \/ Announce(d)
<1>1. ~Fault
  BY DEF Fault, TypeInv, TypeOK
<1>2. CASE CallStep(d)
  <2>1. ConsumeRow(d) \/ Announce(d)
    BY <1>1, <1>2
    DEF CallStep, List, DrawPeriods, ResetRow, Refuse, Reserve, Commit, Throw,
        LoseReservation, Break, Checked
  <2> QED BY <2>1, ConsumeFacts
<1>3. ASSUME NEW c \in Call, CallStep(c), c # d PROVE call'[d] = call[d]
  BY <1>3, ListFacts, DrawFacts, ResetFacts, RefuseFacts, ReserveFacts, ConsumeFacts,
     AnnounceFacts, CommitFacts, EndFacts
  DEF CallStep, Same
<1>4. CASE ~\E c \in Call : CallStep(c)
  BY <1>4, UpdateWriteFacts, SyncFacts, OtherFacts DEF Next, vars
<1> QED BY <1>2, <1>3, <1>4

\* Settled after the step, of a period and a severity as they are.
SettledNext(b, k, s) ==
  \/ s <= announced'[b][k]
  \/ \E d \in Call \ InTransaction :
       /\ call'[d].pc = "write" /\ b \in Matches[d]
       /\ call'[d].copy[b].period = k
       /\ s <= Raised(d, b)'

RowSettledNext(b, row) == SettledNext(b, row.period, Severity(b, row.used))

\* Raised depends on the call's copy and what it was given only.
LEMMA RaisedStays ==
  ASSUME NEW d \in Call, NEW b \in Bucket,
         call'[d].copy = call[d].copy, call'[d].given = call[d].given
  PROVE  Raised(d, b)' = Raised(d, b) /\ After(d, b)' = After(d, b)
  BY DEF Raised, After, Severity, Higher

LEMMA SettledStays ==
  ASSUME TypeInv, [Next]_vars, faults' = 0, NEW b \in Bucket, NEW k \in Period,
         NEW s \in 0 .. 3, Settled(b, k, s)
  PROVE  SettledNext(b, k, s)
<1>0. announced'[b][k] \in 0 .. 3
  BY ReservedGrows DEF TypeInv, TypeOK
<1>1. CASE s <= announced[b][k]
  BY <1>0, <1>1, AnnouncedGrows DEF SettledNext
<1>2. ASSUME NEW d \in Call \ InTransaction, call[d].pc = "write", b \in Matches[d],
             call[d].copy[b].period = k, s <= Raised(d, b)
      PROVE  SettledNext(b, k, s)
  <2>1. CASE Announce(d)
    <3>1. Raised(d, b) <= announced'[b][k] /\ Raised(d, b) \in 0 .. 3
      BY <1>2, <2>1, AnnounceFacts, AfterFacts DEF TypeInv
    <3> QED BY <1>0, <1>2, <3>1 DEF SettledNext
  <2>2. CASE /\ call'[d].pc = "write"
             /\ call'[d].copy = call[d].copy /\ call'[d].given = call[d].given
    <3>1. Raised(d, b)' = Raised(d, b)
      BY <2>2, RaisedStays
    <3> QED BY <1>2, <2>2, <3>1 DEF SettledNext
  <2> QED BY <1>2, <2>1, <2>2, WriterGoesOn
<1> QED BY <1>1, <1>2 DEF Settled

\* A row that is settled stays so, and a bucket without use is.
LEMMA RowStaysSettled ==
  ASSUME TypeInv, [Next]_vars, faults' = 0, NEW b \in Bucket, NEW row \in Row,
         RowSettled(b, row) \/ row.used = 0
  PROVE  RowSettledNext(b, row)
<1>1. row.used \in Nat /\ row.period \in Period
  BY DEF Row
<1>2. Severity(b, row.used) \in 0 .. 3
  BY <1>1, SeverityFacts
<1>3. CASE RowSettled(b, row)
  BY <1>1, <1>2, <1>3, SettledStays DEF RowSettled, RowSettledNext
<1>4. CASE row.used = 0
  <2>1. Severity(b, row.used) = 0
    BY <1>4, SeverityFacts
  <2>2. announced'[b][row.period] \in 0 .. 3
    BY <1>1, ReservedGrows DEF TypeInv, TypeOK
  <2> QED BY <2>1, <2>2 DEF RowSettledNext, SettledNext
<1> QED BY <1>3, <1>4

LEMMA CallStepSettled ==
  ASSUME TypeInv, SeveritySettled, NEW c \in Call, CallStep(c), faults' = 0
  PROVE  /\ \A b \in Bucket : RowSettledNext(b, rows'[b])
         /\ \A b \in Bucket : RowSettledNext(b, call'[c].copy[b])
         /\ call'[c].pc = "commit" =>
              \A b \in Matches[c] : RowSettledNext(b, After(c, b)')
<1>0. [Next]_vars /\ TypeInv' /\ faults = 0
  BY ReservedGrows, FaultsStay DEF Next
<1>1. ASSUME NEW b \in Bucket, NEW row \in Row, RowSettled(b, row) \/ row.used = 0
      PROVE  RowSettledNext(b, row)
  BY <1>0, <1>1, RowStaysSettled
<1>2. /\ \A b \in Bucket : RowSettled(b, rows[b]) /\ RowSettled(b, call[c].copy[b])
      /\ call[c].pc = "commit" => \A b \in Matches[c] : RowSettled(b, After(c, b))
  BY <1>0 DEF SeveritySettled
<1>3. ASSUME NEW b \in Bucket PROVE RowSettledNext(b, call'[c].copy[b])
  <2>1. \/ call'[c].copy[b] = call[c].copy[b]
        \/ call'[c].copy[b] = rows[b]
        \/ call'[c].copy[b].used = 0
    BY ListFacts, DrawFacts, ResetFacts, RefuseFacts, ReserveFacts, ConsumeFacts,
       AnnounceFacts, CommitFacts, EndFacts, FirstRowBacked
    DEF CallStep, FirstRow
  <2>2. call'[c].copy[b] \in Row
    BY <1>0 DEF TypeInv, TypeOK
  <2> QED BY <1>1, <1>2, <2>1, <2>2
\* What a call by itself writes is settled by what it has raised, or by its copy.
<1>4. ASSUME ConsumeRow(c), c \notin InTransaction, NEW b \in Matches[c]
      PROVE  RowSettledNext(b, After(c, b))
  <2>0. b \in Bucket
    BY RowsTyped
  <2>1. /\ call'[c].pc = "write" /\ call'[c].copy = call[c].copy
        /\ call'[c].given = call[c].given
    BY <1>4, ConsumeFacts
  <2>2. Raised(c, b)' = Raised(c, b)
    BY <2>0, <2>1, RaisedStays
  <2>3. /\ After(c, b).period = call[c].copy[b].period
        /\ Raised(c, b) \in 0 .. 3
        /\ \/ Raised(c, b) = Severity(b, After(c, b).used)
           \/ Severity(b, After(c, b).used) = Severity(b, call[c].copy[b].used)
    BY <2>0, AfterFacts DEF TypeInv
  <2>4. CASE Raised(c, b) = Severity(b, After(c, b).used)
    BY <1>4, <2>1, <2>2, <2>3, <2>4 DEF RowSettledNext, SettledNext
  <2>5. CASE Severity(b, After(c, b).used) = Severity(b, call[c].copy[b].used)
    <3>1. RowSettledNext(b, call[c].copy[b])
      BY <1>1, <1>2, <2>0, RowsTyped
    <3> QED BY <2>3, <2>5, <3>1 DEF RowSettledNext
  <2> QED BY <2>3, <2>4, <2>5
<1>5. ASSUME NEW b \in Bucket PROVE RowSettledNext(b, rows'[b])
  <2>1. \/ rows' = rows
        \/ ResetRow(c) \/ ConsumeRow(c) \/ Commit(c)
    BY DEF CallStep, List, DrawPeriods, Refuse, Reserve, Announce, Throw,
           LoseReservation, Break
  <2>2. \/ rows'[b] = rows[b]
        \/ rows'[b] = call[c].copy[b]
        \/ ConsumeRow(c) /\ c \notin InTransaction /\ b \in Matches[c]
              /\ rows'[b] = After(c, b)
        \/ call[c].pc = "commit" /\ b \in Matches[c] /\ rows'[b] = After(c, b)
    BY <2>1, ResetFacts, ConsumeFacts, CommitFacts
  <2>3. /\ rows[b] \in Row /\ call[c].copy[b] \in Row /\ After(c, b) \in Row
    BY RowsTyped
  <2> QED BY <1>1, <1>2, <1>4, <2>2, <2>3
<1>6. ASSUME call'[c].pc = "commit", NEW b \in Matches[c]
      PROVE  RowSettledNext(b, After(c, b)')
  <2>0. b \in Bucket /\ After(c, b) \in Row
    BY RowsTyped
  <2>1. Announce(c)
    BY <1>6, ListFacts, DrawFacts, ResetFacts, RefuseFacts, ReserveFacts, ConsumeFacts,
       CommitFacts, EndFacts, FirstRowBacked
    DEF CallStep
  <2>2. After(c, b)' = After(c, b)
    <3>1. call'[c].copy = call[c].copy /\ call'[c].given = call[c].given
      BY <1>6, <2>1, AnnounceFacts, FirstRowBacked
    <3> QED BY <2>0, <3>1, RaisedStays
  <2>3. /\ After(c, b).period = call[c].copy[b].period
        /\ \/ Raised(c, b) = Severity(b, After(c, b).used)
           \/ Severity(b, After(c, b).used) = Severity(b, call[c].copy[b].used)
    BY <2>0, AfterFacts DEF TypeInv
  <2>4. CASE Raised(c, b) = Severity(b, After(c, b).used)
    <3>1. After(c, b).period \in Period
      BY <2>0 DEF Row
    <3>2. Raised(c, b) <= announced'[b][After(c, b).period]
      BY <2>0, <2>1, <2>3, <3>1, AnnounceFacts
    <3> QED BY <2>2, <2>4, <3>2 DEF RowSettledNext, SettledNext
  <2>5. CASE Severity(b, After(c, b).used) = Severity(b, call[c].copy[b].used)
    <3>1. RowSettledNext(b, call[c].copy[b])
      BY <1>1, <1>2, <2>0, RowsTyped
    <3> QED BY <2>2, <2>3, <2>5, <3>1 DEF RowSettledNext
  <2> QED BY <2>3, <2>4, <2>5
<1> QED BY <1>3, <1>5, <1>6

LEMMA InitSettled == Init => SeveritySettled
<1> SUFFICES ASSUME Init PROVE SeveritySettled
  OBVIOUS
<1>1. ASSUME NEW b \in Bucket PROVE RowSettled(b, FirstRow)
  <2>1. Severity(b, FirstRow.used) = 0
    BY SeverityFacts DEF FirstRow
  <2>2. announced[b][FirstRow.period] = 0
    BY Constants DEF Init, PerPeriod, FirstRow
  <2> QED BY <2>1, <2>2 DEF RowSettled, Settled
<1>2. rows = [b \in Bucket |-> FirstRow] /\ admin.pc = "idle"
  BY DEF Init, NoUpdate
<1>3. \A c \in Call : /\ call[c].pc = "idle"
                     /\ \A b \in Bucket : call[c].copy[b] = FirstRow
  BY DEF Init, Idle
<1> QED BY <1>1, <1>2, <1>3 DEF SeveritySettled

LEMMA NextSettled == TypeInv /\ SeveritySettled /\ [Next]_vars => SeveritySettled'
<1> SUFFICES ASSUME TypeInv, SeveritySettled, [Next]_vars, faults' = 0
             PROVE  SeveritySettled'
  BY DEF SeveritySettled
<1>0. TypeInv' /\ faults = 0
  BY ReservedGrows, FaultsStay
<1>1. ASSUME NEW b \in Bucket, NEW row \in Row, RowSettled(b, row) \/ row.used = 0
      PROVE  RowSettledNext(b, row)
  BY <1>1, RowStaysSettled
<1>2. /\ \A b \in Bucket : RowSettled(b, rows[b])
      /\ admin.pc # "idle" =>
           \A b \in Bucket : b = admin.bucket => RowSettled(b, admin.row)
      /\ \A c \in Call, b \in Bucket : RowSettled(b, call[c].copy[b])
      /\ \A c \in Call : call[c].pc = "commit" =>
           \A b \in Matches[c] : RowSettled(b, After(c, b))
  BY <1>0 DEF SeveritySettled
<1>3. SUFFICES
        /\ \A b \in Bucket : RowSettledNext(b, rows'[b])
        /\ admin'.pc # "idle" =>
             \A b \in Bucket : b = admin'.bucket => RowSettledNext(b, admin'.row)
        /\ \A c \in Call, b \in Bucket : RowSettledNext(b, call'[c].copy[b])
        /\ \A c \in Call : call'[c].pc = "commit" =>
             \A b \in Matches[c] : RowSettledNext(b, After(c, b)')
  <2> SUFFICES ASSUME
        /\ \A b \in Bucket : RowSettledNext(b, rows'[b])
        /\ admin'.pc # "idle" =>
             \A b \in Bucket : b = admin'.bucket => RowSettledNext(b, admin'.row)
        /\ \A c \in Call, b \in Bucket : RowSettledNext(b, call'[c].copy[b])
        /\ \A c \in Call : call'[c].pc = "commit" =>
             \A b \in Matches[c] : RowSettledNext(b, After(c, b)')
      PROVE  SeveritySettled'
    OBVIOUS
  <2>1. \A b \in Bucket : RowSettled(b, rows[b])'
    BY DEF RowSettled, RowSettledNext, Settled, SettledNext
  <2>2. admin'.pc # "idle" =>
          \A b \in Bucket : b = admin'.bucket => RowSettled(b, admin.row)'
    BY DEF RowSettled, RowSettledNext, Settled, SettledNext
  <2>3. \A c \in Call, b \in Bucket : RowSettled(b, call[c].copy[b])'
    BY DEF RowSettled, RowSettledNext, Settled, SettledNext
  <2>4. \A c \in Call : call'[c].pc = "commit" =>
          \A b \in Matches[c] : RowSettled(b, After(c, b))'
    BY DEF RowSettled, RowSettledNext, Settled, SettledNext
  <2> QED BY <2>1, <2>2, <2>3, <2>4 DEF SeveritySettled
<1>4. ASSUME NEW c \in Call, call'[c] = call[c]
      PROVE  /\ \A b \in Bucket : RowSettledNext(b, call'[c].copy[b])
             /\ call'[c].pc = "commit" =>
                  \A b \in Matches[c] : RowSettledNext(b, After(c, b)')
  <2>1. \A b \in Bucket : After(c, b)' = After(c, b)
    BY <1>4 DEF After
  <2> QED BY <1>1, <1>2, <1>4, <2>1, RowsTyped
<1>5. \A b \in Bucket : RowSettledNext(b, rows[b])
  BY <1>1, <1>2, RowsTyped
<1>6. admin.pc # "idle" =>
        \A b \in Bucket : b = admin.bucket => RowSettledNext(b, admin.row)
  BY <1>1, <1>2, RowsTyped
<1>7. ASSUME NEW c \in Call, CallStep(c)
      PROVE  /\ \A b \in Bucket : RowSettledNext(b, rows'[b])
             /\ \A d \in Call, b \in Bucket : RowSettledNext(b, call'[d].copy[b])
             /\ \A d \in Call : call'[d].pc = "commit" =>
                  \A b \in Matches[d] : RowSettledNext(b, After(d, b)')
             /\ admin' = admin
  <2>1. /\ \A b \in Bucket : RowSettledNext(b, rows'[b])
        /\ \A b \in Bucket : RowSettledNext(b, call'[c].copy[b])
        /\ call'[c].pc = "commit" =>
             \A b \in Matches[c] : RowSettledNext(b, After(c, b)')
    BY <1>7, CallStepSettled
  <2>2. /\ \A d \in Call : d # c => call'[d] = call[d]
        /\ admin' = admin
    BY <1>7, ListFacts, DrawFacts, ResetFacts, RefuseFacts, ReserveFacts, ConsumeFacts,
       AnnounceFacts, CommitFacts, EndFacts
    DEF CallStep, List, DrawPeriods, ResetRow, Refuse, Reserve, ConsumeRow, Announce,
        Commit, Throw, LoseReservation, Break, Same
  <2> QED BY <1>4, <2>1, <2>2
<1>8. ASSUME NEW resetUsage \in BOOLEAN, UpdateWrite(resetUsage)
      PROVE  /\ \A b \in Bucket : RowSettledNext(b, rows'[b])
             /\ \A b \in Bucket : b = admin'.bucket => RowSettledNext(b, admin'.row)
             /\ call' = call
  <2>1. /\ call' = call /\ admin'.bucket = admin.bucket
        /\ admin.pc = "write" /\ admin'.pc = "sync"
        /\ rows' = [rows EXCEPT ![admin.bucket] = admin'.row]
    BY <1>8 DEF UpdateWrite, TypeInv, TypeOK
  <2>2. /\ admin'.row \in Row /\ admin.row \in Row
        /\ admin'.row.period = admin.row.period
        /\ admin'.row.used \in {0, admin.row.used}
        /\ admin.bucket \in Bucket
    BY <1>0, <1>8, <2>1, UpdateWriteFacts DEF TypeInv, TypeOK
  <2>3. ASSUME NEW b \in Bucket, b = admin.bucket PROVE RowSettledNext(b, admin'.row)
    <3>1. CASE admin'.row.used = 0
      BY <1>1, <2>2, <3>1
    <3>2. CASE admin'.row.used = admin.row.used
      BY <1>6, <2>1, <2>2, <2>3, <3>2 DEF RowSettledNext
    <3> QED BY <2>2, <3>1, <3>2
  <2>4. \A b \in Bucket : rows'[b] = IF b = admin.bucket THEN admin'.row ELSE rows[b]
    BY <2>1 DEF TypeInv, TypeOK
  <2> QED BY <1>5, <2>1, <2>3, <2>4
<1>9. CASE Sync
  <2>1. call' = call /\ rows' = rows /\ admin'.pc = "idle"
    BY <1>9, SyncFacts DEF NoUpdate
  <2> QED BY <1>4, <1>5, <2>1
<1>10. CASE \/ LoseSync
            \/ \E x \in Bucket : UpdateRead(x) \/ Elapse(x) \/ \E m \in Period : Evict(x, m)
  <2>1. /\ call' = call /\ rows' = rows
        /\ admin' \in {admin, NoUpdate}
             \cup {[pc |-> "write", bucket |-> b, row |-> rows[b]] : b \in Bucket}
    BY <1>10, OtherFacts
  <2>2. admin'.pc # "idle" =>
          \A b \in Bucket : b = admin'.bucket => RowSettledNext(b, admin'.row)
    BY <1>5, <1>6, <2>1 DEF NoUpdate
  <2> QED BY <1>4, <1>5, <2>1, <2>2
<1>11. CASE UNCHANGED vars
  BY <1>4, <1>5, <1>6, <1>11 DEF vars
<1> QED BY <1>4, <1>5, <1>6, <1>7, <1>8, <1>9, <1>10, <1>11 DEF Next

\* Without faults, the severity that the use of a bucket has reached was announced
\* once no call is between its writes and its alerts: two calls that bring the
\* bucket there together do not each leave the alert to the other.
THEOREM AlertsAreRaised == Spec => []SeverityAnnounced
<1>1. TypeInv /\ SeveritySettled => SeverityAnnounced
  <2> SUFFICES ASSUME TypeInv, SeveritySettled, faults = 0,
                      \A c \in Call : call[c].pc # "write", NEW b \in Bucket
               PROVE  announced[b][rows[b].period] >= Severity(b, rows[b].used)
    BY DEF SeverityAnnounced
  <2>1. Severity(b, rows[b].used) <= announced[b][rows[b].period]
    BY DEF SeveritySettled, RowSettled, Settled
  <2>2. /\ rows[b].used \in Nat /\ rows[b].period \in Period
    BY DEF TypeInv, TypeOK, Row
  <2>3. /\ Severity(b, rows[b].used) \in 0 .. 3
        /\ announced[b][rows[b].period] \in 0 .. 3
    BY <2>2, SeverityFacts DEF TypeInv, TypeOK
  <2> QED BY <2>1, <2>3
<1> QED BY <1>1, InitTypeInv, InitSettled, ReservedGrows, NextSettled, PTL DEF Spec
=============================================================================
