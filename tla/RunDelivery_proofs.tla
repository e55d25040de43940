------------------------- MODULE RunDelivery_proofs --------------------------
(***************************************************************************)
(* What a run sends out: its events, to the page that watches it           *)
(* (RunEventLog), and its terminal event, to the webhooks                  *)
(* (WebhookDelivery).                                                      *)
(*                                                                         *)
(* RunEventLog, for any number of writers, events and reconnects and any   *)
(* page size, sleeps through no event whose notice came, and implements    *)
(* EventFeed.  Its rows are counted, not built one by one: a row is the    *)
(* number that has i numbers up to itself (Rank), and the pigeonhole       *)
(* theorem on finite sets gives one row for each place.  What is buffered  *)
(* lies between the page and the reader's cursor, in order and without a   *)
(* gap but overtaken events (Buffered, NoGap); the cursor is at an event,  *)
(* so that whatever is committed below it is overtaken (Stream).           *)
(*                                                                         *)
(* WebhookDelivery, for any number of drains, retriers, subscriptions,     *)
(* attempts and faults, accounts for every request, completes the outbox   *)
(* job only when every enabled subscription has its row, and repeats no    *)
(* delivered event unless an attempt outlasted its lease.  The account of  *)
(* a subscription (Account) pays in advance: an attempt that lost its      *)
(* lease has cost a fault and may still post once, and only the attempt    *)
(* with the lease has its answer recorded.                                 *)
(***************************************************************************)
EXTENDS RunEventLog, WebhookDelivery, FiniteSetTheorems, TLAPS

\* The smaller of two numbers.
LEMMA SmallerOfTwo ==
  ASSUME NEW a \in Nat, NEW b \in Nat
  PROVE  Min({a, b}) \in {a, b} /\ Min({a, b}) <= a /\ Min({a, b}) <= b
<1>1. \E x \in {a, b} : \A y \in {a, b} : x =< y
  <2>1. CASE a <= b
    BY <2>1
  <2>2. CASE ~(a <= b)
    BY <2>2
  <2> QED
    BY <2>1, <2>2
<1>2. Min({a, b}) \in {a, b} /\ \A y \in {a, b} : Min({a, b}) =< y
  BY <1>1 DEF Min
<1> QED
  BY <1>2

\* The place of a number in a finite set lies between 1 and the set's size, a
\* larger number has a larger place, and every place is taken.
LEMMA RankOrders ==
  ASSUME NEW S \in SUBSET Nat, IsFiniteSet(S)
  PROVE  /\ \A n \in S : Rank(n, S) \in 1 .. Cardinality(S)
         /\ \A m, n \in S : m < n => Rank(m, S) < Rank(n, S)
         /\ \A i \in 1 .. Cardinality(S) : \E n \in S : Rank(n, S) = i
<1> DEFINE UpTo(n) == {m \in S : m <= n}
<1>1. \A n : Rank(n, S) = Cardinality(UpTo(n))
  BY DEF Rank
<1> HIDE DEF UpTo
<1>2. \A n : UpTo(n) \in SUBSET S
  BY DEF UpTo
<1>3. \A n : IsFiniteSet(UpTo(n)) /\ Cardinality(UpTo(n)) \in Nat
             /\ Cardinality(UpTo(n)) <= Cardinality(S)
  BY <1>2, FS_Subset, FS_CardinalityType
<1>4. Cardinality(S) \in Nat
  BY FS_CardinalityType
<1>5. ASSUME NEW n \in S
      PROVE  Rank(n, S) \in 1 .. Cardinality(S)
  <2>1. n \in UpTo(n)
    BY DEF UpTo
  <2>2. Cardinality(UpTo(n)) # 0
    BY <2>1, <1>3, FS_EmptySet
  <2> QED
    BY <2>2, <1>1, <1>3, <1>4
<1>6. ASSUME NEW m \in S, NEW n \in S, m < n
      PROVE  Rank(m, S) < Rank(n, S)
  <2>1. UpTo(m) \in SUBSET UpTo(n)
    <3>1. \A p \in S : p <= m => p <= n
      BY <1>6
    <3> QED
      BY <3>1 DEF UpTo
  <2>2. UpTo(m) # UpTo(n)
    <3>1. n \in UpTo(n) /\ n \notin UpTo(m)
      BY <1>6 DEF UpTo
    <3> QED
      BY <3>1
  <2>3. /\ Cardinality(UpTo(m)) <= Cardinality(UpTo(n))
        /\ Cardinality(UpTo(m)) # Cardinality(UpTo(n))
    BY <2>1, <2>2, <1>3, FS_Subset
  <2> QED
    BY <2>3, <1>1, <1>3
<1>7. \A i \in 1 .. Cardinality(S) : \E n \in S : Rank(n, S) = i
  <2> DEFINE r == [n \in S |-> Rank(n, S)]
  <2>1. r \in [S -> 1 .. Cardinality(S)]
    BY <1>5
  <2>2. \A m, n \in S : m # n => r[m] # r[n]
    <3> SUFFICES ASSUME NEW m \in S, NEW n \in S, m # n
                 PROVE  Rank(m, S) # Rank(n, S)
      OBVIOUS
    <3>1. m < n \/ n < m
      OBVIOUS
    <3>2. Rank(m, S) \in Nat /\ Rank(n, S) \in Nat
      BY <1>5
    <3> QED
      BY <3>1, <3>2, <1>6
  <2> HIDE DEF r
  <2>3. r \in Injection(S, 1 .. Cardinality(S))
    BY <2>1, <2>2, Zenon DEF Injection, IsInjective
  <2>4. IsFiniteSet(1 .. Cardinality(S)) /\ Cardinality(1 .. Cardinality(S)) = Cardinality(S)
    BY <1>4, FS_Interval
  <2>5. r \in Surjection(S, 1 .. Cardinality(S))
    BY <2>3, <2>4, FS_Injection
  <2>6. \A i \in 1 .. Cardinality(S) : \E n \in S : r[n] = i
    BY <2>5 DEF Surjection
  <2> QED
    BY <2>6 DEF r
<1> QED
  BY <1>5, <1>6, <1>7

\* What a page of rows is: numbers ahead of the cursor, increasing, none left out
\* up to the last of them, and all of them if the page is not full.
LEMMA PageOfRows ==
  ASSUME TypeOK
  PROVE  /\ PageRows \in Seq(Sequence)
         /\ \A i \in DOMAIN PageRows : PageRows[i] \in Ahead
         /\ \A i, j \in DOMAIN PageRows : i < j => PageRows[i] < PageRows[j]
         /\ \A n \in Ahead : \A j \in DOMAIN PageRows :
              n <= PageRows[j] => \E i \in DOMAIN PageRows : PageRows[i] = n
         /\ Len(PageRows) < PageSize => \A n \in Ahead : \E i \in DOMAIN PageRows : PageRows[i] = n
         /\ PageRows = <<>> <=> Ahead = {}
         /\ Len(PageRows) <= PageSize
<1> DEFINE size == Min({PageSize, Cardinality(Ahead)})
           rows == PageRows
<1>1. Ahead \in SUBSET Nat /\ Ahead \in SUBSET Sequence
  BY BoundAssumption DEF Ahead, Committed, Sequence
<1>2. IsFiniteSet(Ahead)
  <2>1. IsFiniteSet(Sequence)
    BY BoundAssumption, FS_Interval DEF Sequence
  <2> QED
    BY <2>1, <1>1, FS_Subset
<1>3. Cardinality(Ahead) \in Nat /\ (Cardinality(Ahead) = 0 <=> Ahead = {})
  BY <1>2, FS_CardinalityType, FS_EmptySet
<1>4. /\ size \in Nat
      /\ size <= Cardinality(Ahead)
      /\ size <= PageSize
      /\ size = PageSize \/ size = Cardinality(Ahead)
  BY <1>3, PageSizeAssumption, SmallerOfTwo
<1>5. rows = [i \in 1 .. size |-> CHOOSE n \in Ahead : Rank(n, Ahead) = i]
  BY DEF PageRows
<1> HIDE DEF size, rows
<1>6. \A n \in Ahead : Rank(n, Ahead) \in 1 .. Cardinality(Ahead)
  BY <1>1, <1>2, RankOrders
<1>7. \A m, n \in Ahead : m < n => Rank(m, Ahead) < Rank(n, Ahead)
  BY <1>1, <1>2, RankOrders
<1>8. \A i \in 1 .. Cardinality(Ahead) : \E n \in Ahead : Rank(n, Ahead) = i
  BY <1>1, <1>2, RankOrders
<1>9. ASSUME NEW i \in 1 .. size
      PROVE  rows[i] \in Ahead /\ Rank(rows[i], Ahead) = i
  <2>1. i \in 1 .. Cardinality(Ahead)
    BY <1>3, <1>4
  <2> QED
    BY <2>1, <1>5, <1>8
<1>10. rows \in [1 .. size -> Sequence] /\ rows \in Seq(Sequence) /\ Len(rows) = size
  <2>1. rows \in [1 .. size -> Sequence]
    BY <1>1, <1>5, <1>9
  <2> QED
    BY <2>1, <1>4
<1>11. DOMAIN rows = 1 .. size
  BY <1>10
<1>12. ASSUME NEW i \in 1 .. size, NEW j \in 1 .. size, i < j
       PROVE  rows[i] < rows[j]
  <2>1. rows[i] \in Ahead /\ rows[j] \in Ahead /\ rows[i] \in Nat /\ rows[j] \in Nat
    BY <1>1, <1>9
  <2>2. ~(rows[j] < rows[i]) /\ rows[i] # rows[j]
    BY <1>4, <1>7, <1>9, <1>12, <2>1
  <2> QED
    BY <2>1, <2>2
<1>13. ASSUME NEW n \in Ahead, Rank(n, Ahead) <= size
       PROVE  rows[Rank(n, Ahead)] = n
  <2>1. Rank(n, Ahead) \in 1 .. size
    BY <1>3, <1>4, <1>6, <1>13
  <2> DEFINE k == rows[Rank(n, Ahead)]
  <2>2. k \in Ahead /\ Rank(k, Ahead) = Rank(n, Ahead)
    BY <2>1, <1>9
  <2> HIDE DEF k
  <2>3. ~(k < n) /\ ~(n < k)
    BY <2>2, <1>3, <1>6, <1>7
  <2>4. k = n
    BY <2>2, <2>3, <1>1
  <2> QED
    BY <2>4 DEF k
<1>14. ASSUME NEW n \in Ahead, NEW j \in 1 .. size, n <= rows[j]
       PROVE  \E i \in 1 .. size : rows[i] = n
  <2>1. rows[j] \in Ahead /\ Rank(rows[j], Ahead) = j
    BY <1>9
  <2>2. n = rows[j] \/ n < rows[j]
    <3>1. n \in Nat /\ rows[j] \in Nat
      BY <2>1, <1>1
    <3> QED
      BY <3>1, <1>14
  <2>3. Rank(n, Ahead) <= j
    BY <1>3, <1>4, <1>6, <1>7, <2>1, <2>2
  <2>4. Rank(n, Ahead) \in 1 .. size
    BY <2>3, <1>3, <1>4, <1>6
  <2> QED
    BY <2>4, <1>4, <1>13
<1>15. ASSUME Len(rows) < PageSize, NEW n \in Ahead
       PROVE  \E i \in 1 .. size : rows[i] = n
  <2>1. size = Cardinality(Ahead)
    BY <1>15, <1>4, <1>10, PageSizeAssumption
  <2>2. Rank(n, Ahead) \in 1 .. size
    BY <2>1, <1>6
  <2> QED
    BY <2>2, <1>4, <1>13
<1>16. rows = <<>> <=> Ahead = {}
  <2>1. rows = <<>> <=> size = 0
    BY <1>4, <1>10
  <2>2. size = 0 <=> Ahead = {}
    BY <1>3, <1>4, PageSizeAssumption
  <2> QED
    BY <2>1, <2>2
<1>17. /\ rows \in Seq(Sequence)
       /\ \A i \in DOMAIN rows : rows[i] \in Ahead
       /\ \A i, j \in DOMAIN rows : i < j => rows[i] < rows[j]
       /\ \A n \in Ahead : \A j \in DOMAIN rows :
            n <= rows[j] => \E i \in DOMAIN rows : rows[i] = n
       /\ Len(rows) < PageSize => \A n \in Ahead : \E i \in DOMAIN rows : rows[i] = n
       /\ rows = <<>> <=> Ahead = {}
       /\ Len(rows) <= PageSize
  BY <1>4, <1>9, <1>10, <1>11, <1>12, <1>14, <1>15, <1>16
<1> QED
  BY <1>17 DEF rows

-----------------------------------------------------------------------------
\* Numbers above runs.nextEventSequence are unused, and a writer's number is its
\* own and has no event yet.
NumbersFree ==
  /\ \A m \in Sequence : m > next => log[m] = "none"
  /\ \A w \in Writer : writer[w].kind # "none" =>
       writer[w].seq \in 1 .. next /\ log[writer[w].seq] = "none"
  /\ \A v, w \in Writer :
       v # w /\ writer[v].kind # "none" /\ writer[w].kind # "none"
         => writer[v].seq # writer[w].seq

\* A connection belongs to a page that streams; where the page and the reader are
\* there is an event.
Stream ==
  /\ page.after \in Committed \cup {0}
  /\ reader.cursor \in Committed \cup {0}
  /\ page.state # "streaming" => buffer = <<>> /\ reader.pc = "none" /\ reader.cursor = 0
  /\ page.state = "streaming" => page.after <= reader.cursor

\* What was sent and not applied: events between the two, in order.
Buffered ==
  /\ \A i \in DOMAIN buffer :
       /\ buffer[i] \in Committed
       /\ page.after < buffer[i]
       /\ buffer[i] <= reader.cursor
  /\ \A i, j \in DOMAIN buffer : i < j => buffer[i] < buffer[j]

\* Nothing between the two is missing from it but overtaken events.
NoGap ==
  \A m \in Committed :
    page.after < m /\ m <= reader.cursor
      => m \in late \/ \E i \in DOMAIN buffer : buffer[i] = m

\* An event a resting reader has not seen has woken it or its notice is to come.
Announced ==
  ~lost /\ reader.pc \in {"sent", "wait"} /\ ~reader.woken => Ahead \subseteq notices

\* The inductive invariant.
LogInv ==
  /\ TypeOK
  /\ NumbersFree
  /\ Stream
  /\ Buffered
  /\ NoGap
  /\ Announced

-----------------------------------------------------------------------------
\* What a step does to the log, as its readers see it.
Commits(n) ==
  /\ n \in Sequence \ Committed
  /\ Committed' = Committed \cup {n}
  /\ late' = late \cup {m \in {n} : \E k \in Committed : k > m}
  /\ notices' = notices \cup {n}
  /\ UNCHANGED <<lost, reader, buffer, page, applied>>

Quiet ==
  /\ Committed' = Committed
  /\ UNCHANGED <<late, notices, lost, reader, buffer, page, applied>>

\* A step of a writer.
Writes(w) ==
  (\E kind \in {"text", "wait"} : Assign(w, kind)) \/ Mark(w) \/ Insert(w) \/ CrashWriter(w)

WriterType == [seq : Number, kind : {"none", "text", "wait", "marked"}]
ReaderType == [pc : {"none", "query", "sent", "wait", "closed"}, cursor : Number,
               woken : BOOLEAN, untilCaughtUp : BOOLEAN]
PageType == [state : {"connecting", "streaming", "suspended", "settled", "failed"},
             after : Number, reconnects : 0 .. MaxReconnects, seen : SUBSET Resting]

\* The records the state starts from.
LEMMA StartTypes ==
  /\ NoEvent \in WriterType
  /\ NoReader \in ReaderType
  /\ [state |-> "connecting", after |-> 0, reconnects |-> 0, seen |-> {}] \in PageType
  BY BoundAssumption DEF NoEvent, NoReader, WriterType, ReaderType, PageType, Number

\* An insert commits the writer's number.
LEMMA InsertCommits ==
  ASSUME TypeOK, NumbersFree, NEW w \in Writer, Insert(w)
  PROVE  /\ Commits(writer[w].seq)
         /\ log' \in [Sequence -> {"none", "text"} \cup Resting]
         /\ \A m \in Sequence : m # writer[w].seq => log'[m] = log[m]
<1> DEFINE n == writer[w].seq
<1>1. n \in Sequence /\ n \in 1 .. next /\ log[n] = "none"
  BY BoundAssumption DEF TypeOK, NumbersFree, Insert, Number, Sequence
<1>2. log' = [log EXCEPT ![n] = IF writer[w].kind = "text" THEN "text" ELSE "wait"]
  BY DEF Insert
<1>3. late' = late \cup {m \in {n} : \E k \in Committed : k > m} /\ notices' = notices \cup {n}
  BY DEF Insert
<1>4. UNCHANGED <<lost, reader, buffer, page, applied>>
  BY DEF Insert
<1> HIDE DEF n
<1>5. log \in [Sequence -> {"none", "text"} \cup Resting]
  BY DEF TypeOK
<1>6. /\ log' \in [Sequence -> {"none", "text"} \cup Resting]
      /\ log'[n] # "none"
      /\ \A m \in Sequence : m # n => log'[m] = log[m]
  BY <1>1, <1>2, <1>5 DEF Resting
<1>7. Committed' = Committed \cup {n} /\ n \in Sequence \ Committed
  BY <1>1, <1>6 DEF Committed
<1>8. Commits(n)
  BY <1>3, <1>4, <1>7 DEF Commits
<1> QED
  BY <1>6, <1>8 DEF n

\* The terminal event is committed behind all others.
LEMMA EndCommits ==
  ASSUME TypeOK, NumbersFree, End
  PROVE  /\ next' = next + 1
         /\ next' \in Sequence
         /\ Commits(next')
         /\ log' \in [Sequence -> {"none", "text"} \cup Resting]
         /\ \A m \in Sequence : m # next' => log'[m] = log[m]
<1>1. next \in Nat /\ next' = next + 1 /\ next' \in Sequence
  BY BoundAssumption DEF TypeOK, End, Number, Sequence
<1>2. log[next'] = "none"
  BY <1>1 DEF NumbersFree
<1>3. log' = [log EXCEPT ![next'] = "end"] /\ log \in [Sequence -> {"none", "text"} \cup Resting]
  BY DEF End, TypeOK
<1>4. /\ log' \in [Sequence -> {"none", "text"} \cup Resting]
      /\ log'[next'] # "none"
      /\ \A m \in Sequence : m # next' => log'[m] = log[m]
  BY <1>1, <1>3 DEF Resting
<1>5. Committed' = Committed \cup {next'} /\ next' \in Sequence \ Committed
  BY <1>1, <1>2, <1>4 DEF Committed
<1>6. \A k \in Committed : ~(k > next')
  <2> SUFFICES ASSUME NEW k \in Committed
               PROVE  ~(k > next')
    OBVIOUS
  <2>1. k \in Nat /\ ~(k > next)
    BY BoundAssumption DEF Committed, NumbersFree, Sequence
  <2> QED
    BY <1>1, <2>1
<1>7. late' = late \cup {m \in {next'} : \E k \in Committed : k > m}
  BY <1>6 DEF End
<1>8. notices' = notices \cup {next'} /\ UNCHANGED <<lost, reader, buffer, page, applied>>
  BY DEF End
<1>9. Commits(next')
  BY <1>5, <1>7, <1>8 DEF Commits
<1> QED
  BY <1>1, <1>4, <1>9

\* Every other step of a writer or the run is not seen by a reader.
LEMMA OtherWritesAreQuiet ==
  ASSUME NEW w \in Writer,
         (\E kind \in {"text", "wait"} : Assign(w, kind)) \/ Mark(w) \/ CrashWriter(w) \/ Continue
  PROVE  log' = log /\ Quiet
<1>1. log' = log /\ UNCHANGED <<late, notices, lost, reader, buffer, page, applied>>
  BY DEF Assign, Mark, CrashWriter, Continue
<1>2. Committed' = Committed
  BY <1>1 DEF Committed
<1> QED
  BY <1>1, <1>2 DEF Quiet

-----------------------------------------------------------------------------
\* Types, and the numbers, of a step of a writer.
LEMMA WriterStep ==
  ASSUME TypeOK, NumbersFree, NEW w \in Writer, Writes(w)
  PROVE  TypeOK' /\ NumbersFree'
<1> USE BoundAssumption
<1>t. /\ next \in Number
      /\ log \in [Sequence -> {"none", "text"} \cup Resting]
      /\ status \in {"running", "waiting", "ended"}
      /\ writer \in [Writer -> WriterType]
      /\ notices \subseteq Sequence
      /\ late \subseteq Sequence
  BY DEF TypeOK, WriterType
<1>1. CASE \E kind \in {"text", "wait"} : Assign(w, kind)
  <2>1. PICK kind \in {"text", "wait"} : Assign(w, kind)
    BY <1>1
  <2>2. next' = next + 1 /\ next' \in Number /\ next' \in Sequence
    BY <2>1, <1>t DEF Assign, Number, Sequence
  <2>3. writer' = [writer EXCEPT ![w] = [seq |-> next', kind |-> kind]]
    BY <2>1 DEF Assign
  <2>4. writer' \in [Writer -> WriterType]
    BY <1>t, <2>2, <2>3 DEF WriterType
  <2>5. UNCHANGED <<log, status, late, notices, lost, reader, buffer, page, applied>>
    BY <2>1 DEF Assign
  <2>6. TypeOK'
    BY <2>2, <2>4, <2>5 DEF TypeOK, WriterType
  <2>7. log'[next'] = "none"
    BY <2>2, <2>5, <1>t DEF NumbersFree, Number
  <2>8. writer'[w].seq = next' /\ \A v \in Writer : v # w => writer'[v] = writer[v]
    BY <2>3, <1>t
  <2>9. \A v \in Writer : v # w /\ writer[v].kind # "none" => writer[v].seq \in 1 .. next /\ writer[v].seq # next'
    BY <2>2, <1>t DEF NumbersFree, Number
  <2>10. \A m \in Sequence : m > next' => log'[m] = "none"
    BY <2>2, <2>5, <1>t DEF NumbersFree, Number, Sequence
  <2>11. \A v \in Writer : writer'[v].kind # "none" =>
           writer'[v].seq \in 1 .. next' /\ log'[writer'[v].seq] = "none"
    <3> SUFFICES ASSUME NEW v \in Writer, writer'[v].kind # "none"
                 PROVE  writer'[v].seq \in 1 .. next' /\ log'[writer'[v].seq] = "none"
      OBVIOUS
    <3>1. CASE v = w
      BY <3>1, <2>2, <2>7, <2>8 DEF Sequence
    <3>2. CASE v # w
      <4>1. writer[v].seq \in 1 .. next /\ log[writer[v].seq] = "none"
        BY <3>2, <2>8 DEF NumbersFree
      <4> QED
        BY <4>1, <3>2, <2>2, <2>5, <2>8, <1>t DEF Number
    <3> QED
      BY <3>1, <3>2
  <2>12. \A v, u \in Writer :
           v # u /\ writer'[v].kind # "none" /\ writer'[u].kind # "none"
             => writer'[v].seq # writer'[u].seq
    BY <2>8, <2>9 DEF NumbersFree
  <2> QED
    BY <2>6, <2>10, <2>11, <2>12 DEF NumbersFree
<1>2. CASE Mark(w)
  <2>1. writer' = [writer EXCEPT ![w].kind = "marked"] /\ writer[w].kind = "wait"
    BY <1>2 DEF Mark
  <2>2. writer' \in [Writer -> WriterType]
    BY <2>1, <1>t DEF WriterType
  <2>3. status' \in {"running", "waiting", "ended"}
    BY <1>2, <1>t DEF Mark
  <2>4. UNCHANGED <<next, log, late, notices, lost, reader, buffer, page, applied>>
    BY <1>2 DEF Mark
  <2>5. TypeOK'
    BY <2>2, <2>3, <2>4 DEF TypeOK, WriterType
  <2>6. \A v \in Writer : writer'[v].seq = writer[v].seq /\ (writer'[v].kind # "none" => writer[v].kind # "none")
    BY <2>1, <1>t DEF WriterType
  <2> QED
    BY <2>4, <2>5, <2>6 DEF NumbersFree
<1>3. CASE Insert(w)
  <2>1. /\ Commits(writer[w].seq)
        /\ log' \in [Sequence -> {"none", "text"} \cup Resting]
        /\ \A m \in Sequence : m # writer[w].seq => log'[m] = log[m]
    BY <1>3, InsertCommits
  <2>2. writer' = [writer EXCEPT ![w] = NoEvent] /\ next' = next /\ status' = status
    BY <1>3 DEF Insert
  <2>3. writer' \in [Writer -> WriterType]
    BY <2>2, <1>t, StartTypes
  <2>4. late' \subseteq Sequence /\ notices' \subseteq Sequence
    BY <2>1, <1>t DEF Commits
  <2>5. TypeOK'
    BY <2>1, <2>2, <2>3, <2>4 DEF TypeOK, WriterType, Commits
  <2>6. writer[w].seq \in 1 .. next /\ writer[w].kind # "none"
    BY <1>3 DEF NumbersFree, Insert
  <2>7. writer'[w].kind = "none" /\ \A v \in Writer : v # w => writer'[v] = writer[v]
    BY <2>2, <1>t DEF NoEvent
  <2>8. \A m \in Sequence : m > next' => log'[m] = "none"
    BY <2>1, <2>2, <2>6, <1>t DEF NumbersFree, Sequence, Number
  <2>9. ASSUME NEW v \in Writer, writer'[v].kind # "none"
        PROVE  writer'[v].seq \in 1 .. next' /\ log'[writer'[v].seq] = "none"
    <3>1. v # w /\ writer'[v] = writer[v]
      BY <2>7, <2>9
    <3>2. writer[v].seq \in 1 .. next /\ log[writer[v].seq] = "none" /\ writer[v].seq # writer[w].seq
      BY <3>1, <2>6, <2>9 DEF NumbersFree
    <3>3. writer[v].seq \in Sequence
      BY <3>2, <1>t DEF Sequence, Number
    <3> QED
      BY <3>1, <3>2, <3>3, <2>1, <2>2
  <2> QED
    BY <2>5, <2>7, <2>8, <2>9 DEF NumbersFree
<1>4. CASE CrashWriter(w)
  <2>1. writer' = [writer EXCEPT ![w] = NoEvent]
    BY <1>4 DEF CrashWriter
  <2>2. writer' \in [Writer -> WriterType]
    BY <2>1, <1>t, StartTypes
  <2>3. UNCHANGED <<next, log, status, late, notices, lost, reader, buffer, page, applied>>
    BY <1>4 DEF CrashWriter
  <2>4. TypeOK'
    BY <2>2, <2>3 DEF TypeOK, WriterType
  <2>5. \A v \in Writer : writer'[v].kind # "none" => writer'[v] = writer[v]
    BY <2>1, <1>t DEF NoEvent
  <2> QED
    BY <2>3, <2>4, <2>5 DEF NumbersFree
<1> QED
  BY <1>1, <1>2, <1>3, <1>4 DEF Writes

-----------------------------------------------------------------------------
\* What a turn of the replay loop does.
LEMMA QueryReads ==
  ASSUME TypeOK, Query
  PROVE  /\ reader.pc = "query"
         /\ buffer' = buffer \o PageRows
         /\ reader' \in ReaderType
         /\ reader'.woken = reader.woken
         /\ reader'.pc \in {"query", "sent", "closed"}
         /\ reader'.pc = "sent" => Len(PageRows) # PageSize
         /\ PageRows = <<>> => reader'.cursor = reader.cursor
         /\ PageRows # <<>> => reader'.cursor = PageRows[Len(PageRows)]
         /\ UNCHANGED <<next, log, status, writer, late, notices, lost, page, applied>>
<1> DEFINE rows == PageRows
           closes == \/ \E i \in 1 .. Len(rows) : log[rows[i]] \in Resting
                     \/ rows = <<>> /\ reader.untilCaughtUp
           cursor == IF rows = <<>> THEN reader.cursor ELSE Last(rows)
           pc == IF closes THEN "closed" ELSE IF Len(rows) = PageSize THEN "query" ELSE "sent"
<1>1. /\ reader.pc = "query"
      /\ buffer' = buffer \o rows
      /\ reader' = [reader EXCEPT !.cursor = cursor, !.pc = pc]
      /\ UNCHANGED <<next, log, status, writer, late, notices, lost, page, applied>>
  BY DEF Query, serverVars
<1>2. pc \in {"query", "sent", "closed"} /\ (pc = "sent" => Len(rows) # PageSize)
  OBVIOUS
<1> HIDE DEF closes, pc
<1>3. rows \in Seq(Sequence)
  BY PageOfRows
<1> HIDE DEF rows
<1>4. rows # <<>> => Len(rows) \in DOMAIN rows /\ rows[Len(rows)] \in Sequence
  BY <1>3
<1>5. rows # <<>> => cursor = rows[Len(rows)]
  BY DEF Last
<1>6. rows = <<>> => cursor = reader.cursor
  OBVIOUS
<1>7. reader \in ReaderType
  BY DEF TypeOK, ReaderType
<1>8. cursor \in Number
  <2>1. reader.cursor \in Number
    BY <1>7 DEF ReaderType
  <2>2. \A n \in Sequence : n \in Number
    BY BoundAssumption DEF Sequence, Number
  <2> QED
    BY <2>1, <2>2, <1>4, <1>5, <1>6
<1> HIDE DEF cursor
<1>9. /\ reader' \in ReaderType
      /\ reader'.woken = reader.woken
      /\ reader'.pc = pc
      /\ reader'.cursor = cursor
  BY <1>1, <1>2, <1>7, <1>8 DEF ReaderType
<1> QED
  BY <1>1, <1>2, <1>5, <1>6, <1>9 DEF rows

\* What the page does with the first event sent.
LEMMA ApplyTakesHead ==
  ASSUME TypeOK, Apply
  PROVE  /\ page.state = "streaming"
         /\ buffer # <<>>
         /\ Head(buffer) \in Sequence
         /\ buffer' = Tail(buffer)
         /\ buffer' \in Seq(Sequence)
         /\ page' \in PageType
         /\ page'.state = "streaming"
         /\ Head(buffer) > page.after =>
              page'.after = Head(buffer) /\ applied' = applied \cup {Head(buffer)}
         /\ ~(Head(buffer) > page.after) => UNCHANGED <<page, applied>>
         /\ UNCHANGED <<next, log, status, writer, late, notices, lost, reader>>
<1> DEFINE n == Head(buffer)
<1>1. /\ page.state = "streaming"
      /\ buffer # <<>>
      /\ buffer' = Tail(buffer)
      /\ n > page.after =>
           /\ applied' = applied \cup {n}
           /\ page' = [page EXCEPT !.after = n, !.reconnects = 0,
                                   !.seen = page.seen \cup (Resting \cap {log[n]})]
      /\ ~(n > page.after) => UNCHANGED <<page, applied>>
      /\ UNCHANGED <<next, log, status, writer, late, notices, lost, reader>>
  BY DEF Apply, serverVars
<1>2. buffer \in Seq(Sequence) /\ page \in PageType
  BY DEF TypeOK, PageType
<1>3. n \in Sequence /\ Tail(buffer) \in Seq(Sequence)
  BY <1>1, <1>2
<1> HIDE DEF n
<1>4. page.seen \cup (Resting \cap {log[n]}) \in SUBSET Resting
  BY <1>2 DEF PageType
<1>5. 0 \in 0 .. MaxReconnects /\ n \in Number
  BY <1>3, BoundAssumption DEF Sequence, Number
<1>6. n > page.after => page' \in PageType /\ page'.state = "streaming" /\ page'.after = n
  BY <1>1, <1>2, <1>4, <1>5 DEF PageType
<1> QED
  BY <1>1, <1>2, <1>3, <1>6 DEF n

\* A broken stream leaves the page where it was.
LEMMA ReconnectKeepsPlace ==
  ASSUME TypeOK, Reconnect
  PROVE  page' \in PageType /\ page'.after = page.after /\ page'.state \in {"connecting", "failed"}
<1>1. page \in PageType
  BY DEF TypeOK, PageType
<1>2. CASE GivesUp
  <2>1. page' = [page EXCEPT !.state = "failed", !.seen = {}]
    BY <1>2 DEF Reconnect
  <2> QED
    BY <1>1, <2>1 DEF PageType
<1>3. CASE ~GivesUp
  <2>1. page' = [page EXCEPT !.state = "connecting", !.reconnects = page.reconnects + 1, !.seen = {}]
    BY <1>3 DEF Reconnect
  <2>2. page.reconnects + 1 \in 0 .. MaxReconnects
    BY <1>1, <1>3, BoundAssumption DEF GivesUp, PageType
  <2> QED
    BY <1>1, <2>1, <2>2 DEF PageType
<1> QED
  BY <1>2, <1>3

\* A step that ends the page's connection.
Closes ==
  /\ reader' = NoReader
  /\ buffer' = <<>>
  /\ page' \in PageType
  /\ page'.after = page.after
  /\ page'.state # "streaming"
  /\ UNCHANGED <<next, log, status, writer, late, notices, lost, applied>>

\* All ends of a stream are alike to the page: it keeps its place.
LEMMA EndsOfStreamClose ==
  ASSUME TypeOK, StreamEnds \/ Disconnect \/ ObserveEnd
  PROVE  Closes
<1>1. page \in PageType
  BY DEF TypeOK, PageType
<1>2. CASE StreamEnds
  <2>1. /\ reader' = NoReader
        /\ buffer' = <<>>
        /\ UNCHANGED <<next, log, status, writer, late, notices, lost, applied>>
    BY <1>2 DEF StreamEnds, serverVars
  <2>2. CASE page.seen = {}
    <3>1. Reconnect
      BY <1>2, <2>2 DEF StreamEnds
    <3> QED
      BY <2>1, <3>1, ReconnectKeepsPlace DEF Closes
  <2>3. CASE page.seen # {}
    <3>1. page' = [page EXCEPT !.state = IF "end" \in page.seen THEN "settled" ELSE "suspended"]
      BY <1>2, <2>3 DEF StreamEnds
    <3>2. page' \in PageType /\ page'.after = page.after /\ page'.state # "streaming"
      BY <1>1, <3>1 DEF PageType
    <3> QED
      BY <2>1, <3>2 DEF Closes
  <2> QED
    BY <2>2, <2>3
<1>3. CASE Disconnect
  <2>1. /\ reader' = NoReader
        /\ buffer' = <<>>
        /\ Reconnect
        /\ UNCHANGED <<next, log, status, writer, late, notices, lost, applied>>
    BY <1>3 DEF Disconnect, serverVars
  <2> QED
    BY <2>1, ReconnectKeepsPlace DEF Closes
<1>4. CASE ObserveEnd
  <2>1. /\ reader' = NoReader
        /\ buffer' = <<>>
        /\ page' = [page EXCEPT !.state = "settled"]
        /\ UNCHANGED <<next, log, status, writer, late, notices, lost, applied>>
    BY <1>4 DEF ObserveEnd, serverVars
  <2> QED
    BY <1>1, <2>1 DEF PageType, Closes
<1> QED
  BY <1>2, <1>3, <1>4

\* The page connects, at its place.
LEMMA ConnectAtPlace ==
  ASSUME TypeOK, Connect
  PROVE  /\ page.state = "connecting"
         /\ reader' \in ReaderType
         /\ reader'.pc = "query"
         /\ reader'.cursor = page.after
         /\ page' \in PageType
         /\ page'.state = "streaming"
         /\ page'.after = page.after
         /\ UNCHANGED <<next, log, status, writer, late, notices, lost, buffer, applied>>
<1>1. page \in PageType
  BY DEF TypeOK, PageType
<1>2. PICK caughtUp \in {status = "ended", status # "running"} :
        reader' = [NoReader EXCEPT !.pc = "query", !.cursor = page.after,
                                   !.untilCaughtUp = caughtUp]
  BY DEF Connect
<1>3. caughtUp \in BOOLEAN
  OBVIOUS
<1>4. reader' = [pc |-> "query", cursor |-> page.after, woken |-> FALSE, untilCaughtUp |-> caughtUp]
  BY <1>2 DEF NoReader
<1>5. page.after \in Number
  BY <1>1 DEF PageType
<1>6. reader' \in ReaderType /\ reader'.pc = "query" /\ reader'.cursor = page.after
  BY <1>3, <1>4, <1>5, Zenon DEF ReaderType
<1>7. /\ page.state = "connecting"
      /\ page' = [page EXCEPT !.state = "streaming"]
      /\ UNCHANGED <<next, log, status, writer, late, notices, lost, buffer, applied>>
  BY DEF Connect, serverVars
<1>8. page' \in PageType /\ page'.state = "streaming" /\ page'.after = page.after
  BY <1>1, <1>7 DEF PageType
<1> QED
  BY <1>6, <1>7, <1>8

\* A notice, a wait or a wake-up leaves the reader where it is.
LEMMA ReaderTurns ==
  ASSUME TypeOK, Wait \/ WakeUp \/ Poll \/ \E n \in Sequence : Notice(n)
  PROVE  /\ reader' \in ReaderType
         /\ reader'.cursor = reader.cursor
         /\ reader.pc = "none" => reader'.pc = "none"
         /\ notices' \subseteq notices
         /\ UNCHANGED <<next, log, status, writer, late, lost, buffer, page, applied>>
<1>1. reader \in ReaderType
  BY DEF TypeOK, ReaderType
<1>2. CASE Wait
  <2>1. reader.pc = "sent" /\ reader' = [reader EXCEPT !.pc = "wait"]
    BY <1>2 DEF Wait
  <2>2. notices' = notices /\ UNCHANGED <<next, log, status, writer, late, lost, buffer, page, applied>>
    BY <1>2 DEF Wait, serverVars
  <2> QED
    BY <1>1, <2>1, <2>2 DEF ReaderType
<1>3. CASE WakeUp \/ Poll
  <2>1. reader.pc = "wait" /\ reader' = [reader EXCEPT !.pc = "query", !.woken = FALSE]
    BY <1>3 DEF WakeUp, Poll
  <2>2. notices' = notices /\ UNCHANGED <<next, log, status, writer, late, lost, buffer, page, applied>>
    BY <1>3 DEF WakeUp, Poll, serverVars
  <2> QED
    BY <1>1, <2>1, <2>2 DEF ReaderType
<1>4. ASSUME NEW n \in Sequence, Notice(n)
      PROVE  /\ reader' \in ReaderType
             /\ reader'.cursor = reader.cursor
             /\ reader.pc = "none" => reader'.pc = "none"
             /\ notices' \subseteq notices
             /\ UNCHANGED <<next, log, status, writer, late, lost, buffer, page, applied>>
  <2>1. reader' = IF Subscribed /\ n > reader.cursor
                  THEN [reader EXCEPT !.woken = TRUE] ELSE reader
    BY <1>4 DEF Notice
  <2>2. /\ notices' \subseteq notices
        /\ UNCHANGED <<next, log, status, writer, late, lost, buffer, page, applied>>
    BY <1>4 DEF Notice, serverVars
  <2>3. reader' = reader \/ reader' = [reader EXCEPT !.woken = TRUE]
    BY <2>1
  <2>4. /\ reader' \in ReaderType
        /\ reader'.cursor = reader.cursor
        /\ reader'.pc = reader.pc
    BY <1>1, <2>3 DEF ReaderType
  <2> QED
    BY <2>2, <2>4
<1> QED
  BY <1>2, <1>3, <1>4

\* Types, and the numbers, of any other step.
LEMMA ReaderOrPageStep ==
  ASSUME TypeOK, NumbersFree,
         \/ Continue \/ End
         \/ \E n \in Sequence : Notice(n) \/ LoseNotice(n)
         \/ ReaderStep
         \/ Attach \/ PageStep \/ Disconnect \/ ObserveEnd
  PROVE  TypeOK' /\ NumbersFree'
<1> USE BoundAssumption
<1> DEFINE UnchangedLog == UNCHANGED <<next, log, status, writer, late>>
<1>s. ASSUME UnchangedLog
      PROVE  NumbersFree'
  BY <1>s DEF NumbersFree
<1>1. CASE Continue
  <2>1. status' = "running" /\ UNCHANGED <<next, log, writer, late, notices, lost, reader, buffer, page, applied>>
    BY <1>1 DEF Continue
  <2> QED
    BY <2>1 DEF TypeOK, NumbersFree
<1>2. CASE End
  <2>1. /\ next' = next + 1
        /\ next' \in Sequence
        /\ Commits(next')
        /\ log' \in [Sequence -> {"none", "text"} \cup Resting]
        /\ \A m \in Sequence : m # next' => log'[m] = log[m]
    BY <1>2, EndCommits
  <2>2. status' = "ended" /\ writer' = writer /\ late' = late
    BY <1>2 DEF End
  <2>3. next \in Number /\ next' \in Number /\ notices' \subseteq Sequence
    BY <2>1 DEF TypeOK, Commits, Number, Sequence
  <2>4. TypeOK'
    BY <2>1, <2>2, <2>3 DEF TypeOK, Commits
  <2>5. \A m \in Sequence : m > next' => log'[m] = "none"
    BY <2>1, <2>3 DEF NumbersFree, Sequence, Number
  <2>6. ASSUME NEW w \in Writer, writer'[w].kind # "none"
        PROVE  writer'[w].seq \in 1 .. next' /\ log'[writer'[w].seq] = "none"
    <3>1. writer[w].seq \in 1 .. next /\ log[writer[w].seq] = "none"
      BY <2>2, <2>6 DEF NumbersFree
    <3>2. writer[w].seq \in Sequence /\ writer[w].seq # next' /\ writer[w].seq \in 1 .. next'
      BY <3>1, <2>1, <2>3 DEF Sequence, Number
    <3> QED
      BY <3>1, <3>2, <2>1, <2>2
  <2>7. \A v, w \in Writer :
          v # w /\ writer'[v].kind # "none" /\ writer'[w].kind # "none"
            => writer'[v].seq # writer'[w].seq
    BY <2>2 DEF NumbersFree
  <2> QED
    BY <2>4, <2>5, <2>6, <2>7 DEF NumbersFree
<1>3. CASE \E n \in Sequence : Notice(n)
  <2>1. /\ reader' \in ReaderType
        /\ notices' \subseteq notices
        /\ UNCHANGED <<next, log, status, writer, late, lost, buffer, page, applied>>
    BY <1>3, ReaderTurns
  <2>2. TypeOK'
    BY <2>1 DEF TypeOK, ReaderType
  <2> QED
    BY <2>1, <2>2, <1>s
<1>4. CASE \E n \in Sequence : LoseNotice(n)
  <2>1. /\ notices' \subseteq notices
        /\ lost' = TRUE
        /\ UNCHANGED <<next, log, status, writer, late, reader, buffer, page, applied>>
    BY <1>4 DEF LoseNotice, serverVars
  <2>2. TypeOK'
    BY <2>1 DEF TypeOK
  <2> QED
    BY <2>1, <2>2, <1>s
<1>5. CASE Query
  <2>1. /\ buffer' = buffer \o PageRows
        /\ reader' \in ReaderType
        /\ UNCHANGED <<next, log, status, writer, late, notices, lost, page, applied>>
    BY <1>5, QueryReads
  <2>2. buffer' \in Seq(Sequence)
    BY <2>1, PageOfRows DEF TypeOK
  <2>3. TypeOK'
    BY <2>1, <2>2 DEF TypeOK, ReaderType
  <2> QED
    BY <2>1, <2>3, <1>s
<1>6. CASE Wait \/ WakeUp \/ Poll
  <2>1. /\ reader' \in ReaderType
        /\ notices' \subseteq notices
        /\ UNCHANGED <<next, log, status, writer, late, lost, buffer, page, applied>>
    BY <1>6, ReaderTurns
  <2>2. TypeOK'
    BY <2>1 DEF TypeOK, ReaderType
  <2> QED
    BY <2>1, <2>2, <1>s
<1>7. CASE Attach
  <2>1. /\ page' = [state |-> "connecting", after |-> 0, reconnects |-> 0, seen |-> {}]
        /\ applied' = {}
        /\ UNCHANGED <<next, log, status, writer, late, notices, lost, reader, buffer>>
    BY <1>7 DEF Attach, serverVars
  <2>2. page' \in PageType
    BY <2>1, StartTypes
  <2>3. TypeOK'
    BY <2>1, <2>2 DEF TypeOK, PageType
  <2> QED
    BY <2>1, <2>3, <1>s
<1>8. CASE Connect
  <2>1. /\ reader' \in ReaderType
        /\ page' \in PageType
        /\ UNCHANGED <<next, log, status, writer, late, notices, lost, buffer, applied>>
    BY <1>8, ConnectAtPlace
  <2>2. TypeOK'
    BY <2>1 DEF TypeOK, PageType, ReaderType
  <2> QED
    BY <2>1, <2>2, <1>s
<1>9. CASE Apply
  <2>1. /\ Head(buffer) \in Sequence
        /\ buffer' \in Seq(Sequence)
        /\ page' \in PageType
        /\ Head(buffer) > page.after => applied' = applied \cup {Head(buffer)}
        /\ ~(Head(buffer) > page.after) => UNCHANGED <<page, applied>>
        /\ UNCHANGED <<next, log, status, writer, late, notices, lost, reader>>
    BY <1>9, ApplyTakesHead
  <2>2. applied' \subseteq Sequence
    BY <2>1 DEF TypeOK
  <2>3. TypeOK'
    BY <2>1, <2>2 DEF TypeOK, PageType
  <2> QED
    BY <2>1, <2>3, <1>s
<1>10. CASE StreamEnds \/ Disconnect \/ ObserveEnd
  <2>1. /\ reader' = NoReader
        /\ buffer' = <<>>
        /\ page' \in PageType
        /\ UNCHANGED <<next, log, status, writer, late, notices, lost, applied>>
    BY <1>10, EndsOfStreamClose DEF Closes
  <2>2. reader' \in ReaderType /\ buffer' \in Seq(Sequence)
    BY <2>1, StartTypes
  <2>3. TypeOK'
    BY <2>1, <2>2 DEF TypeOK, PageType, ReaderType
  <2> QED
    BY <2>1, <2>3, <1>s
<1> QED
  BY <1>1, <1>2, <1>3, <1>4, <1>5, <1>6, <1>7, <1>8, <1>9, <1>10 DEF ReaderStep, PageStep

-----------------------------------------------------------------------------
\* How a step may change what a page is sent: an event is committed; the reader
\* reads on; the reader turns; a page attaches, connects or applies an event; or
\* the stream is closed.
Turns ==
  /\ reader'.cursor = reader.cursor
  /\ reader.pc = "none" => reader'.pc = "none"
  /\ UNCHANGED <<log, late, buffer, page, applied>>

\* Every step is one of these.
LEMMA StepsOfStream ==
  ASSUME TypeOK, NumbersFree, Next
  PROVE  \/ \E n \in Sequence : Commits(n)
         \/ Quiet
         \/ Turns
         \/ Query \/ Attach \/ Connect \/ Apply
         \/ Closes
<1>1. CASE \E w \in Writer : Writes(w)
  <2>1. PICK w \in Writer : Writes(w)
    BY <1>1
  <2>2. CASE Insert(w)
    BY <2>2, InsertCommits DEF Commits
  <2>3. CASE ~Insert(w)
    BY <2>1, <2>3, OtherWritesAreQuiet DEF Writes
  <2> QED
    BY <2>2, <2>3
<1>2. CASE Continue
  <2>1. log' = log /\ UNCHANGED <<late, notices, lost, reader, buffer, page, applied>>
    BY <1>2 DEF Continue
  <2> QED
    BY <2>1 DEF Quiet, Committed
<1>3. CASE End
  BY <1>3, EndCommits
<1>4. CASE \E n \in Sequence : LoseNotice(n)
  BY <1>4 DEF LoseNotice, serverVars, Turns
<1>5. CASE Wait \/ WakeUp \/ Poll \/ \E n \in Sequence : Notice(n)
  BY <1>5, ReaderTurns DEF Turns
<1>6. CASE StreamEnds \/ Disconnect \/ ObserveEnd
  BY <1>6, EndsOfStreamClose
<1> QED
  BY <1>1, <1>2, <1>3, <1>4, <1>5, <1>6 DEF Next, Writes, ReaderStep, PageStep

\* The type and number parts of the invariant, for any step.
LEMMA StepKeepsTypes ==
  ASSUME TypeOK, NumbersFree, Next
  PROVE  TypeOK' /\ NumbersFree'
<1>1. CASE \E w \in Writer : Writes(w)
  BY <1>1, WriterStep
<1>2. CASE ~ \E w \in Writer : Writes(w)
  BY <1>2, ReaderOrPageStep DEF Next, Writes
<1> QED
  BY <1>1, <1>2

\* The numbers the stream parts compare.
LEMMA StreamNumbers ==
  ASSUME TypeOK
  PROVE  /\ page.after \in Nat
         /\ reader.cursor \in Nat
         /\ Committed \subseteq Nat
         /\ buffer \in Seq(Sequence)
         /\ \A i \in DOMAIN buffer : buffer[i] \in Sequence /\ buffer[i] \in Nat
  BY BoundAssumption DEF TypeOK, Committed, Sequence, Number

\* The parts that speak of what is buffered, while an event is committed: one
\* below the cursor is overtaken, for the cursor is at another event.
LEMMA CommitKeepsStream ==
  ASSUME TypeOK, Stream, Buffered, NoGap, NEW n \in Sequence, Commits(n)
  PROVE  Stream' /\ Buffered' /\ NoGap'
<1>1. /\ n \notin Committed
      /\ Committed' = Committed \cup {n}
      /\ late' = late \cup {m \in {n} : \E k \in Committed : k > m}
      /\ UNCHANGED <<reader, buffer, page>>
  BY DEF Commits
<1>2. Stream' /\ Buffered'
  BY <1>1 DEF Stream, Buffered
<1>3. ASSUME n <= reader.cursor
      PROVE  n \in late'
  <2>1. n \in Nat /\ n # 0
    BY BoundAssumption DEF Sequence
  <2>2. reader.cursor \in Committed /\ reader.cursor > n
    BY <1>1, <1>3, <2>1, StreamNumbers DEF Stream
  <2> QED
    BY <1>1, <2>2
<1>4. NoGap'
  BY <1>1, <1>3 DEF NoGap
<1> QED
  BY <1>2, <1>4

\* Reading on: the rows continue what is buffered, in order and without a gap.
LEMMA QueryKeepsStream ==
  ASSUME TypeOK, Stream, Buffered, NoGap, Query
  PROVE  Stream' /\ Buffered' /\ NoGap'
<1> DEFINE rows == PageRows
           old == Len(buffer)
<1>1. /\ reader.pc = "query"
      /\ buffer' = buffer \o rows
      /\ rows = <<>> => reader'.cursor = reader.cursor
      /\ rows # <<>> => reader'.cursor = rows[Len(rows)]
      /\ UNCHANGED <<log, late, page>>
  BY QueryReads
<1>2. /\ rows \in Seq(Sequence)
      /\ \A i \in DOMAIN rows : rows[i] \in Ahead
      /\ \A i, j \in DOMAIN rows : i < j => rows[i] < rows[j]
      /\ \A n \in Ahead : \A j \in DOMAIN rows :
           n <= rows[j] => \E i \in DOMAIN rows : rows[i] = n
  BY PageOfRows
<1> HIDE DEF rows
<1>3. /\ page.state = "streaming"
      /\ page.after <= reader.cursor
  BY <1>1 DEF Stream
<1>4. Committed' = Committed
  BY <1>1 DEF Committed
<1>5. /\ buffer \in Seq(Sequence)
      /\ DOMAIN buffer = 1 .. old
      /\ DOMAIN rows = 1 .. Len(rows)
      /\ old \in Nat
      /\ Len(rows) \in Nat
  BY <1>2, StreamNumbers
<1>6. DOMAIN buffer' = 1 .. (old + Len(rows))
  BY <1>1, <1>2, <1>5
<1>7. \A i \in 1 .. old : buffer'[i] = buffer[i]
  BY <1>1, <1>2, <1>5
<1>8. \A i \in (old + 1) .. (old + Len(rows)) : i - old \in DOMAIN rows /\ buffer'[i] = rows[i - old]
  BY <1>1, <1>2, <1>5
<1>9. \A i \in DOMAIN rows : old + i \in DOMAIN buffer' /\ buffer'[old + i] = rows[i]
  BY <1>1, <1>2, <1>5, <1>6
<1>10. \A i \in DOMAIN rows :
         rows[i] \in Committed /\ rows[i] > reader.cursor /\ rows[i] <= reader'.cursor
  <2> SUFFICES ASSUME NEW i \in DOMAIN rows
               PROVE  rows[i] \in Committed /\ rows[i] > reader.cursor /\ rows[i] <= reader'.cursor
    OBVIOUS
  <2>1. rows[i] \in Committed /\ rows[i] > reader.cursor
    BY <1>2 DEF Ahead
  <2>2. rows # <<>> /\ Len(rows) \in DOMAIN rows
    BY <1>2, <1>5
  <2>3. rows[i] \in Nat /\ rows[Len(rows)] \in Nat
    BY <1>2, <2>2, BoundAssumption DEF Sequence
  <2>4. rows[i] <= rows[Len(rows)]
    BY <1>2, <1>5, <2>2, <2>3
  <2> QED
    BY <1>1, <2>1, <2>2, <2>4
<1>11. reader.cursor <= reader'.cursor /\ reader'.cursor \in Committed \cup {0} /\ reader'.cursor \in Nat
  <2>1. CASE rows = <<>>
    BY <1>1, <2>1, StreamNumbers DEF Stream
  <2>2. CASE rows # <<>>
    <3>1. Len(rows) \in DOMAIN rows
      BY <1>2, <1>5, <2>2
    <3>2. reader'.cursor \in Committed /\ reader'.cursor > reader.cursor
      BY <1>1, <1>10, <2>2, <3>1
    <3> QED
      BY <3>2, StreamNumbers
  <2> QED
    BY <2>1, <2>2
<1>12. Stream'
  <2>1. page'.after <= reader'.cursor
    BY <1>1, <1>3, <1>11, StreamNumbers
  <2> QED
    BY <1>1, <1>3, <1>4, <1>11, <2>1 DEF Stream
<1>13. ASSUME NEW i \in DOMAIN buffer'
       PROVE  buffer'[i] \in Committed /\ page.after < buffer'[i] /\ buffer'[i] <= reader'.cursor
  <2>1. CASE i \in 1 .. old
    <3>1. buffer'[i] = buffer[i] /\ buffer[i] \in Nat
      BY <2>1, <1>5, <1>7, StreamNumbers
    <3>2. buffer[i] \in Committed /\ page.after < buffer[i] /\ buffer[i] <= reader.cursor
      BY <2>1, <1>5 DEF Buffered
    <3> QED
      BY <3>1, <3>2, <1>11, StreamNumbers
  <2>2. CASE i \notin 1 .. old
    <3>1. i \in (old + 1) .. (old + Len(rows))
      BY <2>2, <1>5, <1>6
    <3>2. /\ buffer'[i] \in Committed
          /\ buffer'[i] > reader.cursor
          /\ buffer'[i] <= reader'.cursor
      BY <3>1, <1>8, <1>10
    <3>3. buffer'[i] \in Nat
      BY <3>2, StreamNumbers
    <3> QED
      BY <3>2, <3>3, <1>3, StreamNumbers
  <2> QED
    BY <2>1, <2>2
<1>14. ASSUME NEW i \in DOMAIN buffer', NEW j \in DOMAIN buffer', i < j
       PROVE  buffer'[i] < buffer'[j]
  <2>1. CASE j \in 1 .. old
    <3>1. i \in 1 .. old
      BY <2>1, <1>5, <1>6, <1>14
    <3> QED
      BY <2>1, <3>1, <1>5, <1>7, <1>14 DEF Buffered
  <2>2. CASE j \notin 1 .. old /\ i \in 1 .. old
    <3>1. j \in (old + 1) .. (old + Len(rows))
      BY <2>2, <1>5, <1>6
    <3>2. buffer'[j] > reader.cursor /\ buffer'[j] \in Nat
      BY <3>1, <1>8, <1>10, StreamNumbers
    <3>3. buffer'[i] <= reader.cursor /\ buffer'[i] \in Nat
      BY <2>2, <1>5, <1>7, StreamNumbers DEF Buffered
    <3> QED
      BY <3>2, <3>3, StreamNumbers
  <2>3. CASE i \notin 1 .. old
    <3>1. i \in (old + 1) .. (old + Len(rows)) /\ j \in (old + 1) .. (old + Len(rows))
      BY <2>3, <1>5, <1>6, <1>14
    <3>2. i - old \in DOMAIN rows /\ j - old \in DOMAIN rows /\ i - old < j - old
      BY <3>1, <1>5, <1>14
    <3> QED
      BY <3>1, <3>2, <1>2, <1>8
  <2> QED
    BY <2>1, <2>2, <2>3
<1>15. Buffered'
  BY <1>1, <1>4, <1>13, <1>14 DEF Buffered
<1>16. ASSUME NEW m \in Committed, page.after < m, m <= reader'.cursor
       PROVE  m \in late \/ \E i \in DOMAIN buffer' : buffer'[i] = m
  <2>1. CASE m <= reader.cursor
    <3>1. m \in late \/ \E i \in DOMAIN buffer : buffer[i] = m
      BY <2>1, <1>16 DEF NoGap
    <3>2. \A i \in DOMAIN buffer : i \in DOMAIN buffer'
      BY <1>5, <1>6
    <3> QED
      BY <3>1, <3>2, <1>5, <1>7
  <2>2. CASE ~(m <= reader.cursor)
    <3>1. m \in Nat /\ m > reader.cursor
      BY <2>2, StreamNumbers
    <3>2. m \in Ahead
      BY <3>1 DEF Ahead
    <3>3. rows # <<>>
      BY <2>2, <1>1, <1>16
    <3>4. Len(rows) \in DOMAIN rows
      BY <3>3, <1>2, <1>5
    <3>5. PICK i \in DOMAIN rows : rows[i] = m
      BY <3>2, <3>3, <3>4, <1>1, <1>2, <1>16
    <3> QED
      BY <3>5, <1>9
  <2> QED
    BY <2>1, <2>2
<1>17. NoGap'
  BY <1>1, <1>4, <1>16 DEF NoGap
<1> QED
  BY <1>12, <1>15, <1>17

\* Applying: the page comes to the first event sent.
LEMMA ApplyKeepsStream ==
  ASSUME TypeOK, Stream, Buffered, NoGap, Apply
  PROVE  /\ Stream' /\ Buffered' /\ NoGap'
         /\ Feed!Show(Head(buffer))
<1> DEFINE n == Head(buffer)
<1>1. /\ page.state = "streaming"
      /\ buffer # <<>>
      /\ buffer' = Tail(buffer)
      /\ page'.state = "streaming"
      /\ n > page.after => page'.after = n /\ applied' = applied \cup {n}
      /\ UNCHANGED <<log, late, reader>>
  BY ApplyTakesHead
<1>2. Committed' = Committed
  BY <1>1 DEF Committed
<1>3. /\ 1 \in DOMAIN buffer
      /\ n = buffer[1]
      /\ DOMAIN buffer' = 1 .. (Len(buffer) - 1)
      /\ \A i \in DOMAIN buffer' : i + 1 \in DOMAIN buffer /\ buffer'[i] = buffer[i + 1]
      /\ \A i \in DOMAIN buffer : i # 1 => i - 1 \in DOMAIN buffer' /\ buffer'[i - 1] = buffer[i]
  BY <1>1, StreamNumbers
<1> HIDE DEF n
<1>4. n \in Committed /\ page.after < n /\ n <= reader.cursor /\ n \in Nat
  BY <1>3, StreamNumbers DEF Buffered
<1>5. page'.after = n /\ applied' = applied \cup {n}
  BY <1>1, <1>4, StreamNumbers
<1>6. \A i \in DOMAIN buffer : i # 1 => n < buffer[i]
  <2>1. \A i \in DOMAIN buffer : i # 1 => 1 < i
    BY StreamNumbers
  <2> QED
    BY <2>1, <1>3 DEF Buffered
<1>7. Stream'
  BY <1>1, <1>2, <1>4, <1>5 DEF Stream
<1>8. \A i \in DOMAIN buffer' : i + 1 # 1
  BY <1>3
<1>9. ASSUME NEW i \in DOMAIN buffer'
      PROVE  buffer'[i] \in Committed /\ n < buffer'[i] /\ buffer'[i] <= reader.cursor
  BY <1>3, <1>6, <1>8 DEF Buffered
<1>10. ASSUME NEW i \in DOMAIN buffer', NEW j \in DOMAIN buffer', i < j
       PROVE  buffer'[i] < buffer'[j]
  <2>1. i + 1 < j + 1
    BY <1>3, <1>10
  <2> QED
    BY <2>1, <1>3 DEF Buffered
<1>11. Buffered'
  BY <1>1, <1>2, <1>5, <1>9, <1>10 DEF Buffered
<1>12. ASSUME NEW m \in Committed, page.after < m, m <= reader.cursor, m \notin late
       PROVE  m = n \/ (n < m /\ \E i \in DOMAIN buffer' : buffer'[i] = m)
  <2>1. PICK i \in DOMAIN buffer : buffer[i] = m
    BY <1>12 DEF NoGap
  <2> QED
    BY <2>1, <1>3, <1>6
<1>13. NoGap'
  <2> SUFFICES ASSUME NEW m \in Committed, n < m, m <= reader.cursor, m \notin late
               PROVE  \E i \in DOMAIN buffer' : buffer'[i] = m
    BY <1>1, <1>2, <1>5 DEF NoGap
  <2>1. page.after < m /\ m # n
    BY <1>4, StreamNumbers
  <2> QED
    BY <1>12, <2>1
<1>14. ASSUME NEW m \in Committed, page.after < m, m < n
       PROVE  m \in late
  <2>1. m <= reader.cursor /\ m # n /\ ~(n < m)
    BY <1>4, <1>14, StreamNumbers
  <2> QED
    BY <1>12, <1>14, <2>1
<1>15. Feed!Show(n)
  <2>1. n > page.after
    BY <1>4, StreamNumbers
  <2> QED
    BY <1>1, <1>2, <1>4, <1>5, <1>14, <2>1 DEF Feed!Show
<1> QED
  BY <1>7, <1>11, <1>13, <1>15 DEF n

\* A page that attaches starts at nothing, one that connects at its place.
LEMMA OtherStepsKeepStream ==
  ASSUME TypeOK, Stream, Buffered, NoGap, Quiet \/ Turns \/ Attach \/ Connect \/ Closes
  PROVE  Stream' /\ Buffered' /\ NoGap'
<1>1. CASE Quiet
  BY <1>1 DEF Quiet, Stream, Buffered, NoGap
<1>2. CASE Turns
  <2>1. /\ Committed' = Committed
        /\ reader'.cursor = reader.cursor
        /\ reader.pc = "none" => reader'.pc = "none"
        /\ UNCHANGED <<late, buffer, page>>
    BY <1>2 DEF Turns, Committed
  <2> QED
    BY <2>1 DEF Stream, Buffered, NoGap
<1>3. CASE Attach
  <2>1. /\ page.state # "streaming"
        /\ page'.state = "connecting"
        /\ page'.after = 0
        /\ UNCHANGED <<log, late, reader, buffer>>
    BY <1>3 DEF Attach, serverVars
  <2>2. Committed' = Committed /\ buffer = <<>> /\ reader.pc = "none" /\ reader.cursor = 0
    BY <2>1 DEF Committed, Stream
  <2>3. \A m \in Committed : ~(0 < m /\ m <= 0)
    BY StreamNumbers
  <2> QED
    BY <2>1, <2>2, <2>3 DEF Stream, Buffered, NoGap
<1>4. CASE Connect
  <2>1. /\ page.state = "connecting"
        /\ reader'.cursor = page.after
        /\ page'.state = "streaming"
        /\ page'.after = page.after
        /\ UNCHANGED <<log, late, buffer>>
    BY <1>4, ConnectAtPlace
  <2>2. Committed' = Committed /\ buffer = <<>>
    BY <2>1 DEF Committed, Stream
  <2>3. \A m \in Committed : ~(page.after < m /\ m <= page.after)
    BY StreamNumbers
  <2>4. page.after <= page.after
    BY StreamNumbers
  <2> QED
    BY <2>1, <2>2, <2>3, <2>4 DEF Stream, Buffered, NoGap
<1>5. CASE Closes
  <2>1. /\ reader'.pc = "none"
        /\ reader'.cursor = 0
        /\ buffer' = <<>>
        /\ page'.after = page.after
        /\ page'.state # "streaming"
        /\ UNCHANGED <<log, late>>
    BY <1>5 DEF Closes, NoReader
  <2>2. Committed' = Committed
    BY <2>1 DEF Committed
  <2>3. \A m \in Committed : ~(page.after < m /\ m <= 0)
    BY StreamNumbers
  <2> QED
    BY <2>1, <2>2, <2>3 DEF Stream, Buffered, NoGap
<1> QED
  BY <1>1, <1>2, <1>3, <1>4, <1>5

-----------------------------------------------------------------------------
\* While no notice is lost, what is committed behind a resting reader's back is
\* announced: the notice of an insert is published with it, a notice received
\* while the reader reads or rests is kept in woken, and the reader comes to rest
\* only behind a page that was not full.
LEMMA StepKeepsAnnounced ==
  ASSUME TypeOK, NumbersFree, Stream, Announced, Next
  PROVE  Announced'
<1>1. CASE (\E w \in Writer : Writes(w)) \/ Continue \/ End
  <2>1. (\E n \in Sequence : Commits(n)) \/ Quiet
    <3>1. ASSUME NEW w \in Writer, Writes(w)
          PROVE  (\E n \in Sequence : Commits(n)) \/ Quiet
      <4>1. CASE Insert(w)
        BY <4>1, InsertCommits DEF Commits
      <4>2. CASE ~Insert(w)
        BY <3>1, <4>2, OtherWritesAreQuiet DEF Writes
      <4> QED
        BY <4>1, <4>2
    <3>2. CASE Continue
      <4>1. log' = log /\ UNCHANGED <<late, notices, lost, reader, buffer, page, applied>>
        BY <3>2 DEF Continue
      <4> QED
        BY <4>1 DEF Quiet, Committed
    <3>3. CASE End
      BY <3>3, EndCommits
    <3> QED
      BY <1>1, <3>1, <3>2, <3>3
  <2>2. CASE Quiet
    BY <2>2 DEF Quiet, Announced, Ahead
  <2>3. ASSUME NEW n \in Sequence, Commits(n)
        PROVE  Announced'
    <3>1. /\ Committed' = Committed \cup {n}
          /\ notices' = notices \cup {n}
          /\ UNCHANGED <<lost, reader>>
      BY <2>3 DEF Commits
    <3>2. Ahead' \subseteq Ahead \cup {n}
      BY <3>1 DEF Ahead
    <3> QED
      BY <3>1, <3>2 DEF Announced
  <2> QED
    BY <2>1, <2>2, <2>3
<1>2. ASSUME NEW n \in Sequence, Notice(n)
      PROVE  Announced'
  <2>1. /\ notices' = notices \ {n}
        /\ reader' = IF Subscribed /\ n > reader.cursor
                     THEN [reader EXCEPT !.woken = TRUE] ELSE reader
        /\ UNCHANGED <<log, lost>>
    BY <1>2 DEF Notice, serverVars
  <2>2. CASE Subscribed /\ n > reader.cursor
    <3>1. reader'.woken
      BY <2>1, <2>2 DEF TypeOK
    <3> QED
      BY <3>1 DEF Announced
  <2>3. CASE ~Subscribed
    <3>1. reader'.pc \notin {"sent", "wait"}
      BY <2>1, <2>3 DEF Subscribed
    <3> QED
      BY <3>1 DEF Announced
  <2>4. CASE ~(n > reader.cursor)
    <3>1. reader' = reader /\ Ahead' = Ahead /\ n \notin Ahead
      BY <2>1, <2>4 DEF Ahead, Committed
    <3> QED
      BY <2>1, <3>1 DEF Announced
  <2> QED
    BY <2>2, <2>3, <2>4
<1>3. ASSUME NEW n \in Sequence, LoseNotice(n)
      PROVE  Announced'
  BY <1>3 DEF LoseNotice, Announced
<1>4. CASE Query
  <2>1. /\ reader'.pc = "sent" => Len(PageRows) # PageSize
        /\ reader'.pc \in {"query", "sent", "closed"}
        /\ PageRows = <<>> => reader'.cursor = reader.cursor
        /\ PageRows # <<>> => reader'.cursor = PageRows[Len(PageRows)]
        /\ log' = log
    BY <1>4, QueryReads
  <2>2. /\ PageRows \in Seq(Sequence)
        /\ \A i \in DOMAIN PageRows : PageRows[i] \in Ahead
        /\ \A i, j \in DOMAIN PageRows : i < j => PageRows[i] < PageRows[j]
        /\ Len(PageRows) < PageSize => \A n \in Ahead : \E i \in DOMAIN PageRows : PageRows[i] = n
        /\ PageRows = <<>> <=> Ahead = {}
        /\ Len(PageRows) <= PageSize
    BY PageOfRows
  <2> DEFINE rows == PageRows
  <2> HIDE DEF rows
  <2>3. ASSUME reader'.pc = "sent"
        PROVE  Ahead' = {}
    <3>1. CASE rows = <<>>
      BY <3>1, <2>1, <2>2 DEF rows, Ahead, Committed
    <3>2. CASE rows # <<>>
      <4>1. rows \in Seq(Sequence) /\ reader'.cursor = rows[Len(rows)]
        BY <3>2, <2>1, <2>2 DEF rows
      <4>2. Len(rows) \in DOMAIN rows /\ DOMAIN rows = 1 .. Len(rows)
        BY <3>2, <4>1
      <4>3. Len(rows) < PageSize
        BY <2>1, <2>2, <2>3, <4>1, PageSizeAssumption DEF rows
      <4>4. \A i \in DOMAIN rows : rows[i] <= reader'.cursor
        <5> SUFFICES ASSUME NEW i \in DOMAIN rows
                     PROVE  rows[i] <= rows[Len(rows)]
          BY <4>1
        <5>1. i = Len(rows) \/ i < Len(rows)
          BY <4>2
        <5>2. rows[i] \in Nat /\ rows[Len(rows)] \in Nat
          BY <4>1, <4>2, BoundAssumption DEF Sequence
        <5>3. i < Len(rows) => rows[i] < rows[Len(rows)]
          BY <2>2, <4>2 DEF rows
        <5> QED
          BY <5>1, <5>2, <5>3
      <4>5. \A n \in Ahead : n <= reader'.cursor
        BY <4>3, <4>4, <2>2 DEF rows
      <4>6. reader'.cursor \in Ahead
        BY <4>1, <4>2, <2>2 DEF rows
      <4>7. reader.cursor \in Nat /\ Committed \subseteq Nat
        BY StreamNumbers
      <4>8. reader'.cursor \in Nat /\ reader'.cursor > reader.cursor
        BY <4>6, <4>7 DEF Ahead
      <4>9. \A n \in Committed : n > reader'.cursor => n \in Ahead
        BY <4>7, <4>8 DEF Ahead
      <4>10. \A n \in Committed : ~(n > reader'.cursor)
        BY <4>5, <4>7, <4>8, <4>9
      <4> QED
        BY <2>1, <4>10 DEF Ahead, Committed
    <3> QED
      BY <3>1, <3>2
  <2> QED
    BY <2>1, <2>3 DEF Announced
<1>5. CASE Wait
  <2>1. /\ reader.pc = "sent"
        /\ reader' = [reader EXCEPT !.pc = "wait"]
        /\ UNCHANGED <<log, notices, lost>>
    BY <1>5 DEF Wait, serverVars
  <2>2. reader'.cursor = reader.cursor /\ reader'.woken = reader.woken
    BY <2>1 DEF TypeOK
  <2>3. Ahead' = Ahead
    BY <2>1, <2>2 DEF Ahead, Committed
  <2> QED
    BY <2>1, <2>2, <2>3 DEF Announced
<1>6. CASE WakeUp \/ Poll
  <2>1. reader' = [reader EXCEPT !.pc = "query", !.woken = FALSE]
    BY <1>6 DEF WakeUp, Poll
  <2>2. reader'.pc = "query"
    BY <2>1 DEF TypeOK
  <2> QED
    BY <2>2 DEF Announced
<1>7. CASE Attach \/ Apply
  <2>1. UNCHANGED <<log, notices, lost, reader>>
    BY <1>7 DEF Attach, Apply, serverVars
  <2> QED
    BY <2>1 DEF Announced, Ahead, Committed
<1>8. CASE Connect
  BY <1>8, ConnectAtPlace DEF Announced
<1>9. CASE StreamEnds \/ Disconnect \/ ObserveEnd
  BY <1>9, EndsOfStreamClose DEF Closes, NoReader, Announced
<1> QED
  BY <1>1, <1>2, <1>3, <1>4, <1>5, <1>6, <1>7, <1>8, <1>9 DEF Next, Writes, ReaderStep, PageStep

-----------------------------------------------------------------------------
\* The invariant holds at first, and every step keeps it.
LEMMA InitLogInv == Init => LogInv
<1> SUFFICES ASSUME Init
             PROVE  LogInv
  OBVIOUS
<1>1. TypeOK
  <2>1. writer \in [Writer -> WriterType]
    BY StartTypes DEF Init
  <2>2. reader \in ReaderType /\ page \in PageType
    BY StartTypes DEF Init
  <2>3. buffer \in Seq(Sequence)
    BY DEF Init
  <2>4. next \in Number
    BY BoundAssumption DEF Init, Number
  <2> QED
    BY <2>1, <2>2, <2>3, <2>4 DEF Init, TypeOK, WriterType, ReaderType, PageType
<1>2. Committed = {}
  BY DEF Init, Committed
<1>3. NumbersFree
  BY DEF Init, NumbersFree, NoEvent
<1>4. Stream /\ Buffered /\ NoGap /\ Announced
  BY <1>2 DEF Init, NoReader, Stream, Buffered, NoGap, Announced
<1> QED
  BY <1>1, <1>3, <1>4 DEF LogInv

\* A stutter changes no part of the invariant.
LEMMA StutterKeepsLogInv ==
  ASSUME LogInv, UNCHANGED vars
  PROVE  LogInv'
<1>1. UNCHANGED <<next, log, status, writer, late, notices, lost, reader, buffer, page, applied>>
  BY DEF vars, serverVars
<1>2. Committed' = Committed /\ Ahead' = Ahead
  BY <1>1 DEF Committed, Ahead
<1>3. TypeOK' /\ NumbersFree'
  BY <1>1 DEF LogInv, TypeOK, NumbersFree
<1>4. Stream' /\ Buffered' /\ NoGap' /\ Announced'
  BY <1>1, <1>2 DEF LogInv, Stream, Buffered, NoGap, Announced
<1> QED
  BY <1>3, <1>4 DEF LogInv

\* Nor does a step of a writer, the reader or the page break one.
LEMMA StepKeepsLogInv ==
  ASSUME LogInv, Next
  PROVE  LogInv'
<1>1. TypeOK' /\ NumbersFree'
  BY StepKeepsTypes DEF LogInv
<1>2. Stream' /\ Buffered' /\ NoGap'
  <2>1. CASE \E n \in Sequence : Commits(n)
    BY <2>1, CommitKeepsStream DEF LogInv
  <2>2. CASE Query
    BY <2>2, QueryKeepsStream DEF LogInv
  <2>3. CASE Apply
    BY <2>3, ApplyKeepsStream DEF LogInv
  <2>4. CASE Quiet \/ Turns \/ Attach \/ Connect \/ Closes
    BY <2>4, OtherStepsKeepStream DEF LogInv
  <2> QED
    BY <2>1, <2>2, <2>3, <2>4, StepsOfStream DEF LogInv
<1>3. Announced'
  BY StepKeepsAnnounced DEF LogInv
<1> QED
  BY <1>1, <1>2, <1>3 DEF LogInv

\* The invariant of the event log holds throughout (run-event-sequencer.ts,
\* run-events.ts, run-registry.ts).
THEOREM LogInvariant == Spec => []LogInv
<1>1. LogInv /\ [Next]_vars => LogInv'
  BY StepKeepsLogInv, StutterKeepsLogInv
<1> QED
  BY <1>1, InitLogInv, PTL DEF Spec

\* The log, the reader and the page stay in their types (run-events.ts,
\* run-registry.ts).
THEOREM LogTypes == Spec => []TypeOK
<1>1. LogInv => TypeOK
  BY DEF LogInv
<1> QED
  BY <1>1, LogInvariant, PTL

\* A reader of the event stream does not sleep through an event whose notice was
\* not lost (replayRunEvents, RunEventWakeup): for any number of writers, events
\* and reconnects and any page size.
THEOREM NoWakeupIsLost == Spec => []NoLostWakeup
<1>1. LogInv => NoLostWakeup
  BY DEF LogInv, Announced, NoLostWakeup
<1> QED
  BY <1>1, LogInvariant, PTL

-----------------------------------------------------------------------------
\* Each step of the log, the reader and the page is a step of the feed or changes
\* nothing of it.
LEMMA StepIsFeedStep ==
  ASSUME LogInv, Next
  PROVE  [Feed!Next]_Feed!vars
<1>1. CASE \E n \in Sequence : Commits(n)
  <2>1. PICK n \in Sequence : Commits(n)
    BY <1>1
  <2>2. Feed!Commit(n)
    BY <2>1 DEF Commits, Feed!Commit
  <2> QED
    BY <2>2 DEF Feed!Next
<1>2. CASE Quiet
  BY <1>2 DEF Quiet, Feed!vars
<1>3. CASE Turns
  BY <1>3 DEF Turns, Feed!vars, Committed
<1>4. CASE Query
  BY <1>4, QueryReads DEF LogInv, Feed!vars, Committed
<1>5. CASE Attach
  <2>1. applied' = {} /\ page'.after = 0 /\ log' = log /\ late' = late
    BY <1>5 DEF Attach, serverVars
  <2>2. Feed!Restart
    BY <2>1 DEF Feed!Restart, Committed
  <2> QED
    BY <2>2 DEF Feed!Next
<1>6. CASE Connect
  BY <1>6, ConnectAtPlace DEF LogInv, Feed!vars, Committed
<1>7. CASE Apply
  <2>1. Head(buffer) \in Sequence
    BY <1>7, ApplyTakesHead DEF LogInv
  <2>2. Feed!Show(Head(buffer))
    BY <1>7, ApplyKeepsStream DEF LogInv
  <2> QED
    BY <2>1, <2>2 DEF Feed!Next
<1>8. CASE Closes
  BY <1>8 DEF Closes, Feed!vars, Committed
<1> QED
  BY <1>1, <1>2, <1>3, <1>4, <1>5, <1>6, <1>7, <1>8, StepsOfStream DEF LogInv

\* The log, the replay loop and the page implement the feed: the page shows the
\* events in order, each once, and skips only overtaken ones.
THEOREM LogImplementsFeed == Spec => ImplementsFeed
<1>1. Init => Feed!Init
  BY DEF Init, Feed!Init, Committed
<1>2. LogInv /\ [Next]_vars => [Feed!Next]_Feed!vars
  <2> SUFFICES ASSUME LogInv, [Next]_vars
               PROVE  [Feed!Next]_Feed!vars
    OBVIOUS
  <2>1. CASE Next
    BY <2>1, StepIsFeedStep
  <2>2. CASE UNCHANGED vars
    BY <2>2 DEF vars, serverVars, Feed!vars, Committed
  <2> QED
    BY <2>1, <2>2
<1> QED
  BY <1>1, <1>2, LogInvariant, PTL DEF Spec, ImplementsFeed, Feed!Spec

-----------------------------------------------------------------------------
\* What the page shows is what was committed up to the last event it has shown, but
\* for overtaken events.
ShownWhole ==
  /\ applied \subseteq Committed
  /\ \A n \in applied : n <= page.after
  /\ \A n \in Committed : n <= page.after => n \in applied \cup late

\* The page shows the stream without a gap up to its position, but for overtaken
\* events, and nothing that is not in the log (run-registry.ts): NothingSkipped,
\* which is refuted, leaves out the exception.
THEOREM PageShowsWhole == Spec => []ShownWhole
<1>1. Init => ShownWhole
  BY DEF Init, ShownWhole, Committed
<1>2. ASSUME LogInv, ShownWhole, [Feed!Next]_(Feed!vars)
      PROVE  ShownWhole'
  <2>1. /\ page.after \in Committed \cup {0}
        /\ page.after \in Nat
        /\ \A n \in Sequence : n \in Nat /\ n > 0
        /\ \A n \in Committed : n \in Sequence
    <3>1. \A n \in Sequence : n \in Nat /\ n > 0
      BY BoundAssumption DEF Sequence
    <3>2. Committed \subseteq Sequence /\ page.after \in Committed \cup {0}
      BY <1>2 DEF LogInv, Stream, Committed
    <3> QED
      BY <3>1, <3>2
  <2>2. CASE Feed!Restart
    <3>1. applied' = {} /\ page'.after = 0 /\ Committed' = Committed /\ late' = late
      BY <2>2 DEF Feed!Restart
    <3>2. \A n \in Committed : ~(n <= 0)
      BY <2>1
    <3> QED
      BY <3>1, <3>2 DEF ShownWhole
  <2>3. ASSUME NEW m \in Sequence, Feed!Commit(m)
        PROVE  ShownWhole'
    <3>1. /\ m \notin Committed
          /\ Committed' = Committed \cup {m}
          /\ late' = late \cup {k \in {m} : \E j \in Committed : j > k}
          /\ applied' = applied
          /\ page'.after = page.after
      BY <2>3 DEF Feed!Commit
    <3>2. m <= page.after => page.after \in Committed /\ page.after > m
      BY <2>1, <3>1
    <3>3. m <= page.after => m \in late'
      BY <3>1, <3>2
    <3> QED
      BY <1>2, <3>1, <3>3 DEF ShownWhole
  <2>4. ASSUME NEW m \in Sequence, Feed!Show(m)
        PROVE  ShownWhole'
    <3>1. /\ m \in Committed
          /\ m > page.after
          /\ \A k \in Committed : page.after < k /\ k < m => k \in late
          /\ applied' = applied \cup {m}
          /\ page'.after = m
          /\ Committed' = Committed
          /\ late' = late
      BY <2>4 DEF Feed!Show
    <3>2. \A n \in applied' : n <= m
      <4>1. \A n \in applied : n \in Nat /\ n <= page.after
        BY <1>2, <2>1 DEF ShownWhole
      <4> QED
        BY <2>1, <3>1, <4>1
    <3>3. \A n \in Committed : n <= m => n <= page.after \/ n = m \/ (page.after < n /\ n < m)
      BY <2>1, <3>1
    <3>4. \A n \in Committed : n <= m => n \in applied' \cup late
      BY <1>2, <3>1, <3>3 DEF ShownWhole
    <3> QED
      BY <1>2, <3>1, <3>2, <3>4 DEF ShownWhole
  <2>5. CASE UNCHANGED Feed!vars
    BY <1>2, <2>5 DEF Feed!vars, ShownWhole
  <2> QED
    BY <1>2, <2>2, <2>3, <2>4, <2>5 DEF Feed!Next
<1>3. LogInv /\ [Next]_vars /\ ShownWhole => ShownWhole'
  <2>1. UNCHANGED vars => UNCHANGED Feed!vars
    BY DEF vars, serverVars, Feed!vars, Committed
  <2> QED
    BY <1>2, <2>1, StepIsFeedStep
<1> QED
  BY <1>1, <1>3, LogInvariant, PTL DEF Spec

-----------------------------------------------------------------------------
\* The webhooks of the run's terminal event.

\* A delivery's lease is live and has this sender's token.
HeldBy(a, s) == lease[s].live /\ lease[s].by = a

\* Attempts that may still post and whose answer will be discarded.
Stray(s) == {a \in Sender : attempt[a][s] \in {"fetch", "post"} /\ ~HeldBy(a, s)}

\* Whether an answer is there that will be recorded.
Recordable(s) ==
  IF \E a \in Sender : HeldBy(a, s) /\ attempt[a][s] \in {"ok", "error"} THEN 1 ELSE 0

\* The account of a subscription: an attempt without a lease has cost a fault and
\* may post once more; one with a lease posts once, and is counted.
Account(s) ==
  /\ IsFiniteSet(Stray(s))
  /\ IsFiniteSet(InFlight(s))
  /\ posts[s] + Cardinality(Stray(s)) <= delivery[s].attempts + Recordable(s) + faults

\* A live lease has an owner, and while the owner works on the delivery nobody has
\* answered it; one that was never answered was never counted.
Leased(s) ==
  /\ lease[s].live => lease[s].by \in Sender
  /\ delivery[s].status \in {"absent", "pending"} => delivery[s].attempts = 0
  /\ \A a \in Sender : attempt[a][s] \in Holding /\ HeldBy(a, s) =>
       delivery[s].status \in {"pending", "failed"} /\ delivery[s].attempts < MaxAttempts

\* Who works on a delivery holds its lease, until one is outlasted.
Kept(s) ==
  overruns = 0 => \A a \in Sender : attempt[a][s] \in Holding => HeldBy(a, s)

\* A drain at rest has no attempts; one that emits without an error has made, or
\* is yet to make, the row of each enabled subscription.
Emits ==
  /\ \A d \in Drain : drain[d] = "idle" => \A s \in Subscription : attempt[d][s] \in Over
  /\ \A d \in Drain : drain[d] = "emit" =>
       \A s \in enabled : attempt[d][s] = "todo" \/ delivery[s].status # "absent"

\* The inductive invariant.
HookInv ==
  /\ HookTypeOK
  /\ overruns <= faults
  /\ Emits
  /\ CompletedJobReachedAll
  /\ \A s \in Subscription : Leased(s) /\ Kept(s) /\ Account(s)

-----------------------------------------------------------------------------
JobType == [status : {"queued", "running", "completed"}, by : Drain \cup {None}, live : BOOLEAN]
RowType == [status : {"absent", "pending", "delivered", "failed"},
            attempts : 0 .. MaxAttempts, due : {"never", "later", "now"}]
LeaseType == [by : Sender \cup {None}, live : BOOLEAN]
Stage == Over \cup Holding \cup {"todo", "claim"}

\* What the invariant says of types and constants.
LEMMA HookTypes ==
  ASSUME HookInv
  PROVE  /\ job \in JobType
         /\ enabled \subseteq Subscription
         /\ delivery \in [Subscription -> RowType]
         /\ lease \in [Subscription -> LeaseType]
         /\ drain \in [Drain -> {"idle", "emit", "broken"}]
         /\ attempt \in [Sender -> [Subscription -> Stage]]
         /\ posts \in [Subscription -> Nat]
         /\ faults \in 0 .. MaxFaults
         /\ overruns \in 0 .. MaxFaults
         /\ faults \in Nat
         /\ overruns \in Nat
         /\ MaxAttempts \in Nat
         /\ MaxAttempts > 0
         /\ MaxFaults \in Nat
         /\ Drain \cap Retrier = {}
         /\ Drain \subseteq Sender
         /\ Retrier \subseteq Sender
         /\ None \notin Sender
<1>1. /\ MaxAttempts \in Nat
      /\ MaxAttempts > 0
      /\ MaxFaults \in Nat
      /\ Drain \cap Retrier = {}
      /\ None \notin Sender
  BY MaxAttemptsAssumption, MaxFaultsAssumption, SenderAssumption DEF Sender
<1>2. /\ job \in JobType
      /\ enabled \subseteq Subscription
      /\ delivery \in [Subscription -> RowType]
      /\ lease \in [Subscription -> LeaseType]
      /\ drain \in [Drain -> {"idle", "emit", "broken"}]
      /\ attempt \in [Sender -> [Subscription -> Stage]]
      /\ posts \in [Subscription -> Nat]
      /\ faults \in 0 .. MaxFaults
      /\ overruns \in 0 .. MaxFaults
  BY DEF HookInv, HookTypeOK, JobType, RowType, LeaseType, Stage
<1>3. faults \in Nat /\ overruns \in Nat
  BY <1>1, <1>2
<1>4. Drain \subseteq Sender /\ Retrier \subseteq Sender
  BY DEF Sender
<1> QED
  BY <1>1, <1>2, <1>3, <1>4

\* The stages, told apart.
LEMMA Stages ==
  /\ \A x \in Holding : x \notin Over /\ x # "todo" /\ x # "claim"
  /\ {"fetch", "post", "ok", "error", "unavailable"} = Holding
  /\ {"none", "done"} = Over
  BY DEF Holding, Over

\* One attempt moves on, and nothing else of the attempts does.
LEMMA AdvanceMovesOne ==
  ASSUME HookInv, NEW a \in Sender, NEW s \in Subscription, NEW to \in Stage,
         Advance(a, s, to)
  PROVE  /\ attempt' \in [Sender -> [Subscription -> Stage]]
         /\ attempt'[a][s] = to
         /\ \A b \in Sender, t \in Subscription :
              b # a \/ t # s => attempt'[b][t] = attempt[b][t]
  BY HookTypes DEF Advance

-----------------------------------------------------------------------------
\* What a step does to the delivery of one subscription.
OthersStay(a, s) == \A b \in Sender \ {a} : attempt'[b][s] = attempt[b][s]
RowStays(s) == delivery'[s] = delivery[s] /\ posts'[s] = posts[s]

\* Nothing that is counted changes: no attempt begins or ends holding it.
Rests(s) ==
  /\ lease'[s] = lease[s]
  /\ posts'[s] = posts[s]
  /\ delivery'[s].attempts = delivery[s].attempts
  /\ \/ delivery'[s].status = delivery[s].status
     \/ delivery[s].status = "absent" /\ delivery'[s].status = "pending"
  /\ \A b \in Sender :
       \/ attempt'[b][s] = attempt[b][s]
       \/ attempt[b][s] \notin Holding /\ attempt'[b][s] \notin Holding

Claims(a, s) ==
  /\ ~lease[s].live
  /\ lease'[s] = [by |-> a, live |-> TRUE]
  /\ attempt[a][s] \notin Holding
  /\ attempt'[a][s] \in {"fetch", "post"}
  /\ OthersStay(a, s)
  /\ RowStays(s)
  /\ delivery[s].status \in {"pending", "failed"}
  /\ delivery[s].attempts < MaxAttempts

Fetches(a, s) ==
  /\ attempt[a][s] = "fetch"
  /\ attempt'[a][s] \in {"post", "unavailable"}
  /\ OthersStay(a, s)
  /\ RowStays(s)
  /\ lease'[s] = lease[s]

Sends(a, s) ==
  /\ attempt[a][s] = "post"
  /\ attempt'[a][s] \in {"ok", "error"}
  /\ OthersStay(a, s)
  /\ delivery'[s] = delivery[s]
  /\ posts'[s] = posts[s] \/ posts'[s] = posts[s] + 1
  /\ lease'[s] = lease[s]

Records(a, s) ==
  /\ attempt[a][s] \in {"ok", "error", "unavailable"}
  /\ HeldBy(a, s)
  /\ attempt'[a][s] = "done"
  /\ OthersStay(a, s)
  /\ delivery'[s].status \in {"delivered", "failed"}
  /\ delivery'[s].attempts =
       IF attempt[a][s] = "unavailable" THEN delivery[s].attempts ELSE delivery[s].attempts + 1
  /\ posts'[s] = posts[s]
  /\ ~lease'[s].live

Discards(a, s) ==
  /\ attempt[a][s] \in {"ok", "error", "unavailable"}
  /\ ~HeldBy(a, s)
  /\ attempt'[a][s] = "done"
  /\ OthersStay(a, s)
  /\ RowStays(s)
  /\ lease'[s] = lease[s]

Stops(a, s) ==
  /\ faults' = faults + 1
  /\ attempt'[a][s] \in Over
  /\ OthersStay(a, s)
  /\ RowStays(s)
  /\ lease'[s] = lease[s]

Expires(s) ==
  /\ lease[s].live
  /\ ~lease'[s].live
  /\ \A b \in Sender : attempt'[b][s] = attempt[b][s]
  /\ RowStays(s)
  /\ \/ attempt[lease[s].by][s] \notin Holding
     \/ faults' = faults + 1 /\ overruns' = overruns + 1

OnDelivery(s) ==
  \/ Rests(s)
  \/ \E a \in Sender : Claims(a, s) \/ Fetches(a, s) \/ Sends(a, s)
  \/ \E a \in Sender : Records(a, s) \/ Discards(a, s) \/ Stops(a, s)
  \/ Expires(s)

\* What a step does to the counters, and to the drains and the job.
Counts ==
  /\ faults' \in {faults, faults + 1}
  /\ overruns' \in {overruns, overruns + 1}
  /\ overruns' = overruns + 1 => faults' = faults + 1
  /\ faults' \in 0 .. MaxFaults

-----------------------------------------------------------------------------
\* Sets of attempts: a subset costs no more, an element more or less costs one.
LEMMA SubsetCosts ==
  ASSUME NEW S, IsFiniteSet(S), NEW T, T \subseteq S
  PROVE  /\ IsFiniteSet(T)
         /\ Cardinality(T) \in Nat
         /\ Cardinality(S) \in Nat
         /\ Cardinality(T) <= Cardinality(S)
  BY FS_Subset, FS_CardinalityType

LEMMA ElementCosts ==
  ASSUME NEW S, IsFiniteSet(S), NEW T, NEW x, T \subseteq S \cup {x}
  PROVE  /\ IsFiniteSet(T)
         /\ Cardinality(T) \in Nat
         /\ Cardinality(S) \in Nat
         /\ Cardinality(T) <= Cardinality(S) + 1
<1>1. IsFiniteSet(S \cup {x}) /\ Cardinality(S) \in Nat /\ Cardinality(S \cup {x}) <= Cardinality(S) + 1
  <2>1. /\ IsFiniteSet(S \cup {x})
        /\ Cardinality(S \cup {x}) = IF x \in S THEN Cardinality(S) ELSE Cardinality(S) + 1
    BY FS_AddElement
  <2>2. Cardinality(S) \in Nat
    BY FS_CardinalityType
  <2> QED
    BY <2>1, <2>2
<1>2. IsFiniteSet(T) /\ Cardinality(T) \in Nat /\ Cardinality(T) <= Cardinality(S \cup {x})
  BY <1>1, SubsetCosts
<1> QED
  BY <1>1, <1>2, FS_CardinalityType

LEMMA ElementSaves ==
  ASSUME NEW S, IsFiniteSet(S), NEW T, NEW x \in S, T \subseteq S \ {x}
  PROVE  /\ IsFiniteSet(T)
         /\ Cardinality(T) \in Nat
         /\ Cardinality(S) \in Nat
         /\ Cardinality(T) + 1 <= Cardinality(S)
<1>1. IsFiniteSet(S \ {x}) /\ Cardinality(S) \in Nat /\ Cardinality(S \ {x}) = Cardinality(S) - 1
  BY FS_RemoveElement, FS_CardinalityType
<1>2. IsFiniteSet(T) /\ Cardinality(T) \in Nat /\ Cardinality(T) <= Cardinality(S \ {x})
  BY <1>1, SubsetCosts
<1> QED
  BY <1>1, <1>2

\* The numbers of an account.
LEMMA AccountNumbers ==
  ASSUME HookInv, NEW s \in Subscription
  PROVE  /\ IsFiniteSet(Stray(s))
         /\ IsFiniteSet(InFlight(s))
         /\ posts[s] \in Nat
         /\ Cardinality(Stray(s)) \in Nat
         /\ delivery[s].attempts \in Nat
         /\ Recordable(s) \in {0, 1}
         /\ faults \in Nat
         /\ posts[s] + Cardinality(Stray(s)) <= delivery[s].attempts + Recordable(s) + faults
<1>1. delivery[s].attempts \in Nat /\ posts[s] \in Nat /\ faults \in Nat
  BY HookTypes DEF RowType
<1>2. Recordable(s) \in {0, 1}
  BY DEF Recordable
<1>3. Account(s)
  BY DEF HookInv
<1> QED
  BY <1>1, <1>2, <1>3, FS_CardinalityType DEF Account

\* What is to be shown of an account after a step, in these numbers.
LEMMA AccountAfter ==
  ASSUME HookInv, NEW s \in Subscription,
         IsFiniteSet(Stray(s)'), IsFiniteSet(InFlight(s)'),
         posts'[s] \in Nat, delivery'[s].attempts \in Nat, faults' \in Nat,
         posts'[s] + Cardinality(Stray(s)') <= delivery'[s].attempts + Recordable(s)' + faults'
  PROVE  Account(s)'
  BY DEF Account

\* Where nothing is counted, the account stays.
LEMMA RestsKeeps ==
  ASSUME HookInv, Counts, NEW s \in Subscription, Rests(s)
  PROVE  Leased(s)' /\ Kept(s)' /\ Account(s)'
<1>1. \A a \in Sender : HeldBy(a, s)' = HeldBy(a, s)
  BY DEF Rests, HeldBy
<1>2. \A a \in Sender : \A x \in Holding : attempt'[a][s] = x <=> attempt[a][s] = x
  BY DEF Rests
<1>3. \A a \in Sender : attempt'[a][s] \in Holding <=> attempt[a][s] \in Holding
  BY DEF Rests
<1>4. Stray(s)' = Stray(s) /\ InFlight(s)' = InFlight(s) /\ Recordable(s)' = Recordable(s)
  BY <1>1, <1>2, Stages DEF Stray, InFlight, Recordable
<1>5. Leased(s)'
  <2>1. Leased(s)
    BY DEF HookInv
  <2> QED
    BY <1>1, <1>3, <2>1 DEF Rests, Leased
<1>6. Kept(s)'
  <2>1. Kept(s) /\ (overruns' = 0 => overruns = 0)
    BY HookTypes DEF HookInv, Counts
  <2> QED
    BY <1>1, <1>3, <2>1 DEF Kept
<1>7. Account(s)'
  BY <1>4, AccountNumbers, AccountAfter, HookTypes DEF Rests, Counts
<1> QED
  BY <1>5, <1>6, <1>7

\* A claim takes a lease that nobody holds: no answer was to be recorded, and none
\* is yet.
LEMMA ClaimsKeeps ==
  ASSUME HookInv, Counts, NEW s \in Subscription, NEW a \in Sender, Claims(a, s)
  PROVE  Leased(s)' /\ Kept(s)' /\ Account(s)'
<1>1. /\ HeldBy(a, s)'
      /\ \A b \in Sender \ {a} : ~HeldBy(b, s)' /\ attempt'[b][s] = attempt[b][s]
      /\ \A b \in Sender : ~HeldBy(b, s)
  BY DEF Claims, HeldBy, OthersStay
<1>2. attempt'[a][s] \in {"fetch", "post"} /\ attempt[a][s] \notin Holding
  BY DEF Claims
<1>3. Stray(s)' = Stray(s) /\ InFlight(s)' = InFlight(s)
  BY <1>1, <1>2, Stages DEF Stray, InFlight
<1>4. Recordable(s)' = 0 /\ Recordable(s) = 0
  BY <1>1, <1>2 DEF Recordable
<1>5. Leased(s)'
  BY <1>1 DEF Claims, RowStays, Leased, HookInv
<1>6. Kept(s)'
  <2>1. Kept(s) /\ (overruns' = 0 => overruns = 0)
    BY HookTypes DEF HookInv, Counts
  <2> QED
    BY <1>1, <2>1 DEF Kept
<1>7. Account(s)'
  BY <1>3, <1>4, AccountNumbers, AccountAfter, HookTypes DEF Claims, RowStays, Counts
<1> QED
  BY <1>5, <1>6, <1>7

\* An attempt that finds its subscription disabled will not post any more.
LEMMA FetchesKeeps ==
  ASSUME HookInv, Counts, NEW s \in Subscription, NEW a \in Sender, Fetches(a, s)
  PROVE  Leased(s)' /\ Kept(s)' /\ Account(s)'
<1>1. \A b \in Sender : HeldBy(b, s)' = HeldBy(b, s)
  BY DEF Fetches, HeldBy
<1>2. /\ \A b \in Sender \ {a} : attempt'[b][s] = attempt[b][s]
      /\ attempt[a][s] = "fetch"
      /\ attempt'[a][s] \in {"post", "unavailable"}
  BY DEF Fetches, OthersStay
<1>3. \A b \in Sender : attempt'[b][s] \in Holding => attempt[b][s] \in Holding
  BY <1>2, Stages
<1>4. Stray(s)' \subseteq Stray(s) /\ InFlight(s)' = InFlight(s) /\ Recordable(s)' = Recordable(s)
  BY <1>1, <1>2 DEF Stray, InFlight, Recordable
<1>5. Leased(s)'
  BY <1>1, <1>3 DEF Fetches, RowStays, Leased, HookInv
<1>6. Kept(s)'
  <2>1. Kept(s) /\ (overruns' = 0 => overruns = 0)
    BY HookTypes DEF HookInv, Counts
  <2> QED
    BY <1>1, <1>3, <2>1 DEF Kept
<1>7. IsFiniteSet(Stray(s)') /\ Cardinality(Stray(s)') \in Nat /\ Cardinality(Stray(s)') <= Cardinality(Stray(s))
  BY <1>4, AccountNumbers, SubsetCosts
<1>8. Account(s)'
  BY <1>4, <1>7, AccountNumbers, AccountAfter, HookTypes DEF Fetches, RowStays, Counts
<1> QED
  BY <1>5, <1>6, <1>8

\* A request that is sent is one of an attempt with a lease, whose answer will be
\* recorded, or uses up an attempt without one.
LEMMA SendsKeeps ==
  ASSUME HookInv, Counts, NEW s \in Subscription, NEW a \in Sender, Sends(a, s)
  PROVE  Leased(s)' /\ Kept(s)' /\ Account(s)'
<1>1. \A b \in Sender : HeldBy(b, s)' = HeldBy(b, s)
  BY DEF Sends, HeldBy
<1>2. /\ \A b \in Sender \ {a} : attempt'[b][s] = attempt[b][s]
      /\ attempt[a][s] = "post"
      /\ attempt'[a][s] \in {"ok", "error"}
  BY DEF Sends, OthersStay
<1>3. \A b \in Sender : attempt'[b][s] \in Holding => attempt[b][s] \in Holding
  BY <1>2, Stages
<1>4. InFlight(s)' \subseteq InFlight(s) \cup {a}
  BY <1>2 DEF InFlight
<1>5. Leased(s)'
  BY <1>1, <1>3 DEF Sends, Leased, HookInv
<1>6. Kept(s)'
  <2>1. Kept(s) /\ (overruns' = 0 => overruns = 0)
    BY HookTypes DEF HookInv, Counts
  <2> QED
    BY <1>1, <1>3, <2>1 DEF Kept
<1>7. IsFiniteSet(InFlight(s)')
  BY <1>4, AccountNumbers, ElementCosts
<1>8. CASE HeldBy(a, s)
  <2>1. Stray(s)' = Stray(s)
    BY <1>1, <1>2, <1>8 DEF Stray
  <2>2. Recordable(s)' = 1
    BY <1>1, <1>2, <1>8 DEF Recordable
  <2>3. Recordable(s) = 0
    BY <1>2, <1>8 DEF Recordable, HeldBy
  <2> QED
    BY <1>5, <1>6, <1>7, <2>1, <2>2, <2>3, AccountNumbers, AccountAfter, HookTypes DEF Sends, Counts
<1>9. CASE ~HeldBy(a, s)
  <2>1. a \in Stray(s) /\ Stray(s)' \subseteq Stray(s) \ {a}
    BY <1>1, <1>2, <1>9 DEF Stray
  <2>2. /\ IsFiniteSet(Stray(s)')
        /\ Cardinality(Stray(s)') \in Nat
        /\ Cardinality(Stray(s)') + 1 <= Cardinality(Stray(s))
    BY <2>1, AccountNumbers, ElementSaves
  <2>3. Recordable(s)' = Recordable(s)
    BY <1>1, <1>2, <1>9 DEF Recordable
  <2> QED
    BY <1>5, <1>6, <1>7, <2>2, <2>3, AccountNumbers, AccountAfter, HookTypes DEF Sends, Counts
<1> QED
  BY <1>8, <1>9

\* A recorded answer moves from the attempts in flight to those counted.
LEMMA RecordsKeeps ==
  ASSUME HookInv, Counts, NEW s \in Subscription, NEW a \in Sender, Records(a, s),
         delivery'[s].attempts \in Nat
  PROVE  Leased(s)' /\ Kept(s)' /\ Account(s)'
<1>1. /\ \A b \in Sender : ~HeldBy(b, s)'
      /\ HeldBy(a, s)
      /\ \A b \in Sender \ {a} : ~HeldBy(b, s)
  BY DEF Records, HeldBy
<1>2. /\ \A b \in Sender \ {a} : attempt'[b][s] = attempt[b][s]
      /\ attempt[a][s] \in {"ok", "error", "unavailable"}
      /\ attempt'[a][s] = "done"
  BY DEF Records, OthersStay
<1>3. Stray(s)' = Stray(s) /\ InFlight(s)' \subseteq InFlight(s)
  BY <1>1, <1>2 DEF Stray, InFlight
<1>4. Recordable(s)' = 0 /\ Recordable(s) = IF attempt[a][s] = "unavailable" THEN 0 ELSE 1
  BY <1>1, <1>2 DEF Recordable
<1>5. Leased(s)'
  BY <1>1 DEF Records, Leased
<1>6. Kept(s)'
  <2>1. Kept(s) /\ (overruns' = 0 => overruns = 0)
    BY HookTypes DEF HookInv, Counts
  <2>2. \A b \in Sender \ {a} : attempt'[b][s] \in Holding => overruns # 0
    BY <1>1, <1>2, <2>1 DEF Kept
  <2>3. attempt'[a][s] \notin Holding
    BY <1>2, Stages
  <2> QED
    BY <2>1, <2>2, <2>3 DEF Kept
<1>7. IsFiniteSet(InFlight(s)')
  BY <1>3, AccountNumbers, SubsetCosts
<1>8. Account(s)'
  BY <1>3, <1>4, <1>7, AccountNumbers, AccountAfter, HookTypes DEF Records, Counts
<1> QED
  BY <1>5, <1>6, <1>8

\* An answer that comes too late was paid for when its lease ended.
LEMMA DiscardsKeeps ==
  ASSUME HookInv, Counts, NEW s \in Subscription, NEW a \in Sender, Discards(a, s)
  PROVE  Leased(s)' /\ Kept(s)' /\ Account(s)'
<1>1. \A b \in Sender : HeldBy(b, s)' = HeldBy(b, s)
  BY DEF Discards, HeldBy
<1>2. /\ \A b \in Sender \ {a} : attempt'[b][s] = attempt[b][s]
      /\ attempt[a][s] \in {"ok", "error", "unavailable"}
      /\ ~HeldBy(a, s)
      /\ attempt'[a][s] = "done"
  BY DEF Discards, OthersStay
<1>3. \A b \in Sender : attempt'[b][s] \in Holding => attempt[b][s] \in Holding
  BY <1>2, Stages
<1>4. Stray(s)' = Stray(s) /\ InFlight(s)' \subseteq InFlight(s) /\ Recordable(s)' = Recordable(s)
  BY <1>1, <1>2 DEF Stray, InFlight, Recordable
<1>5. Leased(s)'
  BY <1>1, <1>3 DEF Discards, RowStays, Leased, HookInv
<1>6. Kept(s)'
  <2>1. Kept(s) /\ (overruns' = 0 => overruns = 0)
    BY HookTypes DEF HookInv, Counts
  <2> QED
    BY <1>1, <1>3, <2>1 DEF Kept
<1>7. IsFiniteSet(InFlight(s)')
  BY <1>4, AccountNumbers, SubsetCosts
<1>8. Account(s)'
  BY <1>4, <1>7, AccountNumbers, AccountAfter, HookTypes DEF Discards, RowStays, Counts
<1> QED
  BY <1>5, <1>6, <1>8

\* An attempt that is cut off with its answer unrecorded is paid for by the fault.
LEMMA StopsKeeps ==
  ASSUME HookInv, Counts, NEW s \in Subscription, NEW a \in Sender, Stops(a, s)
  PROVE  Leased(s)' /\ Kept(s)' /\ Account(s)'
<1>1. \A b \in Sender : HeldBy(b, s)' = HeldBy(b, s)
  BY DEF Stops, HeldBy
<1>2. /\ \A b \in Sender \ {a} : attempt'[b][s] = attempt[b][s]
      /\ attempt'[a][s] \in {"none", "done"}
      /\ faults' = faults + 1
  BY Stages DEF Stops, OthersStay
<1>3. \A b \in Sender : attempt'[b][s] \in Holding => attempt[b][s] \in Holding
  BY <1>2, Stages
<1>4. Stray(s)' \subseteq Stray(s) /\ InFlight(s)' \subseteq InFlight(s) /\ Recordable(s)' \in {0, 1}
  BY <1>1, <1>2 DEF Stray, InFlight, Recordable
<1>5. Leased(s)'
  BY <1>1, <1>3 DEF Stops, RowStays, Leased, HookInv
<1>6. Kept(s)'
  <2>1. Kept(s) /\ (overruns' = 0 => overruns = 0)
    BY HookTypes DEF HookInv, Counts
  <2> QED
    BY <1>1, <1>3, <2>1 DEF Kept
<1>7. IsFiniteSet(InFlight(s)')
  BY <1>4, AccountNumbers, SubsetCosts
<1>8. IsFiniteSet(Stray(s)') /\ Cardinality(Stray(s)') \in Nat /\ Cardinality(Stray(s)') <= Cardinality(Stray(s))
  BY <1>4, AccountNumbers, SubsetCosts
<1>9. Account(s)'
  BY <1>2, <1>4, <1>7, <1>8, AccountNumbers, AccountAfter, HookTypes DEF Stops, RowStays
<1> QED
  BY <1>5, <1>6, <1>9

\* A lease that ends under an attempt makes it stray, or loses its answer, and is
\* a fault; one whose owner is done does neither.
LEMMA ExpiresKeeps ==
  ASSUME HookInv, Counts, NEW s \in Subscription, Expires(s)
  PROVE  Leased(s)' /\ Kept(s)' /\ Account(s)'
<1> DEFINE a == lease[s].by
<1>1. a \in Sender
  BY DEF HookInv, Leased, Expires
<1>2. /\ \A b \in Sender : ~HeldBy(b, s)'
      /\ HeldBy(a, s)
      /\ \A b \in Sender \ {a} : ~HeldBy(b, s)
      /\ \A b \in Sender : attempt'[b][s] = attempt[b][s]
  BY DEF Expires, HeldBy
<1>3. attempt[a][s] \notin Holding \/ (faults' = faults + 1 /\ overruns' = overruns + 1)
  BY DEF Expires
<1>4. RowStays(s) /\ ~lease'[s].live
  BY DEF Expires
<1> HIDE DEF a
<1>5. InFlight(s)' = InFlight(s) /\ Recordable(s)' = 0
  BY <1>2 DEF InFlight, Recordable
<1>6. Leased(s)'
  BY <1>2, <1>4 DEF RowStays, Leased, HookInv
<1>7. CASE attempt[a][s] \notin Holding
  <2>1. Stray(s)' = Stray(s)
    BY <1>2, <1>7, Stages DEF Stray
  <2>2. Recordable(s) = 0
    BY <1>2, <1>7, Stages DEF Recordable
  <2>3. Account(s)'
    BY <1>4, <1>5, <2>1, <2>2, AccountNumbers, AccountAfter, HookTypes DEF RowStays, Counts
  <2>4. Kept(s)'
    <3>1. Kept(s) /\ (overruns' = 0 => overruns = 0)
      BY HookTypes DEF HookInv, Counts
    <3> QED
      BY <1>2, <1>7, <3>1 DEF Kept
  <2> QED
    BY <1>6, <2>3, <2>4
<1>8. CASE faults' = faults + 1 /\ overruns' = overruns + 1
  <2>1. Kept(s)'
    BY <1>8, HookTypes DEF Kept
  <2>2. CASE attempt[a][s] \in {"fetch", "post"}
    <3>1. Stray(s)' \subseteq Stray(s) \cup {a}
      BY <1>2 DEF Stray
    <3>2. Recordable(s) = 0
      BY <1>2, <2>2 DEF Recordable
    <3>3. /\ IsFiniteSet(Stray(s)')
          /\ Cardinality(Stray(s)') \in Nat
          /\ Cardinality(Stray(s)') <= Cardinality(Stray(s)) + 1
      BY <3>1, AccountNumbers, ElementCosts
    <3>4. Account(s)'
      BY <1>4, <1>5, <1>8, <3>2, <3>3, AccountNumbers, AccountAfter, HookTypes DEF RowStays
    <3> QED
      BY <1>6, <2>1, <3>4
  <2>3. CASE attempt[a][s] \notin {"fetch", "post"}
    <3>1. Stray(s)' = Stray(s)
      BY <1>2, <2>3 DEF Stray
    <3>2. Account(s)'
      BY <1>4, <1>5, <1>8, <3>1, AccountNumbers, AccountAfter, HookTypes DEF RowStays
    <3> QED
      BY <1>6, <2>1, <3>2
  <2> QED
    BY <2>2, <2>3
<1> QED
  BY <1>3, <1>7, <1>8

-----------------------------------------------------------------------------
\* What a step does to the drains and the job, unless a drain claims the job.
DrainsMove ==
  /\ enabled' \subseteq enabled
  /\ \A s \in Subscription : delivery[s].status # "absent" => delivery'[s].status # "absent"
  /\ \A d \in Drain : drain'[d] = "emit" => drain[d] = "emit"
  /\ \A d \in Drain : drain'[d] = "idle" =>
       drain[d] = "idle" \/ \A s \in Subscription : attempt'[d][s] \in Over
  /\ \A d \in Drain, s \in Subscription :
       attempt[d][s] \in Over => attempt'[d][s] \in Over
  /\ \A d \in Drain, s \in Subscription :
       drain'[d] = "emit" /\ attempt[d][s] = "todo"
         => attempt'[d][s] = "todo" \/ delivery'[s].status # "absent"
  /\ job'.status = "completed" =>
       \/ job.status = "completed"
       \/ \E d \in Drain :
            drain[d] = "emit" /\ \A s \in Subscription : attempt[d][s] \in Over

\* Then a drain at rest has still no attempts, and the job is completed only when
\* every enabled subscription has its row.
LEMMA DrainsMoveKeeps ==
  ASSUME HookInv, DrainsMove
  PROVE  Emits' /\ CompletedJobReachedAll'
<1>1. enabled \subseteq Subscription /\ enabled' \subseteq Subscription
  BY HookTypes DEF DrainsMove
<1>2. Emits
  BY DEF HookInv
<1>3. ASSUME NEW d \in Drain, drain'[d] = "idle", NEW s \in Subscription
      PROVE  attempt'[d][s] \in Over
  BY <1>2, <1>3 DEF DrainsMove, Emits
<1>4. ASSUME NEW d \in Drain, drain'[d] = "emit", NEW s \in enabled'
      PROVE  attempt'[d][s] = "todo" \/ delivery'[s].status # "absent"
  <2>1. drain[d] = "emit" /\ s \in enabled /\ s \in Subscription
    BY <1>1, <1>4 DEF DrainsMove
  <2>2. attempt[d][s] = "todo" \/ delivery[s].status # "absent"
    BY <1>2, <2>1 DEF Emits
  <2> QED
    BY <1>4, <2>1, <2>2 DEF DrainsMove
<1>5. Emits'
  BY <1>3, <1>4 DEF Emits
<1>6. ASSUME job'.status = "completed", NEW s \in enabled'
      PROVE  delivery'[s].status # "absent"
  <2>1. s \in enabled /\ s \in Subscription
    BY <1>1 DEF DrainsMove
  <2>2. CASE job.status = "completed"
    <3>1. delivery[s].status # "absent"
      BY <2>1, <2>2 DEF HookInv, CompletedJobReachedAll
    <3> QED
      BY <2>1, <3>1 DEF DrainsMove
  <2>3. ASSUME NEW d \in Drain, drain[d] = "emit", \A t \in Subscription : attempt[d][t] \in Over
        PROVE  delivery'[s].status # "absent"
    <3>1. attempt[d][s] # "todo"
      BY <2>1, <2>3, Stages
    <3>2. delivery[s].status # "absent"
      BY <1>2, <2>1, <2>3, <3>1 DEF Emits
    <3> QED
      BY <2>1, <3>2 DEF DrainsMove
  <2> QED
    BY <1>6, <2>2, <2>3 DEF DrainsMove
<1>7. CompletedJobReachedAll'
  BY <1>6 DEF CompletedJobReachedAll
<1> QED
  BY <1>5, <1>7

\* All that is said of a step.
Moves ==
  /\ HookTypeOK'
  /\ Counts
  /\ \A s \in Subscription : OnDelivery(s)
  /\ DrainsMove

\* A subscription the step does not touch.
LEMMA UntouchedRests ==
  ASSUME NEW s, UNCHANGED <<lease[s], posts[s], delivery[s]>>,
         \A b \in Sender : attempt'[b][s] = attempt[b][s]
  PROVE  Rests(s)
  BY DEF Rests

\* A drain claims the job: it had no attempts, and is to make every row.
LEMMA ClaimJobStep ==
  ASSUME HookInv, NEW d \in Drain, ClaimJob(d)
  PROVE  /\ HookTypeOK'
         /\ Counts
         /\ \A s \in Subscription : OnDelivery(s)
         /\ Emits'
         /\ CompletedJobReachedAll'
<1>1. /\ drain[d] = "idle"
      /\ job' = [status |-> "running", by |-> d, live |-> TRUE]
      /\ drain' = [drain EXCEPT ![d] = "emit"]
      /\ attempt' = [attempt EXCEPT ![d] =
           [s \in Subscription |-> IF s \in enabled THEN "todo" ELSE "none"]]
      /\ UNCHANGED <<enabled, delivery, lease, posts, faults, overruns>>
  BY DEF ClaimJob
<1>2. /\ attempt' \in [Sender -> [Subscription -> Stage]]
      /\ \A s \in Subscription : attempt'[d][s] = IF s \in enabled THEN "todo" ELSE "none"
      /\ \A b \in Sender \ {d} : attempt'[b] = attempt[b]
  <2>1. {"todo", "none"} \subseteq Stage
    BY DEF Stage, Over
  <2> QED
    BY <1>1, <2>1, HookTypes
<1>3. /\ drain' \in [Drain -> {"idle", "emit", "broken"}]
      /\ drain'[d] = "emit"
      /\ \A c \in Drain \ {d} : drain'[c] = drain[c]
  BY <1>1, HookTypes
<1>4. job' \in JobType /\ job'.status = "running"
  BY <1>1 DEF JobType
<1>5. HookTypeOK'
  BY <1>1, <1>2, <1>3, <1>4, HookTypes DEF HookTypeOK, JobType, RowType, LeaseType, Stage
<1>6. Counts
  BY <1>1, HookTypes DEF Counts
<1>7. ASSUME NEW s \in Subscription
      PROVE  OnDelivery(s)
  <2>1. attempt[d][s] \notin Holding /\ attempt'[d][s] \notin Holding
    BY <1>1, <1>2, Stages DEF HookInv, Emits
  <2> QED
    BY <1>1, <1>2, <2>1 DEF OnDelivery, Rests
<1>8. Emits'
  <2>1. Emits /\ enabled \subseteq Subscription
    BY HookTypes DEF HookInv
  <2>2. ASSUME NEW c \in Drain, drain'[c] = "idle", NEW s \in Subscription
        PROVE  attempt'[c][s] \in Over
    <3>1. c # d
      BY <1>3, <2>2
    <3> QED
      BY <1>2, <1>3, <2>1, <2>2, <3>1, HookTypes DEF Emits
  <2>3. ASSUME NEW c \in Drain, drain'[c] = "emit", NEW s \in enabled'
        PROVE  attempt'[c][s] = "todo" \/ delivery'[s].status # "absent"
    <3>1. CASE c = d
      BY <1>1, <1>2, <2>1, <2>3, <3>1
    <3>2. CASE c # d
      BY <1>1, <1>2, <1>3, <2>1, <2>3, <3>2, HookTypes DEF Emits
    <3> QED
      BY <3>1, <3>2
  <2> QED
    BY <2>2, <2>3 DEF Emits
<1>9. CompletedJobReachedAll'
  BY <1>4 DEF CompletedJobReachedAll
<1> QED
  BY <1>5, <1>6, <1>7, <1>8, <1>9

\* A drain makes the row of a subscription, or finds it.
LEMMA CreateDeliveryStep ==
  ASSUME HookInv, NEW d \in Drain, NEW s \in Subscription, CreateDelivery(d, s)
  PROVE  Moves
<1> DEFINE to == IF delivery'[s].status = "pending" THEN "claim" ELSE "done"
<1>1. /\ attempt[d][s] = "todo"
      /\ delivery' = [delivery EXCEPT ![s].status =
           IF delivery[s].status = "absent" THEN "pending" ELSE delivery[s].status]
      /\ Advance(d, s, to)
      /\ UNCHANGED <<job, enabled, lease, drain, posts, faults, overruns>>
  BY DEF CreateDelivery
<1>2. to \in Stage /\ to \notin Holding /\ to # "todo" /\ d \in Sender
  BY HookTypes DEF Stage, Over, Holding
<1> HIDE DEF to
<1>3. /\ attempt' \in [Sender -> [Subscription -> Stage]]
      /\ attempt'[d][s] = to
      /\ \A b \in Sender, t \in Subscription :
           b # d \/ t # s => attempt'[b][t] = attempt[b][t]
  BY <1>1, <1>2, AdvanceMovesOne
<1>4. /\ delivery' \in [Subscription -> RowType]
      /\ delivery'[s].attempts = delivery[s].attempts
      /\ delivery'[s].status # "absent"
      /\ \/ delivery'[s].status = delivery[s].status
         \/ delivery[s].status = "absent" /\ delivery'[s].status = "pending"
      /\ \A t \in Subscription : t # s => delivery'[t] = delivery[t]
  BY <1>1, HookTypes DEF RowType
<1>5. HookTypeOK'
  BY <1>1, <1>3, <1>4, HookTypes DEF HookTypeOK, JobType, RowType, LeaseType, Stage
<1>6. Counts
  BY <1>1, HookTypes DEF Counts
<1>7. ASSUME NEW t \in Subscription
      PROVE  OnDelivery(t)
  <2>1. CASE t = s
    <3>1. attempt[d][s] \notin Holding /\ attempt'[d][s] \notin Holding
      BY <1>1, <1>2, <1>3, Stages
    <3> QED
      BY <1>1, <1>3, <1>4, <2>1, <3>1 DEF OnDelivery, Rests
  <2>2. CASE t # s
    BY <1>1, <1>3, <1>4, <2>2, UntouchedRests DEF OnDelivery
  <2> QED
    BY <2>1, <2>2
<1>8. DrainsMove
  <2>1. \A c \in Drain, t \in Subscription :
          attempt[c][t] \in Over => attempt'[c][t] \in Over
    BY <1>1, <1>3, HookTypes, Stages
  <2>2. \A c \in Drain, t \in Subscription :
          attempt[c][t] = "todo" => attempt'[c][t] = "todo" \/ delivery'[t].status # "absent"
    BY <1>3, <1>4, HookTypes
  <2>3. \A t \in Subscription : delivery[t].status # "absent" => delivery'[t].status # "absent"
    BY <1>4
  <2> QED
    BY <1>1, <2>1, <2>2, <2>3 DEF DrainsMove
<1> QED
  BY <1>5, <1>6, <1>7, <1>8 DEF Moves

\* A step of one attempt that began holds the drains and the job where they are.
LEMMA AttemptLeavesDrains ==
  ASSUME HookInv, UNCHANGED <<job, enabled, drain>>,
         NEW a \in Sender, NEW s \in Subscription,
         attempt[a][s] # "todo",
         attempt[a][s] \in Over /\ a \in Drain => attempt'[a][s] \in Over,
         \A b \in Sender, t \in Subscription :
           b # a \/ t # s => attempt'[b][t] = attempt[b][t],
         \A t \in Subscription : delivery[t].status # "absent" => delivery'[t].status # "absent"
  PROVE  DrainsMove
<1>1. \A c \in Drain, t \in Subscription :
        attempt[c][t] \in Over => attempt'[c][t] \in Over
  BY HookTypes
<1>2. \A c \in Drain, t \in Subscription : attempt[c][t] = "todo" => attempt'[c][t] = "todo"
  BY HookTypes
<1> QED
  BY <1>1, <1>2 DEF DrainsMove

\* It claims a pending delivery, which was never answered, or passes over it.
LEMMA ClaimDeliveryStep ==
  ASSUME HookInv, NEW d \in Drain, NEW s \in Subscription, ClaimDelivery(d, s)
  PROVE  Moves
<1> DEFINE free == delivery[s].status = "pending" /\ ~lease[s].live
           to == IF free THEN "post" ELSE "done"
<1>1. /\ attempt[d][s] = "claim"
      /\ Advance(d, s, to)
      /\ free => lease' = [lease EXCEPT ![s] = [by |-> d, live |-> TRUE]]
      /\ ~free => lease' = lease
      /\ UNCHANGED <<job, enabled, delivery, drain, posts, faults, overruns>>
  BY DEF ClaimDelivery
<1>2. to \in Stage /\ d \in Sender
  BY HookTypes DEF Stage, Over, Holding
<1>3. /\ attempt' \in [Sender -> [Subscription -> Stage]]
      /\ attempt'[d][s] = to
      /\ \A b \in Sender, t \in Subscription :
           b # d \/ t # s => attempt'[b][t] = attempt[b][t]
  <2> HIDE DEF to
  <2> QED
    BY <1>1, <1>2, AdvanceMovesOne
<1>4. /\ lease' \in [Subscription -> LeaseType]
      /\ \A t \in Subscription : t # s => lease'[t] = lease[t]
      /\ free => lease'[s] = [by |-> d, live |-> TRUE]
  <2>1. [by |-> d, live |-> TRUE] \in LeaseType
    BY <1>2 DEF LeaseType
  <2> QED
    BY <1>1, <2>1, HookTypes
<1>5. HookTypeOK'
  BY <1>1, <1>3, <1>4, HookTypes DEF HookTypeOK, JobType, RowType, LeaseType, Stage
<1>6. Counts
  BY <1>1, HookTypes DEF Counts
<1>7. ASSUME NEW t \in Subscription
      PROVE  OnDelivery(t)
  <2>1. CASE t = s /\ free
    <3>1. delivery[s].attempts = 0
      BY <2>1 DEF HookInv, Leased
    <3>2. delivery[s].attempts < MaxAttempts
      BY <3>1, HookTypes
    <3>3. attempt[d][s] \notin Holding
      BY <1>1, Stages
    <3>4. Claims(d, s)
      BY <1>1, <1>2, <1>3, <1>4, <2>1, <3>2, <3>3 DEF Claims, OthersStay, RowStays
    <3> QED
      BY <1>2, <2>1, <3>4 DEF OnDelivery
  <2>2. CASE t = s /\ ~free
    <3>1. attempt[d][s] \notin Holding /\ attempt'[d][s] \notin Holding
      BY <1>1, <1>3, <2>2, Stages
    <3> QED
      BY <1>1, <1>3, <2>2, <3>1 DEF OnDelivery, Rests
  <2>3. CASE t # s
    BY <1>1, <1>3, <1>4, <2>3, UntouchedRests DEF OnDelivery
  <2> QED
    BY <2>1, <2>2, <2>3
<1>8. DrainsMove
  <2>1. attempt[d][s] # "todo" /\ attempt[d][s] \notin Over
    BY <1>1 DEF Over
  <2> HIDE DEF to
  <2> QED
    BY <1>1, <1>2, <1>3, <2>1, AttemptLeavesDrains
<1> QED
  BY <1>5, <1>6, <1>7, <1>8 DEF Moves

\* A retrier claims the deliveries that are due.
LEMMA ClaimDueStep ==
  ASSUME HookInv, NEW r \in Retrier, ClaimDue(r)
  PROVE  Moves
<1>1. /\ \A s \in Subscription : attempt[r][s] \in Over
      /\ lease' = [s \in Subscription |->
                     IF Due(s) THEN [by |-> r, live |-> TRUE] ELSE lease[s]]
      /\ attempt' = [attempt EXCEPT ![r] =
           [s \in Subscription |-> IF Due(s) THEN "fetch" ELSE "none"]]
      /\ UNCHANGED <<job, enabled, delivery, drain, posts, faults, overruns>>
  BY DEF ClaimDue
<1>2. r \in Sender /\ r \notin Drain
  BY HookTypes
<1>3. /\ attempt' \in [Sender -> [Subscription -> Stage]]
      /\ \A s \in Subscription : attempt'[r][s] = IF Due(s) THEN "fetch" ELSE "none"
      /\ \A b \in Sender \ {r} : attempt'[b] = attempt[b]
  <2>1. {"fetch", "none"} \subseteq Stage
    BY DEF Stage, Over, Holding
  <2> QED
    BY <1>1, <1>2, <2>1, HookTypes
<1>4. /\ lease' \in [Subscription -> LeaseType]
      /\ \A s \in Subscription :
           lease'[s] = IF Due(s) THEN [by |-> r, live |-> TRUE] ELSE lease[s]
  <2>1. [by |-> r, live |-> TRUE] \in LeaseType
    BY <1>2 DEF LeaseType
  <2> QED
    BY <1>1, <2>1, HookTypes
<1>5. HookTypeOK'
  BY <1>1, <1>3, <1>4, HookTypes DEF HookTypeOK, JobType, RowType, LeaseType, Stage
<1>6. Counts
  BY <1>1, HookTypes DEF Counts
<1>7. ASSUME NEW s \in Subscription
      PROVE  OnDelivery(s)
  <2>1. attempt[r][s] \notin Holding
    BY <1>1, Stages
  <2>2. CASE Due(s)
    <3>1. ~lease[s].live /\ delivery[s].status = "failed" /\ delivery[s].attempts < MaxAttempts
      BY <2>2 DEF Due
    <3>2. lease'[s] = [by |-> r, live |-> TRUE] /\ attempt'[r][s] = "fetch"
      BY <1>3, <1>4, <2>2
    <3>3. Claims(r, s)
      BY <1>1, <1>3, <2>1, <3>1, <3>2 DEF Claims, OthersStay, RowStays
    <3> QED
      BY <1>2, <3>3 DEF OnDelivery
  <2>3. CASE ~Due(s)
    <3>1. attempt'[r][s] \notin Holding /\ lease'[s] = lease[s]
      BY <1>3, <1>4, <2>3, Stages
    <3> QED
      BY <1>1, <1>3, <2>1, <3>1 DEF OnDelivery, Rests
  <2> QED
    BY <2>2, <2>3
<1>8. DrainsMove
  <2>1. \A c \in Drain : attempt'[c] = attempt[c]
    BY <1>2, <1>3, HookTypes
  <2> QED
    BY <1>1, <2>1 DEF DrainsMove
<1> QED
  BY <1>5, <1>6, <1>7, <1>8 DEF Moves

\* It reads the subscription of one of them.
LEMMA FetchSubscriptionStep ==
  ASSUME HookInv, NEW r \in Retrier, NEW s \in Subscription, FetchSubscription(r, s)
  PROVE  Moves
<1> DEFINE to == IF s \in enabled THEN "post" ELSE "unavailable"
<1>1. /\ attempt[r][s] = "fetch"
      /\ Advance(r, s, to)
      /\ UNCHANGED <<job, enabled, delivery, lease, drain, posts, faults, overruns>>
  BY DEF FetchSubscription
<1>2. to \in Stage /\ to \in {"post", "unavailable"} /\ r \in Sender
  BY HookTypes DEF Stage, Holding
<1> HIDE DEF to
<1>3. /\ attempt' \in [Sender -> [Subscription -> Stage]]
      /\ attempt'[r][s] = to
      /\ \A b \in Sender, t \in Subscription :
           b # r \/ t # s => attempt'[b][t] = attempt[b][t]
  BY <1>1, <1>2, AdvanceMovesOne
<1>5. HookTypeOK'
  BY <1>1, <1>3, HookTypes DEF HookTypeOK, JobType, RowType, LeaseType, Stage
<1>6. Counts
  BY <1>1, HookTypes DEF Counts
<1>7. ASSUME NEW t \in Subscription
      PROVE  OnDelivery(t)
  <2>1. CASE t = s
    <3>1. Fetches(r, s)
      BY <1>1, <1>2, <1>3 DEF Fetches, OthersStay, RowStays
    <3> QED
      BY <1>2, <2>1, <3>1 DEF OnDelivery
  <2>2. CASE t # s
    BY <1>1, <1>3, <2>2, UntouchedRests DEF OnDelivery
  <2> QED
    BY <2>1, <2>2
<1>8. DrainsMove
  <2>1. attempt[r][s] # "todo" /\ attempt[r][s] \notin Over
    BY <1>1 DEF Over
  <2> QED
    BY <1>1, <1>2, <1>3, <2>1, AttemptLeavesDrains
<1> QED
  BY <1>5, <1>6, <1>7, <1>8 DEF Moves

\* A request is sent, or fails on its way.
LEMMA PostStep ==
  ASSUME HookInv, NEW a \in Sender, NEW s \in Subscription, Post(a, s)
  PROVE  Moves
<1>1. /\ attempt[a][s] = "post"
      /\ \E to \in {"ok", "error"} : Advance(a, s, to)
      /\ posts' \in {posts, [posts EXCEPT ![s] = posts[s] + 1]}
      /\ UNCHANGED <<job, enabled, delivery, lease, drain, faults, overruns>>
  BY DEF Post
<1>2. PICK to \in {"ok", "error"} : Advance(a, s, to)
  BY <1>1
<1>3. /\ attempt' \in [Sender -> [Subscription -> Stage]]
      /\ attempt'[a][s] = to
      /\ \A b \in Sender, t \in Subscription :
           b # a \/ t # s => attempt'[b][t] = attempt[b][t]
  <2>1. to \in Stage
    BY DEF Stage, Holding
  <2> QED
    BY <1>2, <2>1, AdvanceMovesOne
<1>4. /\ posts' \in [Subscription -> Nat]
      /\ posts'[s] = posts[s] \/ posts'[s] = posts[s] + 1
      /\ \A t \in Subscription : t # s => posts'[t] = posts[t]
  BY <1>1, HookTypes
<1>5. HookTypeOK'
  BY <1>1, <1>3, <1>4, HookTypes DEF HookTypeOK, JobType, RowType, LeaseType, Stage
<1>6. Counts
  BY <1>1, HookTypes DEF Counts
<1>7. ASSUME NEW t \in Subscription
      PROVE  OnDelivery(t)
  <2>1. CASE t = s
    <3>1. Sends(a, s)
      BY <1>1, <1>3, <1>4 DEF Sends, OthersStay
    <3> QED
      BY <2>1, <3>1 DEF OnDelivery
  <2>2. CASE t # s
    BY <1>1, <1>3, <1>4, <2>2, UntouchedRests DEF OnDelivery
  <2> QED
    BY <2>1, <2>2
<1>8. DrainsMove
  <2>1. attempt[a][s] # "todo" /\ attempt[a][s] \notin Over
    BY <1>1 DEF Over
  <2> QED
    BY <1>1, <1>3, <2>1, AttemptLeavesDrains
<1> QED
  BY <1>5, <1>6, <1>7, <1>8 DEF Moves

\* The row that records an answer.
LEMMA AnsweredRow ==
  ASSUME HookInv, NEW old \in RowType, NEW result \in {"ok", "error", "unavailable"},
         old.attempts < MaxAttempts
  PROVE  /\ Answered(old, result) \in RowType
         /\ Answered(old, result).status \in {"delivered", "failed"}
         /\ Answered(old, result).attempts =
              IF result = "unavailable" THEN old.attempts ELSE old.attempts + 1
<1>1. old.attempts + 1 \in 0 .. MaxAttempts
  BY HookTypes DEF RowType
<1>2. CASE result = "ok"
  <2>1. Answered(old, result) = [status |-> "delivered", attempts |-> old.attempts + 1, due |-> "never"]
    BY <1>2 DEF Answered
  <2> QED
    BY <1>1, <1>2, <2>1 DEF RowType
<1>3. CASE result = "error"
  <2>1. Answered(old, result) = [status |-> "failed", attempts |-> old.attempts + 1, due |-> "later"]
    BY <1>3 DEF Answered
  <2> QED
    BY <1>1, <1>3, <2>1 DEF RowType
<1>4. CASE result = "unavailable"
  <2>1. Answered(old, result) = [old EXCEPT !.status = "failed", !.due = "never"]
    BY <1>4 DEF Answered
  <2> QED
    BY <1>4, <2>1 DEF RowType
<1> QED
  BY <1>2, <1>3, <1>4

\* The answer is recorded under the lease, or discarded.
LEMMA CompleteAttemptStep ==
  ASSUME HookInv, NEW a \in Sender, NEW s \in Subscription, CompleteAttempt(a, s)
  PROVE  Moves
<1> DEFINE result == attempt[a][s]
<1>1. /\ result \in {"ok", "error", "unavailable"}
      /\ Advance(a, s, "done")
      /\ UNCHANGED <<job, enabled, drain, posts, faults, overruns>>
  BY DEF CompleteAttempt
<1>2. /\ HeldBy(a, s) =>
           /\ delivery' = [delivery EXCEPT ![s] = Answered(delivery[s], result)]
           /\ lease' = [lease EXCEPT ![s] = NoLease]
      /\ ~HeldBy(a, s) => UNCHANGED <<delivery, lease>>
  BY DEF CompleteAttempt, HeldBy
<1> HIDE DEF result
<1>3. /\ attempt' \in [Sender -> [Subscription -> Stage]]
      /\ attempt'[a][s] = "done"
      /\ \A b \in Sender, t \in Subscription :
           b # a \/ t # s => attempt'[b][t] = attempt[b][t]
  <2>1. "done" \in Stage
    BY DEF Stage, Over
  <2> QED
    BY <1>1, <2>1, AdvanceMovesOne
<1>4. ASSUME HeldBy(a, s)
      PROVE  /\ delivery' \in [Subscription -> RowType]
             /\ delivery'[s].status \in {"delivered", "failed"}
             /\ delivery'[s].attempts =
                  IF result = "unavailable" THEN delivery[s].attempts ELSE delivery[s].attempts + 1
             /\ \A t \in Subscription : t # s => delivery'[t] = delivery[t] /\ lease'[t] = lease[t]
             /\ lease' \in [Subscription -> LeaseType]
             /\ ~lease'[s].live
  <2>1. delivery[s] \in RowType /\ delivery[s].attempts < MaxAttempts
    <3>1. attempt[a][s] \in Holding
      BY <1>1, Stages DEF result
    <3> QED
      BY <1>4, <3>1, HookTypes DEF HookInv, Leased
  <2> DEFINE row == Answered(delivery[s], result)
  <2>2. /\ row \in RowType
        /\ row.status \in {"delivered", "failed"}
        /\ row.attempts =
             IF result = "unavailable" THEN delivery[s].attempts ELSE delivery[s].attempts + 1
    BY <1>1, <2>1, AnsweredRow
  <2>3. delivery' = [delivery EXCEPT ![s] = row] /\ lease' = [lease EXCEPT ![s] = NoLease]
    BY <1>2, <1>4
  <2> HIDE DEF row
  <2>4. NoLease \in LeaseType /\ ~NoLease.live
    BY DEF NoLease, LeaseType
  <2>5. /\ delivery' \in [Subscription -> RowType]
        /\ delivery'[s] = row
        /\ \A t \in Subscription : t # s => delivery'[t] = delivery[t]
    BY <2>2, <2>3, HookTypes
  <2>6. /\ lease' \in [Subscription -> LeaseType]
        /\ lease'[s] = NoLease
        /\ \A t \in Subscription : t # s => lease'[t] = lease[t]
    BY <2>3, <2>4, HookTypes
  <2> QED
    BY <2>2, <2>4, <2>5, <2>6
<1>5. /\ delivery' \in [Subscription -> RowType]
      /\ lease' \in [Subscription -> LeaseType]
      /\ \A t \in Subscription : t # s => delivery'[t] = delivery[t] /\ lease'[t] = lease[t]
      /\ \A t \in Subscription : delivery[t].status # "absent" => delivery'[t].status # "absent"
  <2>1. CASE HeldBy(a, s)
    BY <1>4, <2>1
  <2>2. CASE ~HeldBy(a, s)
    BY <1>2, <2>2, HookTypes
  <2> QED
    BY <2>1, <2>2
<1>6. HookTypeOK'
  BY <1>1, <1>3, <1>5, HookTypes DEF HookTypeOK, JobType, RowType, LeaseType, Stage
<1>7. Counts
  BY <1>1, HookTypes DEF Counts
<1>8. ASSUME NEW t \in Subscription
      PROVE  OnDelivery(t)
  <2>1. CASE t = s /\ HeldBy(a, s)
    <3>1. Records(a, s)
      BY <1>1, <1>3, <1>4, <2>1 DEF Records, OthersStay, result
    <3> QED
      BY <2>1, <3>1 DEF OnDelivery
  <2>2. CASE t = s /\ ~HeldBy(a, s)
    <3>1. Discards(a, s)
      BY <1>1, <1>2, <1>3, <2>2 DEF Discards, OthersStay, RowStays, result
    <3> QED
      BY <2>2, <3>1 DEF OnDelivery
  <2>3. CASE t # s
    BY <1>1, <1>3, <1>5, <2>3, UntouchedRests DEF OnDelivery
  <2> QED
    BY <2>1, <2>2, <2>3
<1>9. DrainsMove
  <2>1. attempt[a][s] # "todo" /\ attempt[a][s] \notin Over
    BY <1>1 DEF Over, result
  <2> QED
    BY <1>1, <1>3, <1>5, <2>1, AttemptLeavesDrains
<1> QED
  BY <1>6, <1>7, <1>8, <1>9 DEF Moves

\* A fault is counted.
LEMMA FaultCounts ==
  ASSUME HookInv, Fault
  PROVE  /\ faults' = faults + 1
         /\ faults' \in 0 .. MaxFaults
         /\ overruns + 1 \in 0 .. MaxFaults
         /\ overruns' \in {overruns, overruns + 1} => Counts
<1>1. faults < MaxFaults /\ faults' = faults + 1
  BY DEF Fault
<1>2. faults' \in 0 .. MaxFaults /\ overruns + 1 \in 0 .. MaxFaults
  BY <1>1, HookTypes DEF HookInv
<1> QED
  BY <1>1, <1>2 DEF Counts

\* A step that leaves the deliveries and the attempts where they are.
LEMMA NothingOnDeliveries ==
  ASSUME UNCHANGED <<delivery, lease, attempt, posts>>
  PROVE  \A s \in Subscription : OnDelivery(s)
  BY DEF OnDelivery, Rests

\* A drain whose attempts are over comes to rest, and may complete the job.
LEMMA EndDrainStep ==
  ASSUME HookInv, NEW d \in Drain, EndDrain(d)
  PROVE  Moves
<1>1. /\ \A s \in Subscription : attempt[d][s] \in Over
      /\ drain' = [drain EXCEPT ![d] = "idle"]
      /\ CompletesJob(d) => job' = [job EXCEPT !.status = "completed"]
      /\ ~CompletesJob(d) => job' = job
      /\ UNCHANGED <<enabled, delivery, lease, attempt, posts, faults, overruns>>
  BY DEF EndDrain
<1>2. job' \in JobType
  BY <1>1, HookTypes DEF JobType
<1>3. /\ drain' \in [Drain -> {"idle", "emit", "broken"}]
      /\ \A c \in Drain : c # d => drain'[c] = drain[c]
      /\ drain'[d] = "idle"
  BY <1>1, HookTypes
<1>4. HookTypeOK'
  BY <1>1, <1>2, <1>3, HookTypes DEF HookTypeOK, JobType, RowType, LeaseType, Stage
<1>5. Counts
  BY <1>1, HookTypes DEF Counts
<1>6. DrainsMove
  <2>1. job'.status = "completed" =>
          \/ job.status = "completed"
          \/ \E c \in Drain :
               drain[c] = "emit" /\ \A s \in Subscription : attempt[c][s] \in Over
    BY <1>1 DEF CompletesJob
  <2> QED
    BY <1>1, <1>3, <2>1 DEF DrainsMove
<1> QED
  BY <1>1, <1>4, <1>5, <1>6, NothingOnDeliveries DEF Moves

\* The job's lease ends, or a subscription is disabled.
LEMMA JobOrDisableStep ==
  ASSUME HookInv,
         \/ ExpireAbandonedJob
         \/ OutlastJobLease
         \/ \E s \in Subscription : Disable(s)
  PROVE  Moves
<1>1. UNCHANGED <<delivery, lease, drain, attempt, posts, overruns>>
  BY DEF ExpireAbandonedJob, OutlastJobLease, Disable
<1>2. enabled' \subseteq enabled
  BY DEF ExpireAbandonedJob, OutlastJobLease, Disable
<1>3. job' = job \/ job' = [job EXCEPT !.live = FALSE]
  BY DEF ExpireAbandonedJob, OutlastJobLease, Disable
<1>4. job' \in JobType /\ job'.status = job.status
  BY <1>3, HookTypes DEF JobType
<1>5. Counts
  <2>1. CASE OutlastJobLease
    BY <1>1, <2>1, FaultCounts DEF OutlastJobLease
  <2>2. CASE ~OutlastJobLease
    <3>1. UNCHANGED <<faults, overruns>>
      BY <2>2 DEF ExpireAbandonedJob, Disable
    <3> QED
      BY <3>1, HookTypes DEF Counts
  <2> QED
    BY <2>1, <2>2
<1>6. HookTypeOK'
  BY <1>1, <1>2, <1>4, <1>5, HookTypes DEF HookTypeOK, JobType, RowType, LeaseType, Stage, Counts
<1>7. DrainsMove
  BY <1>1, <1>2, <1>4 DEF DrainsMove
<1> QED
  BY <1>1, <1>5, <1>6, <1>7, NothingOnDeliveries DEF Moves

\* A failed delivery comes due.
LEMMA ComeDueStep ==
  ASSUME HookInv, NEW s \in Subscription, ComeDue(s)
  PROVE  Moves
<1>1. /\ delivery' = [delivery EXCEPT ![s].due = "now"]
      /\ UNCHANGED <<job, enabled, lease, drain, attempt, posts, faults, overruns>>
  BY DEF ComeDue
<1>2. /\ delivery' \in [Subscription -> RowType]
      /\ \A t \in Subscription :
           delivery'[t].status = delivery[t].status /\ delivery'[t].attempts = delivery[t].attempts
  BY <1>1, HookTypes DEF RowType
<1>3. HookTypeOK'
  BY <1>1, <1>2, HookTypes DEF HookTypeOK, JobType, RowType, LeaseType, Stage
<1>4. Counts
  BY <1>1, HookTypes DEF Counts
<1>5. \A t \in Subscription : OnDelivery(t)
  BY <1>1, <1>2 DEF OnDelivery, Rests
<1>6. DrainsMove
  BY <1>1, <1>2 DEF DrainsMove
<1> QED
  BY <1>3, <1>4, <1>5, <1>6 DEF Moves

\* The lease of a delivery ends, its holder gone or too slow.
LEMMA DeliveryLeaseEndsStep ==
  ASSUME HookInv, NEW s \in Subscription,
         ExpireAbandonedDelivery(s) \/ OutlastDeliveryLease(s)
  PROVE  Moves
<1>1. /\ lease[s].live
      /\ lease' = [lease EXCEPT ![s].live = FALSE]
      /\ UNCHANGED <<job, enabled, delivery, drain, attempt, posts>>
  BY DEF ExpireAbandonedDelivery, OutlastDeliveryLease
<1>2. /\ lease' \in [Subscription -> LeaseType]
      /\ ~lease'[s].live
      /\ \A t \in Subscription : t # s => lease'[t] = lease[t]
  BY <1>1, HookTypes DEF LeaseType
<1>3. /\ Counts
      /\ \/ attempt[lease[s].by][s] \notin Holding
         \/ faults' = faults + 1 /\ overruns' = overruns + 1
  <2>1. CASE ExpireAbandonedDelivery(s)
    <3>1. UNCHANGED <<faults, overruns>> /\ attempt[lease[s].by][s] \notin Holding
      BY <2>1 DEF ExpireAbandonedDelivery
    <3> QED
      BY <3>1, HookTypes DEF Counts
  <2>2. CASE OutlastDeliveryLease(s)
    BY <2>2, FaultCounts DEF OutlastDeliveryLease
  <2> QED
    BY <2>1, <2>2
<1>4. overruns' \in 0 .. MaxFaults /\ faults' \in 0 .. MaxFaults
  <2>1. CASE ExpireAbandonedDelivery(s)
    BY <2>1, HookTypes DEF ExpireAbandonedDelivery
  <2>2. CASE OutlastDeliveryLease(s)
    BY <2>2, FaultCounts DEF OutlastDeliveryLease
  <2> QED
    BY <2>1, <2>2
<1>5. HookTypeOK'
  BY <1>1, <1>2, <1>4, HookTypes DEF HookTypeOK, JobType, RowType, LeaseType, Stage
<1>6. ASSUME NEW t \in Subscription
      PROVE  OnDelivery(t)
  <2>1. CASE t = s
    BY <1>1, <1>2, <1>3, <2>1 DEF OnDelivery, Expires, RowStays
  <2>2. CASE t # s
    BY <1>1, <1>2, <2>2, UntouchedRests DEF OnDelivery
  <2> QED
    BY <2>1, <2>2
<1>7. DrainsMove
  BY <1>1 DEF DrainsMove
<1> QED
  BY <1>3, <1>5, <1>6, <1>7 DEF Moves

\* A delivery of a drain throws: the drain will not complete the job.
LEMMA ThrowStep ==
  ASSUME HookInv, NEW d \in Drain, NEW s \in Subscription, Throw(d, s)
  PROVE  Moves
<1>1. PICK ahead \in SUBSET {t \in Subscription : attempt[d][t] = "todo"} :
        attempt' = [attempt EXCEPT ![d] = [t \in Subscription |->
                      IF t \in ahead \cup {s} THEN "done" ELSE attempt[d][t]]]
  BY DEF Throw
<1>2. /\ Fault
      /\ drain' = [drain EXCEPT ![d] = "broken"]
      /\ UNCHANGED <<job, enabled, delivery, lease, posts, overruns>>
  BY DEF Throw
<1>3. d \in Sender /\ "done" \in Stage /\ "done" \in Over
  BY HookTypes DEF Stage, Over
<1>4. /\ attempt' \in [Sender -> [Subscription -> Stage]]
      /\ \A t \in ahead \cup {s} : attempt'[d][t] = "done"
      /\ \A b \in Sender, t \in Subscription :
           b # d \/ t \notin ahead \cup {s} => attempt'[b][t] = attempt[b][t]
  <2>1. attempt \in [Sender -> [Subscription -> Stage]]
    BY HookTypes
  <2>2. attempt'[d] = [t \in Subscription |->
                        IF t \in ahead \cup {s} THEN "done" ELSE attempt[d][t]]
    BY <1>1, <1>3, <2>1
  <2>3. /\ DOMAIN attempt' = Sender
        /\ \A b \in Sender : b # d => attempt'[b] = attempt[b]
    BY <1>1, <2>1
  <2>4. attempt'[d] \in [Subscription -> Stage]
    BY <1>3, <2>1, <2>2
  <2>5. attempt' \in [Sender -> [Subscription -> Stage]]
    BY <1>1, <2>1, <2>4
  <2> QED BY <2>2, <2>3, <2>5
<1>5. /\ drain' \in [Drain -> {"idle", "emit", "broken"}]
      /\ drain'[d] = "broken"
      /\ \A c \in Drain : c # d => drain'[c] = drain[c]
  BY <1>2, HookTypes
<1>6. faults' = faults + 1 /\ faults' \in 0 .. MaxFaults /\ Counts
  BY <1>2, FaultCounts
<1>7. HookTypeOK'
  BY <1>2, <1>4, <1>5, <1>6, HookTypes DEF HookTypeOK, JobType, RowType, LeaseType, Stage
<1>8. ASSUME NEW t \in Subscription
      PROVE  OnDelivery(t)
  <2>1. CASE t \in ahead \cup {s}
    <3>1. attempt'[d][t] = "done" /\ \A b \in Sender : b # d => attempt'[b][t] = attempt[b][t]
      BY <1>4, <2>1
    <3>2. Stops(d, t)
      BY <1>2, <1>3, <1>6, <3>1 DEF Stops, OthersStay, RowStays
    <3> QED
      BY <1>3, <2>1, <3>2 DEF OnDelivery
  <2>2. CASE t \notin ahead \cup {s}
    BY <1>2, <1>4, <2>2, UntouchedRests DEF OnDelivery
  <2> QED
    BY <2>1, <2>2
<1>9. DrainsMove
  <2>1. \A c \in Drain, t \in Subscription :
          attempt[c][t] \in Over => attempt'[c][t] \in Over
    BY <1>3, <1>4, HookTypes
  <2>2. \A c \in Drain : drain'[c] \in {"emit", "idle"} => c # d /\ drain'[c] = drain[c]
    BY <1>5
  <2>3. \A c \in Drain, t \in Subscription : c # d => attempt'[c][t] = attempt[c][t]
    BY <1>4, HookTypes
  <2> QED
    BY <1>2, <2>1, <2>2, <2>3 DEF DrainsMove
<1> QED
  BY <1>6, <1>7, <1>8, <1>9 DEF Moves

\* A sender dies with all its attempts.
LEMMA CrashStep ==
  ASSUME HookInv, NEW a \in Sender, Crash(a)
  PROVE  Moves
<1>1. /\ Fault
      /\ attempt' = [attempt EXCEPT ![a] = [s \in Subscription |-> "none"]]
      /\ drain' = [d \in Drain |-> IF d = a THEN "idle" ELSE drain[d]]
      /\ UNCHANGED <<job, enabled, delivery, lease, posts, overruns>>
  BY DEF Crash
<1>2. "none" \in Stage /\ "none" \in Over
  BY DEF Stage, Over
<1>3. /\ attempt' \in [Sender -> [Subscription -> Stage]]
      /\ \A s \in Subscription : attempt'[a][s] = "none"
      /\ \A b \in Sender \ {a} : attempt'[b] = attempt[b]
  BY <1>1, <1>2, HookTypes
<1>4. /\ drain' \in [Drain -> {"idle", "emit", "broken"}]
      /\ \A d \in Drain : d # a => drain'[d] = drain[d]
      /\ \A d \in Drain : d = a => drain'[d] = "idle"
  BY <1>1, HookTypes
<1>5. faults' = faults + 1 /\ faults' \in 0 .. MaxFaults /\ Counts
  BY <1>1, FaultCounts
<1>6. HookTypeOK'
  BY <1>1, <1>3, <1>4, <1>5, HookTypes DEF HookTypeOK, JobType, RowType, LeaseType, Stage
<1>7. ASSUME NEW t \in Subscription
      PROVE  OnDelivery(t)
  <2>1. Stops(a, t)
    BY <1>1, <1>2, <1>3, <1>5 DEF Stops, OthersStay, RowStays
  <2> QED
    BY <2>1 DEF OnDelivery
<1>8. DrainsMove
  <2>1. \A c \in Drain, t \in Subscription :
          (c = a /\ attempt'[c][t] = "none") \/ (c # a /\ attempt'[c][t] = attempt[c][t])
    BY <1>3, HookTypes
  <2>2. \A c \in Drain, t \in Subscription :
          attempt[c][t] \in Over => attempt'[c][t] \in Over
    BY <1>2, <2>1
  <2>3. \A c \in Drain : drain'[c] = "emit" => drain[c] = "emit" /\ c # a
    BY <1>4
  <2>4. \A c \in Drain : drain'[c] = "idle" =>
          drain[c] = "idle" \/ \A t \in Subscription : attempt'[c][t] \in Over
    BY <1>2, <1>4, <2>1
  <2> QED
    BY <1>1, <2>1, <2>2, <2>3, <2>4 DEF DrainsMove
<1> QED
  BY <1>5, <1>6, <1>7, <1>8 DEF Moves

-----------------------------------------------------------------------------
\* Every step, but the claim of the job, is one of these.
LEMMA HookStep ==
  ASSUME HookInv, HookNext
  PROVE  Moves \/ \E d \in Drain : ClaimJob(d)
<1>1. ASSUME NEW d \in Drain, DrainStep(d)
      PROVE  Moves
  BY <1>1, EndDrainStep, CreateDeliveryStep, ClaimDeliveryStep DEF DrainStep
<1>2. ASSUME NEW r \in Retrier,
             ClaimDue(r) \/ \E s \in Subscription : FetchSubscription(r, s)
      PROVE  Moves
  BY <1>2, ClaimDueStep, FetchSubscriptionStep
<1>3. ASSUME NEW a \in Sender, NEW s \in Subscription, AttemptStep(a, s)
      PROVE  Moves
  BY <1>3, PostStep, CompleteAttemptStep DEF AttemptStep
<1>4. ASSUME NEW s \in Subscription,
             \/ ComeDue(s)
             \/ ExpireAbandonedDelivery(s)
             \/ OutlastDeliveryLease(s)
      PROVE  Moves
  BY <1>4, ComeDueStep, DeliveryLeaseEndsStep
<1>5. ASSUME NEW d \in Drain, NEW s \in Subscription, Throw(d, s)
      PROVE  Moves
  BY <1>5, ThrowStep
<1>6. ASSUME NEW a \in Sender, Crash(a)
      PROVE  Moves
  BY <1>6, CrashStep
<1> QED
  BY <1>1, <1>2, <1>3, <1>4, <1>5, <1>6, JobOrDisableStep DEF HookNext

\* What a step does to one subscription keeps its part of the invariant.
LEMMA OnDeliveryKeeps ==
  ASSUME HookInv, HookTypeOK', Counts, NEW s \in Subscription, OnDelivery(s)
  PROVE  Leased(s)' /\ Kept(s)' /\ Account(s)'
<1>1. delivery'[s].attempts \in Nat
  <2>1. delivery' \in [Subscription -> RowType]
    BY DEF HookTypeOK, RowType
  <2> QED
    BY <2>1, HookTypes DEF RowType
<1> QED
  BY <1>1, RestsKeeps, ClaimsKeeps, FetchesKeeps, SendsKeeps, RecordsKeeps, DiscardsKeeps,
     StopsKeeps, ExpiresKeeps DEF OnDelivery

\* So every step keeps the invariant, which holds at first, and a stutter keeps it.
LEMMA HookStepKeepsInv ==
  ASSUME HookInv, HookNext
  PROVE  HookInv'
<1>1. /\ HookTypeOK'
      /\ Counts
      /\ \A s \in Subscription : OnDelivery(s)
      /\ Emits'
      /\ CompletedJobReachedAll'
  <2>1. CASE Moves
    BY <2>1, DrainsMoveKeeps DEF Moves
  <2>2. CASE \E d \in Drain : ClaimJob(d)
    BY <2>2, ClaimJobStep
  <2> QED
    BY <2>1, <2>2, HookStep
<1>2. \A s \in Subscription : Leased(s)' /\ Kept(s)' /\ Account(s)'
  BY <1>1, OnDeliveryKeeps
<1>3. overruns' <= faults'
  BY <1>1, HookTypes DEF Counts, HookInv
<1> QED
  BY <1>1, <1>2, <1>3 DEF HookInv

LEMMA HookInitInv ==
  ASSUME HookInit
  PROVE  HookInv
<1>1. /\ MaxAttempts \in Nat
      /\ MaxAttempts > 0
      /\ MaxFaults \in Nat
  BY MaxAttemptsAssumption, MaxFaultsAssumption
<1>2. /\ job = [status |-> "queued", by |-> None, live |-> FALSE]
      /\ enabled = Subscription
      /\ delivery = [s \in Subscription |-> [status |-> "absent", attempts |-> 0, due |-> "never"]]
      /\ lease = [s \in Subscription |-> [by |-> None, live |-> FALSE]]
      /\ drain = [d \in Drain |-> "idle"]
      /\ attempt = [a \in Sender |-> [s \in Subscription |-> "none"]]
      /\ posts = [s \in Subscription |-> 0]
      /\ faults = 0
      /\ overruns = 0
  BY DEF HookInit, NoDelivery, NoLease
<1>3. "none" \in Over /\ "none" \notin Holding
  BY DEF Over, Holding
<1>4. HookTypeOK
  <2>1. job \in JobType
    BY <1>2 DEF JobType
  <2>2. delivery \in [Subscription -> RowType]
    BY <1>1, <1>2 DEF RowType
  <2>3. lease \in [Subscription -> LeaseType]
    BY <1>2 DEF LeaseType
  <2>4. attempt \in [Sender -> [Subscription -> Stage]]
    BY <1>2, <1>3 DEF Stage
  <2>5. faults \in 0 .. MaxFaults /\ overruns \in 0 .. MaxFaults
    BY <1>1, <1>2
  <2> QED
    BY <1>2, <2>1, <2>2, <2>3, <2>4, <2>5 DEF HookTypeOK, JobType, RowType, LeaseType, Stage
<1>5. Emits /\ CompletedJobReachedAll
  <2>1. \A d \in Drain, s \in Subscription : attempt[d][s] = "none"
    BY <1>2 DEF Sender
  <2>2. \A d \in Drain : drain[d] = "idle"
    BY <1>2
  <2>3. Emits
    BY <1>3, <2>1, <2>2 DEF Emits
  <2>4. job.status = "queued"
    BY <1>2
  <2> QED
    BY <2>3, <2>4 DEF CompletedJobReachedAll
<1>6. ASSUME NEW s \in Subscription
      PROVE  Leased(s) /\ Kept(s) /\ Account(s)
  <2>1. Leased(s) /\ Kept(s)
    BY <1>2, <1>3, <1>6 DEF Leased, Kept, HeldBy
  <2>2. Stray(s) = {} /\ InFlight(s) = {} /\ Recordable(s) = 0
    BY <1>2, <1>6 DEF Stray, InFlight, Recordable
  <2>3. Account(s)
    BY <1>2, <2>2, FS_EmptySet DEF Account
  <2> QED
    BY <2>1, <2>3
<1>7. overruns <= faults
  BY <1>2
<1> QED
  BY <1>4, <1>5, <1>6, <1>7 DEF HookInv

LEMMA HookStutterKeepsInv ==
  ASSUME HookInv, UNCHANGED hookVars
  PROVE  HookInv'
<1>1. UNCHANGED <<job, enabled, delivery, lease, drain, attempt, posts, faults, overruns>>
  BY DEF hookVars
<1>2. HookTypeOK' /\ Emits' /\ CompletedJobReachedAll' /\ overruns' <= faults'
  BY <1>1 DEF HookInv, HookTypeOK, Emits, CompletedJobReachedAll
<1>3. Counts /\ \A s \in Subscription : OnDelivery(s)
  BY <1>1, HookTypes, NothingOnDeliveries DEF Counts
<1>4. \A s \in Subscription : Leased(s)' /\ Kept(s)' /\ Account(s)'
  BY <1>2, <1>3, OnDeliveryKeeps
<1> QED
  BY <1>2, <1>4 DEF HookInv

\* The invariant of the webhook deliveries holds throughout
\* (run-terminal-effects.ts, webhook-service.ts, webhook-delivery-engine.ts).
THEOREM HookInvariant == HookSpec => []HookInv
<1>1. HookInit => HookInv
  BY HookInitInv
<1>2. HookInv /\ [HookNext]_hookVars => HookInv'
  BY HookStepKeepsInv, HookStutterKeepsInv
<1> QED
  BY <1>1, <1>2, PTL DEF HookSpec

\* The outbox job, the deliveries and their senders stay in their types
\* (webhook-repository.ts).
THEOREM HookTypesHold == HookSpec => []HookTypeOK
<1>1. HookInv => HookTypeOK
  BY DEF HookInv
<1> QED
  BY <1>1, HookInvariant, PTL

\* Every request a subscriber receives is counted, about to be recorded, or the
\* price of a fault (webhook-delivery-engine.ts): for any number of drains,
\* retriers, subscriptions, attempts and faults.
THEOREM PostsAreAccounted == HookSpec => []PostsAccounted
<1>1. ASSUME HookInv, NEW s \in Subscription
      PROVE  posts[s] <= delivery[s].attempts + Cardinality(InFlight(s)) + faults
  <2>1. Cardinality(InFlight(s)) \in Nat
    BY <1>1, AccountNumbers, FS_CardinalityType
  <2>2. CASE Recordable(s) = 0
    BY <1>1, <2>1, <2>2, AccountNumbers
  <2>3. CASE Recordable(s) = 1
    <3>1. InFlight(s) # {}
      BY <2>3 DEF Recordable, InFlight
    <3>2. Cardinality(InFlight(s)) # 0
      BY <1>1, <3>1, AccountNumbers, FS_EmptySet
    <3> QED
      BY <1>1, <2>1, <2>3, <3>2, AccountNumbers
  <2> QED
    BY <1>1, <2>2, <2>3, AccountNumbers
<1>2. HookInv => PostsAccounted
  BY <1>1 DEF PostsAccounted
<1> QED
  BY <1>2, HookInvariant, PTL

\* A subscriber is sent as many requests as the attempts allow, and one more at most
\* for each fault.
PostsBounded == \A s \in Subscription : posts[s] <= MaxAttempts + faults

\* The attempts of drains and retriers together, however they overlap, keep to the
\* limit (attemptDelivery, claimDueWebhookDeliveries).
THEOREM PostsAreBounded == HookSpec => []PostsBounded
<1>1. ASSUME HookInv, NEW s \in Subscription
      PROVE  posts[s] <= MaxAttempts + faults
  <2>1. /\ posts[s] + Cardinality(Stray(s)) <= delivery[s].attempts + Recordable(s) + faults
        /\ Cardinality(Stray(s)) \in Nat
        /\ posts[s] \in Nat
        /\ faults \in Nat
        /\ delivery[s].attempts \in 0 .. MaxAttempts
        /\ MaxAttempts \in Nat
    BY <1>1, HookTypes, FS_CardinalityType DEF HookInv, Account, RowType
  <2>2. CASE Recordable(s) = 0
    BY <2>1, <2>2
  <2>3. CASE Recordable(s) = 1
    <3>1. PICK a \in Sender : HeldBy(a, s) /\ attempt[a][s] \in {"ok", "error"}
      BY <2>3 DEF Recordable
    <3>2. delivery[s].attempts < MaxAttempts
      BY <1>1, <3>1, Stages DEF HookInv, Leased
    <3> QED
      BY <2>1, <2>3, <3>2
  <2> QED
    BY <2>2, <2>3 DEF Recordable
<1>2. HookInv => PostsBounded
  BY <1>1 DEF PostsBounded
<1> QED
  BY <1>2, HookInvariant, PTL

\* The outbox job of a run is completed only when each enabled subscription has
\* its row (drainRunTerminalOutbox, WebhookService.emit).
THEOREM CompletedJobHasReachedAll == HookSpec => []CompletedJobReachedAll
<1>1. HookInv => CompletedJobReachedAll
  BY DEF HookInv
<1> QED
  BY <1>1, HookInvariant, PTL

\* A delivered event is not sent again, unless an attempt outlasted its lease
\* (claimWebhookDelivery, claimDueWebhookDeliveries).
THEOREM DeliveredIsNotRepeated == HookSpec => DeliveredNotRepeated
<1>1. ASSUME HookInv, NEW s \in Subscription, OnDelivery(s),
             delivery[s].status = "delivered", overruns = 0
      PROVE  posts'[s] = posts[s]
  <2>1. ASSUME NEW a \in Sender, Sends(a, s)
        PROVE  FALSE
    <3>1. attempt[a][s] \in Holding
      BY <2>1, Stages DEF Sends
    <3>2. HeldBy(a, s)
      BY <1>1, <3>1 DEF HookInv, Kept
    <3>3. delivery[s].status \in {"pending", "failed"}
      BY <1>1, <3>1, <3>2 DEF HookInv, Leased
    <3> QED
      BY <1>1, <3>3
  <2> QED
    BY <1>1, <2>1 DEF OnDelivery, Rests, Claims, Fetches, Records, Discards, Stops, Expires, RowStays
<1> DEFINE NotRepeated == \A s \in Subscription :
             delivery[s].status = "delivered" /\ overruns = 0 => posts'[s] = posts[s]
<1>2. HookInv /\ [HookNext]_hookVars => [NotRepeated]_hookVars
  <2>1. ASSUME HookInv, HookNext
        PROVE  NotRepeated
    <3>1. \A s \in Subscription : OnDelivery(s)
      BY <2>1, HookStep, ClaimJobStep DEF Moves
    <3> QED
      BY <1>1, <2>1, <3>1
  <2> QED
    BY <2>1
<1> QED
  BY <1>2, HookInvariant, PTL DEF HookSpec, DeliveredNotRepeated
=============================================================================
