----------------------------- MODULE RunEventLog -----------------------------
(***************************************************************************)
(* The events of one run on their way to one page of the application: the  *)
(* sequence numbers and rows of run_events (RunEventSequencer,             *)
(* run-repository.ts), the notices that wake readers, the replay loop of   *)
(* the server (run-events.ts) and the page's consumer with its reconnects  *)
(* (run-registry.ts).                                                      *)
(*                                                                         *)
(* Most writers take a number and insert the event in two statements; only *)
(* the terminal event is written in one transaction.  Notices may be lost, *)
(* delayed and reordered, connections break at any time, and a server that *)
(* dies takes its numbers, notices and connections with it.  The run's     *)
(* status is modelled as far as the reader looks at it (RunExecution has   *)
(* the rest).                                                              *)
(***************************************************************************)
EXTENDS Naturals, Sequences, SequencesExt

CONSTANTS
  Writer,        \* writers outside of a transaction
  MaxSequence,   \* bound on the events of the run
  PageSize,      \* defaultReplayPageSize (256)
  MaxReconnects  \* RUN_STREAM_MAX_RECONNECT_ATTEMPTS (5)

ASSUME PageSizeAssumption == PageSize \in Nat \ {0}
ASSUME BoundAssumption == MaxSequence \in Nat /\ MaxReconnects \in Nat

Sequence == 1 .. MaxSequence
Number == 0 .. MaxSequence

VARIABLES
  next,     \* runs.nextEventSequence
  log,      \* per sequence number: the kind of the event committed, or "none"
  status,   \* of the run
  writer,   \* of each writer: its number and the kind of its event
  notices,  \* published and not yet received
  lost,     \* whether a notice was lost
  late,     \* numbers that were inserted behind a larger one
  reader,   \* the replay loop of the page's connection
  buffer,   \* numbers sent to the page and not yet applied
  page,     \* the page's consumer
  applied   \* numbers it has applied

serverVars == <<next, log, status, writer, late>>
vars == <<serverVars, notices, lost, reader, buffer, page, applied>>

Resting == {"wait", "end"}
NoEvent == [seq |-> 0, kind |-> "none"]
NoReader == [pc |-> "none", cursor |-> 0, woken |-> FALSE, untilCaughtUp |-> FALSE]

\* Types of the log, the reader and the page.
TypeOK ==
  /\ next \in Number
  /\ log \in [Sequence -> {"none", "text"} \cup Resting]
  /\ status \in {"running", "waiting", "ended"}
  /\ writer \in [Writer -> [seq : Number, kind : {"none", "text", "wait", "marked"}]]
  /\ notices \subseteq Sequence
  /\ lost \in BOOLEAN
  /\ late \subseteq Sequence
  /\ reader \in [pc : {"none", "query", "sent", "wait", "closed"}, cursor : Number,
                 woken : BOOLEAN, untilCaughtUp : BOOLEAN]
  /\ buffer \in Seq(Sequence)
  /\ page \in [state : {"connecting", "streaming", "suspended", "settled", "failed"},
               after : Number, reconnects : 0 .. MaxReconnects, seen : SUBSET Resting]
  /\ applied \subseteq Sequence

Init ==
  /\ next = 0
  /\ log = [n \in Sequence |-> "none"]
  /\ status = "running"
  /\ writer = [w \in Writer |-> NoEvent]
  /\ notices = {}
  /\ lost = FALSE
  /\ late = {}
  /\ reader = NoReader
  /\ buffer = <<>>
  /\ page = [state |-> "connecting", after |-> 0, reconnects |-> 0, seen |-> {}]
  /\ applied = {}

Committed == {n \in Sequence : log[n] # "none"}

-----------------------------------------------------------------------------
\* allocateRunEventSequence, in a statement of its own.
Assign(w, kind) ==
  /\ writer[w] = NoEvent
  /\ next < MaxSequence
  /\ next' = next + 1
  /\ writer' = [writer EXCEPT ![w] = [seq |-> next', kind |-> kind]]
  /\ UNCHANGED <<log, status, late, notices, lost, reader, buffer, page, applied>>

\* markWaiting (for an approval) or markQueued (for a dispatch), both "waiting"
\* here, between the number and the insert of a waiting event.
Mark(w) ==
  /\ writer[w].kind = "wait"
  /\ writer' = [writer EXCEPT ![w].kind = "marked"]
  /\ status' = IF status = "running" THEN "waiting" ELSE status
  /\ UNCHANGED <<next, log, late, notices, lost, reader, buffer, page, applied>>

\* appendRunEvents, and notify.
Insert(w) ==
  /\ writer[w].kind \in {"text", "marked"}
  /\ LET n == writer[w].seq IN
       /\ log' = [log EXCEPT ![n] = IF writer[w].kind = "text" THEN "text" ELSE "wait"]
       /\ late' = late \cup {m \in {n} : \E k \in Committed : k > m}
       /\ notices' = notices \cup {n}
  /\ writer' = [writer EXCEPT ![w] = NoEvent]
  /\ UNCHANGED <<next, status, lost, reader, buffer, page, applied>>

\* The writer dies: its number stays unused.
CrashWriter(w) ==
  /\ writer[w] # NoEvent
  /\ writer' = [writer EXCEPT ![w] = NoEvent]
  /\ UNCHANGED <<next, log, status, late, notices, lost, reader, buffer, page, applied>>

\* An approval or a dispatch answer sets the run going again.
Continue ==
  /\ status = "waiting"
  /\ status' = "running"
  /\ UNCHANGED <<next, log, writer, late, notices, lost, reader, buffer, page, applied>>

\* The transaction of a terminal event, and notify.
End ==
  /\ status # "ended"
  /\ next < MaxSequence
  /\ status' = "ended"
  /\ next' = next + 1
  /\ log' = [log EXCEPT ![next'] = "end"]
  /\ notices' = notices \cup {next'}
  /\ UNCHANGED <<writer, late, lost, reader, buffer, page, applied>>

-----------------------------------------------------------------------------
\* (Mutant) A notice that comes while the reader is not waiting is forgotten.
Subscribed_WhenWaiting == reader.pc = "wait"

\* The reader's handler is called from subscribe on, whatever it is doing.
Subscribed == reader.pc \in {"query", "sent", "wait"}

\* A notice reaches the reader's handler.
Notice(n) ==
  /\ n \in notices
  /\ notices' = notices \ {n}
  /\ reader' = IF Subscribed /\ n > reader.cursor
               THEN [reader EXCEPT !.woken = TRUE] ELSE reader
  /\ UNCHANGED <<serverVars, lost, buffer, page, applied>>

\* publishBestEffort fails, or Pub/Sub drops the notice, or its process dies.
LoseNotice(n) ==
  /\ n \in notices
  /\ notices' = notices \ {n}
  /\ lost' = TRUE
  /\ UNCHANGED <<serverVars, reader, buffer, page, applied>>

Ahead == {n \in Committed : n > reader.cursor}

\* The place of n among the numbers of S.
Rank(n, S) == Cardinality({m \in S : m <= n})

\* listRunEventsAfter: the events ahead, ordered by number, at most a page.
PageRows ==
  [i \in 1 .. Min({PageSize, Cardinality(Ahead)}) |-> CHOOSE n \in Ahead : Rank(n, Ahead) = i]

\* One turn of the loop: a page is read and sent; the loop returns at a terminal
\* or waiting event or when it has caught up, and reads on after a full page.
Query ==
  /\ reader.pc = "query"
  /\ LET rows == PageRows
         closes == \/ \E i \in 1 .. Len(rows) : log[rows[i]] \in Resting
                   \/ rows = <<>> /\ reader.untilCaughtUp
     IN /\ buffer' = buffer \o rows
        /\ reader' = [reader EXCEPT
             !.cursor = IF rows = <<>> THEN @ ELSE Last(rows),
             !.pc = IF closes THEN "closed"
                    ELSE IF Len(rows) = PageSize THEN "query" ELSE "sent"]
  /\ UNCHANGED <<serverVars, notices, lost, page, applied>>

\* Else it waits once the page is sent.
Wait ==
  /\ reader.pc = "sent"
  /\ reader' = [reader EXCEPT !.pc = "wait"]
  /\ UNCHANGED <<serverVars, notices, lost, buffer, page, applied>>

\* RunEventWakeup.wait ends at a notice, also one that came before it.
WakeUp ==
  /\ reader.pc = "wait"
  /\ reader.woken
  /\ reader' = [reader EXCEPT !.pc = "query", !.woken = FALSE]
  /\ UNCHANGED <<serverVars, notices, lost, buffer, page, applied>>

\* (Mutant) There is no fallback poll.
Poll_Never ==
  /\ FALSE
  /\ UNCHANGED vars

\* Or after fallbackPollMs.
Poll ==
  /\ reader.pc = "wait"
  /\ reader' = [reader EXCEPT !.pc = "query", !.woken = FALSE]
  /\ UNCHANGED <<serverVars, notices, lost, buffer, page, applied>>

-----------------------------------------------------------------------------
\* trackRun: the page comes back to a chat whose run is active.
Attach ==
  /\ page.state \in {"suspended", "failed"}
  /\ status # "ended"
  /\ page' = [state |-> "connecting", after |-> 0, reconnects |-> 0, seen |-> {}]
  /\ applied' = {}
  /\ UNCHANGED <<serverVars, notices, lost, reader, buffer>>

\* The page asks for what follows afterSequence.  RunService.events reads the
\* run, and replayRunEvents subscribes before it reads events; a run that waits
\* for a dispatch is not read until caught up.
Connect ==
  /\ page.state = "connecting"
  /\ \E caughtUp \in {status = "ended", status # "running"} :
       reader' = [NoReader EXCEPT !.pc = "query", !.cursor = page.after,
                                  !.untilCaughtUp = caughtUp]
  /\ page' = [page EXCEPT !.state = "streaming"]
  /\ UNCHANGED <<serverVars, notices, lost, buffer, applied>>

\* (Mutant) afterSequence is advanced before the event is applied.
Apply_AdvancesFirst ==
  /\ page.state = "streaming"
  /\ buffer # <<>>
  /\ IF Head(buffer) > page.after
     THEN page' = [page EXCEPT !.after = Head(buffer)] /\ UNCHANGED <<applied, buffer>>
     ELSE applied' = applied \cup {page.after} /\ buffer' = Tail(buffer) /\ UNCHANGED page
  /\ UNCHANGED <<serverVars, notices, lost, reader>>

\* An event reaches the page's reducer; one it knows is dropped.
Apply ==
  /\ page.state = "streaming"
  /\ buffer # <<>>
  /\ buffer' = Tail(buffer)
  /\ LET n == Head(buffer) IN
       IF n > page.after
       THEN /\ applied' = applied \cup {n}
            /\ page' = [page EXCEPT !.after = n, !.reconnects = 0,
                                    !.seen = @ \cup (Resting \cap {log[n]})]
       ELSE UNCHANGED <<page, applied>>
  /\ UNCHANGED <<serverVars, notices, lost, reader>>

\* reconnectAttempts > RUN_STREAM_MAX_RECONNECT_ATTEMPTS
GivesUp == page.reconnects + 1 > MaxReconnects

\* The catch block of consumeEvents.
Reconnect ==
  page' = IF GivesUp
          THEN [page EXCEPT !.state = "failed", !.seen = {}]
          ELSE [page EXCEPT !.state = "connecting", !.reconnects = @ + 1, !.seen = {}]

\* The stream has ended: at rest, or too early.
StreamEnds ==
  /\ page.state = "streaming"
  /\ reader.pc = "closed"
  /\ buffer = <<>>
  /\ reader' = NoReader
  /\ IF page.seen = {}
     THEN Reconnect
     ELSE page' = [page EXCEPT !.state =
                     IF "end" \in page.seen THEN "settled" ELSE "suspended"]
  /\ UNCHANGED <<serverVars, notices, lost, buffer, applied>>

\* The connection breaks, is idle or slow for too long, or the server dies: what
\* was sent and not applied is gone.
Disconnect ==
  /\ page.state = "streaming"
  /\ reader' = NoReader
  /\ buffer' = <<>>
  /\ Reconnect
  /\ UNCHANGED <<serverVars, notices, lost, applied>>

\* waitForRunTerminal has seen the run's status, and ends the stream.
ObserveEnd ==
  /\ page.state \in {"connecting", "streaming"}
  /\ status = "ended"
  /\ reader' = NoReader
  /\ buffer' = <<>>
  /\ page' = [page EXCEPT !.state = "settled"]
  /\ UNCHANGED <<serverVars, notices, lost, applied>>

-----------------------------------------------------------------------------
ReaderStep == Query \/ Wait \/ WakeUp \/ Poll
PageStep == Connect \/ Apply \/ StreamEnds

Next ==
  \/ \E w \in Writer :
       \/ \E kind \in {"text", "wait"} : Assign(w, kind)
       \/ Mark(w) \/ Insert(w) \/ CrashWriter(w)
  \/ Continue \/ End
  \/ \E n \in Sequence : Notice(n) \/ LoseNotice(n)
  \/ ReaderStep
  \/ Attach \/ PageStep \/ Disconnect \/ ObserveEnd

Spec == Init /\ [][Next]_vars

\* The replay loop goes on, its timer included, and so does the page.
Fairness == WF_vars(ReaderStep) /\ WF_vars(PageStep)

FairSpec == Spec /\ Fairness

-----------------------------------------------------------------------------
Feed == INSTANCE EventFeed
  WITH committed <- Committed, overtaken <- late,
       shown <- applied, position <- page.after

\* The page shows the events in order, each once, and skips only overtaken
\* ones, whatever breaks, reconnects or attaches again on the way.
ImplementsFeed == Feed!Spec

\* A reader does not sleep through an event: while no notice has been lost, one
\* for each event ahead of a waiting reader has woken it or is still to come.
NoLostWakeup ==
  ~lost /\ reader.pc = "wait" /\ ~reader.woken => Ahead \subseteq notices

\* A committed event that is not overtaken reaches the page while the stream
\* lasts, even when every notice is lost.
EventReachesPage ==
  \A n \in Sequence :
    n \in Committed /\ page.state = "streaming"
      ~> n \in applied \cup late \/ page.state # "streaming"

-----------------------------------------------------------------------------
\* (Refuted) "anything committed after subscription produces a wakeup": a number
\* below the cursor that is inserted late is neither announced nor read.
NothingSkipped == \A n \in Committed : n <= page.after => n \in applied

\* (Refuted) "A suspended run is a stable state": a page that comes back to a
\* continued run is sent the old waiting event, and its stream ends there.
SuspendedAtWait == page.state = "suspended" => log[page.after] = "wait"
=============================================================================
