----------------------------- MODULE RunClaims ------------------------------
(* What the plans, the comments and the tests of the repository say of a     *)
(* run and the code does not keep.  TLC refutes each of these properties of  *)
(* RunExecution; the README tells how.                                       *)
EXTENDS RunExecution

-----------------------------------------------------------------------------
(* The end of a run                                                          *)

\* A run that ended stays ended: the writes of markWaiting, markQueued,
\* markContinuing and waitForDispatchRequest respect the terminal transition
\* that another process committed before them.
TerminalIsFinal == [][(status \in Settled) => (status' = status)]_vars

\* Every ended run has its terminal effects (usage, audit row, assistant message,
\* webhook job), whichever handler ended it.
EndedHasEffects == status \in Settled => effects = 1

\* The highest-sequence event of an ended run is a terminal one: no execution,
\* and no continuation, appends after it.
TerminalTail == status \in Settled => log.ended

\* RunTerminalService.cancel leaves no dispatch request of the run that a worker
\* could still claim or answer.
DispatchEndsWithRun ==
  status = "cancelled" /\ approval # "denied"
    => dispatch \notin {"queued", "claimed"}

-----------------------------------------------------------------------------
(* The answer                                                                *)

\* What a reader of the event log is shown has no part of the answer twice,
\* however many executions the run went through.
ShownOnce ==
  \A i, k \in DOMAIN log.shown : log.shown[i] = log.shown[k] => i = k

\* The answer an execution keeps in memory, which the assistant message will
\* hold, has every part that the provider produced ...
TextIsWhole ==
  \A w \in Worker :
    Executing(w) =>
      \A p \in 1 .. exec[w].part :
        \E i \in DOMAIN exec[w].text : exec[w].text[i] = p

\* ... and the same answer in memory has no part twice.
TextOnce ==
  \A w \in Worker : \A i, k \in DOMAIN exec[w].text :
    exec[w].text[i] = exec[w].text[k] => i = k

\* Nothing erases assistantOutputStarted of an open job, whoever checkpoints
\* after whom: a run that has shown output is never taken for one that has not.
MarkIsKept ==
  [][\A j \in JobId :
       jobs[j].started /\ jobs'[j].status # "settled" => jobs'[j].started]_vars

-----------------------------------------------------------------------------
(* The recovery                                                              *)

\* recover() executes a run again only while the run is running.
RetriesOnlyRunning ==
  [][\A w \in Worker :
       exec[w].retry /\ exec[w].pc = "claim" /\ exec'[w].pc = "begin"
         => status = "running"]_vars

\* recover() executes a run again only before the job it takes has produced
\* output.
RetriesBeforeOutput ==
  [][\A w \in Worker :
       exec[w].retry /\ exec[w].pc = "claim" /\ exec'[w].pc = "begin"
         => ~jobs[exec[w].job].started]_vars

\* recover() fails no run that another process executes under a live lease.
LiveLeaseNotRecovered ==
  [][\A w \in Worker :
       FailRun(w) /\ effects' # effects =>
         ~\E v \in Worker \ {w} :
            Executing(v) /\ Owns(v, exec[v].job) /\ jobs[exec[v].job].live]_vars

-----------------------------------------------------------------------------
(* Progress                                                                  *)

\* Every running run stops running: no failure is retried forever, and none
\* leaves the chat blocked.
RunningSettles == (status = "running") ~> (status # "running")

\* A run queued for a dispatch request that was answered, and that nobody ended
\* before, continues or ends: the readback of the answer is not lost.
AnswerContinues ==
  (status = "queued" /\ dispatch = "answered" /\ effects = 0)
    ~> (status # "queued")
=============================================================================
