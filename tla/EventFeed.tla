------------------------------ MODULE EventFeed ------------------------------
(***************************************************************************)
(* What a run's event stream promises to one page of the application:      *)
(* committed events are shown in the order of their sequence numbers, each *)
(* once, and none is left out except events that were overtaken, that is   *)
(* committed when one with a larger number already was.  A page that       *)
(* attaches again starts from nothing.                                     *)
(***************************************************************************)
EXTENDS Naturals

CONSTANT Sequence

VARIABLES
  committed,  \* sequence numbers of the events in the log
  overtaken,  \* those that were overtaken
  shown,      \* those the page shows
  position    \* the last one it has shown

vars == <<committed, overtaken, shown, position>>

Init ==
  /\ committed = {}
  /\ overtaken = {}
  /\ shown = {}
  /\ position = 0

Commit(n) ==
  /\ n \notin committed
  /\ committed' = committed \cup {n}
  /\ overtaken' = overtaken \cup {m \in {n} : \E k \in committed : k > m}
  /\ UNCHANGED <<shown, position>>

Show(n) ==
  /\ n \in committed
  /\ n > position
  /\ \A m \in committed : position < m /\ m < n => m \in overtaken
  /\ shown' = shown \cup {n}
  /\ position' = n
  /\ UNCHANGED <<committed, overtaken>>

Restart ==
  /\ shown' = {}
  /\ position' = 0
  /\ UNCHANGED <<committed, overtaken>>

Next == Restart \/ \E n \in Sequence : Commit(n) \/ Show(n)

Spec == Init /\ [][Next]_vars
=============================================================================
