-------------------------- MODULE MCPolicyApproval --------------------------
(* PolicyApproval on small instances.                                       *)
EXTENDS PolicyApproval

\* The run is paused again.
Again == \E a \in Approval : a > 1 /\ approvals[a] # "absent"

\* An overtaken transaction has brought the run back after its end.
Returned == status = "running" /\ effects > 0

\* (Bound) A fault, a second pause and a return are explored one at a time, and a
\* run that came back while it has not been quiet.
OneTrouble ==
  /\ ~(Again /\ faults > 0)
  /\ ~(Returned /\ (quiet \/ Again \/ faults > 0))
=============================================================================
