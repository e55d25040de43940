------------------------------- MODULE MCQuota -------------------------------
(* Quota on small instances, for the metric run.started: the start of a run  *)
(* (a transaction) matches the organisation's bucket of two units and its    *)
(* workspace's of one, an OpenAI completion the organisation's only.         *)
EXTENDS Quota

OrganisationAndWorkspace == <<2, 1>>
RunsAndCompletions == [c \in Call |-> IF c \in InTransaction THEN Bucket ELSE {1}]
=============================================================================
