---------------------------- MODULE MCQueuedTurns ----------------------------
(* QueuedTurns on small instances.                                          *)
EXTENDS QueuedTurns
=============================================================================
