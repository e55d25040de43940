---------------------------- MODULE MCRunEventLog ----------------------------
(* RunEventLog on small instances.                                          *)
EXTENDS RunEventLog, TLC
=============================================================================
