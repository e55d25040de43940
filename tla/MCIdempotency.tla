---------------------------- MODULE MCIdempotency ----------------------------
(* Idempotency on small instances.                                          *)
EXTENDS Idempotency, TLC
=============================================================================
