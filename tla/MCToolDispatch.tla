---------------------------- MODULE MCToolDispatch ----------------------------
(* ToolDispatch on small instances: the workers share one service account.   *)
EXTENDS ToolDispatch, TLC

SharedAccount == [w \in Worker |-> "service_account"]
=============================================================================
