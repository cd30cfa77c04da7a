---------------------------- MODULE MCEventLoop ----------------------------
(* The loop with small sets, for TLC. *)
EXTENDS EventLoop
=============================================================================
