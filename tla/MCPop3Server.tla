---------------------------- MODULE MCPop3Server ----------------------------
(* The server with small sets, for TLC: users, passwords and mails are model *)
(* values and interchangeable.                                              *)
EXTENDS Pop3Server, TLC

Symmetry == Permutations(Users) \cup Permutations(Passwords) \cup Permutations(Mails)
=============================================================================
