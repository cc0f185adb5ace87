---------------------------- MODULE MCTcpClient ----------------------------
(***************************************************************************)
(* TcpClient on small sets: callers and message ids are interchangeable.   *)
(***************************************************************************)
EXTENDS TcpClient, TLC

Symmetry == Permutations(Callers) \cup Permutations(MsgIds)
=============================================================================
