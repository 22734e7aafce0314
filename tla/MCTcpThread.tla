---------------------------- MODULE MCTcpThread ----------------------------
(* Small instances of TcpThread for TLC.                                   *)
EXTENDS TcpThread, TLC

FdSymmetry == {f @@ g : f \in Permutations(Fds), g \in Permutations(Conns)}
=============================================================================
