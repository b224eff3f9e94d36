--------------------------- MODULE MCTcpService ---------------------------
(* TcpService for TLC: addresses are interchangeable. *)
EXTENDS TcpService, TLC

AddrSymmetry == Permutations(Addr)
=============================================================================
