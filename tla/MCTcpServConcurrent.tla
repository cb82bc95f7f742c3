------------------------ MODULE MCTcpServConcurrent ------------------------
(* TcpServConcurrent for TLC: the clients are interchangeable. *)
EXTENDS TcpServConcurrent, TLC

Symmetry == Permutations(Peers)
============================================================================
