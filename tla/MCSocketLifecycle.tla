------------------------- MODULE MCSocketLifecycle -------------------------
(* SocketLifecycle for TLC: storages for objects are interchangeable. *)
EXTENDS SocketLifecycle, TLC

Symmetry == Permutations(Objs)
============================================================================
