--------------------------- MODULE MCEventServers ---------------------------
EXTENDS EventServers, TLC

Symmetry == Permutations(Peers)
=============================================================================
