--------------------------- MODULE MCServerConfig ---------------------------
(* Instances of ServerConfig for TLC.                                      *)
EXTENDS ServerConfig, TLC

Symmetry == Permutations(Procs) \cup Permutations(Values)
=============================================================================
