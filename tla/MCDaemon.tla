------------------------------ MODULE MCDaemon ------------------------------
(* Instances of Daemon for TLC.                                              *)
EXTENDS Daemon, TLC

\* Main is a particular handler and BootNames a particular set: neither the
\* handlers nor the names are interchangeable.
Symmetry == Permutations(Instances) \cup Permutations(Ports) \cup Permutations(Pids)
=============================================================================
