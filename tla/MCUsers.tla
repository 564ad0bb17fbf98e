------------------------------ MODULE MCUsers -------------------------------
(* Instances of Users for TLC.                                             *)
EXTENDS Users, TLC

Symmetry == Permutations(Ids)
=============================================================================
