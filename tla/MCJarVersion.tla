---------------------------- MODULE MCJarVersion ----------------------------
(* Instances of JarVersion for TLC: the three versions are the template's, *)
(* another one and "custom".                                               *)
EXTENDS JarVersion
=============================================================================
