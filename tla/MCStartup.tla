----------------------------- MODULE MCStartup ------------------------------
(* Instances of Startup for TLC.                                           *)
EXTENDS Startup
=============================================================================
