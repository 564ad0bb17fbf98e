------------------------------ MODULE MCScreen ------------------------------
(* Instances of Screen for TLC.                                            *)
EXTENDS ScreenRefinement
=============================================================================
