------------------------------- MODULE MCEngine -------------------------------
(* Finite instances of Engine for TLC.                                        *)
EXTENDS Engine
=============================================================================
