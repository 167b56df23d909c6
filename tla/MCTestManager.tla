---------------------------- MODULE MCTestManager ----------------------------
(* Finite instances of TestManager for TLC.                                  *)
EXTENDS TestManager
=============================================================================
