------------------------------ MODULE MCInstall ------------------------------
(* Finite instances of Install for TLC.                                       *)
EXTENDS Install
=============================================================================
