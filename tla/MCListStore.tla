------------------------------ MODULE MCListStore ------------------------------
(* Finite instances of ListStore for TLC.                                     *)
EXTENDS ListStore
=============================================================================
