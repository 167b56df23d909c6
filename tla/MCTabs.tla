-------------------------------- MODULE MCTabs --------------------------------
(* Finite instances of Tabs for TLC.                                          *)
EXTENDS Tabs
=============================================================================
