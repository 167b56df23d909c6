------------------------------ MODULE MCPresence ------------------------------
(* Finite instances of Presence for TLC.  One agent is enough for properties  *)
(* of one agent at a time: the hub keeps nothing that relates two of them.    *)
EXTENDS Presence
=============================================================================
