------------------------------- MODULE MCSwarm -------------------------------
(* Finite instances of Swarm for TLC.                                        *)
EXTENDS Swarm
=============================================================================
