------------------------------- MODULE MCOutbox -------------------------------
(* Finite instances of Outbox for TLC.                                        *)
EXTENDS Outbox
=============================================================================
