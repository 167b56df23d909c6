------------------------------ MODULE MCFigures ------------------------------
(* Finite instances of Figures for TLC: one agent whose reports outgrow every *)
(* cap, and one that reports only its end.                                    *)
EXTENDS Figures, TLC

CONSTANTS a1, a2

MCRunning == a1 :> 2 @@ a2 :> 0
MCFailed == a1 :> <<2, 0, 1>> @@ a2 :> <<1>>
MCMaxPresence == a1 :> 1 @@ a2 :> 0
MCReading == a1 :> <<"ap1", "ap2", NoLink>> @@ a2 :> <<Hidden>>
=============================================================================
