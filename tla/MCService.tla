----------------------------- MODULE MCService -----------------------------
(* Two configurations for one port and one for another.                    *)
EXTENDS Service

CONSTANTS plain, unsafe, moved, p1, p2

MCPortOf == [s \in Specs |-> IF s = moved THEN 8745 ELSE 8744]
=============================================================================
