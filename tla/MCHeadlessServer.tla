-------------------------- MODULE MCHeadlessServer --------------------------
(* HeadlessServer with two signals: enough for a handler on top of another. *)
EXTENDS HeadlessServer

CONSTANTS s1, s2

OneSignal  == {s1}
TwoSignals == {s1, s2}
=============================================================================
