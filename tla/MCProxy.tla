------------------------------ MODULE MCProxy ------------------------------
(* Proxy with two sessions, one of which is restarted on another port.     *)
EXTENDS Proxy, TLC

CONSTANTS a, b, p1, p2, p3

Restarted == p1 :> a @@ p2 :> a @@ p3 :> b

\* p1 and p2 differ in nothing but the order they start in.
Symmetry ==
  {f @@ g : f \in Permutations(Workers),
            g \in {h \in Permutations(Processes) : h[p3] = p3}}
=============================================================================
