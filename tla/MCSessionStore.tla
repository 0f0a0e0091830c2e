--------------------------- MODULE MCSessionStore ---------------------------
(* SessionStore with interchangeable processes and readers.                *)
EXTENDS SessionStore, TLC

Symmetry == Permutations(Processes) \cup Permutations(Readers)
=============================================================================
