----------------------------- MODULE MCControl -----------------------------
(* Control with two binaries, app and app.exe, and a proxy that serves the  *)
(* unsafe tools.                                                           *)
EXTENDS Control, TLC

CONSTANTS app, exe, pApp, pExe, i1, i2, k1, k2

PathIds == pApp :> app @@ pExe :> exe

\* app.exe's stem is app; app is its own.
Stems == app :> app @@ exe :> app

Args(all, force, ids, paths) == [all |-> all, force |-> force, ids |-> ids, paths |-> paths]

\* --all; the same with an id, which is refused; exe by its id and by its path,
\* before app; after app and with --force.
Lines == {Args(TRUE, FALSE, <<>>, <<>>), Args(TRUE, FALSE, <<app>>, <<>>),
          Args(FALSE, FALSE, <<exe>>, <<pExe, pApp>>), Args(FALSE, TRUE, <<app, exe>>, <<pExe>>)}

Symmetry == Permutations(Idas) \cup Permutations(Commands)
=============================================================================
