----------------------------- MODULE MCSpawner -----------------------------
(* Spawner with one proxy and a CLI that closes, and with two proxies.     *)
EXTENDS Spawner, TLC

CONSTANTS t1, t2, c1, c2, proxy, other, cli

\* Two tool calls open_file and one close_file in a proxy, and a close by the CLI.
OneProxy == t1 :> proxy @@ t2 :> proxy @@ c1 :> proxy @@ c2 :> cli

TwoProxies == t1 :> proxy @@ t2 :> other
=============================================================================
