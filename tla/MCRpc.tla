------------------------------- MODULE MCRpc -------------------------------
(* Two callers, two tools, one of which may answer None.                   *)
EXTENDS Rpc

CONSTANTS c1, c2, plain, optional
=============================================================================
