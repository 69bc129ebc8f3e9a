------------------------------ MODULE MCRpcHandlers ------------------------------
(***************************************************************************)
(* Two streams; lengths with no chunk, a short one, a full one, and a full *)
(* and a short one.                                                        *)
(***************************************************************************)
EXTENDS RpcHandlers

CONSTANTS s1, s2

=============================================================================
