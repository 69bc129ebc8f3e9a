------------------------------ MODULE MCMcpEvents ------------------------------
(***************************************************************************)
(* Small instances of McpEvents: a broadcast that keeps two events lags    *)
(* after three, a history of two evicts after three.                       *)
(***************************************************************************)
EXTENDS McpEvents, TLC

CONSTANTS s1, s2

Symmetry == Permutations(Session)

=============================================================================
