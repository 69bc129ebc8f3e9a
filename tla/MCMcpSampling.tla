----------------------------- MODULE MCMcpSampling -----------------------------
(***************************************************************************)
(* Small instances of McpSampling.  Two streams are enough for a request   *)
(* to arrive on one and its question to leave on the other; a call of each *)
(* kind, or two of one kind, are enough for replies to cross.              *)
(***************************************************************************)
EXTENDS McpSampling, TLC

CONSTANTS s1, s2, c1, c2, a1, text, bad

Symmetry == Permutations(Session) \cup Permutations(ToolCall) \cup Permutations(Body)

=============================================================================
