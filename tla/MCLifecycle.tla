------------------------------ MODULE MCLifecycle ------------------------------
(***************************************************************************)
(* Two identities: a pairing can be discarded and replaced by another one. *)
(***************************************************************************)
EXTENDS Lifecycle, TLC

CONSTANTS i1, i2

Symmetry == Permutations(Identity)

=============================================================================
