-------------------------------- MODULE MCRelay --------------------------------
(* Two backends: the second connects while the first link is up. *)
EXTENDS Relay

CONSTANTS b1, b2

=============================================================================
