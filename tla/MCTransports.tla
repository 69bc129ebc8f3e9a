------------------------------ MODULE MCTransports ------------------------------
(***************************************************************************)
(* Out, a record of two frames and one of one; in, two of two frames.      *)
(* There is room for one record in part.                                   *)
(***************************************************************************)
EXTENDS Transports

MCPlan == [d \in Direction |-> IF d = "out" THEN <<1, 1, 2>> ELSE <<1, 1, 2, 2>>]

=============================================================================
