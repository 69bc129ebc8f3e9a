-------------------------------- MODULE MCLabCli --------------------------------
(***************************************************************************)
(* CTAPHID with replies of up to three reports and requests of one, one,   *)
(* two and three; three log records, one of each kind, in frames of up to  *)
(* three transfers; card values that are empty, or have a short or a two   *)
(* byte length, alone or beside a TLV that holds the tags sought.          *)
(***************************************************************************)
EXTENDS LabCli

MCRequestSize ==
  [t \in {"init", "version", "register", "authenticate"} |->
     CASE t = "init" -> 2 [] t = "version" -> 3 [] t = "register" -> 4 [] t = "authenticate" -> 7]
MCKind  == <<"match", "blank", "plain">>
MCValue == {<<>>, <<112>>, <<48, 130, 1>>, [i \in 1 .. 260 |-> 5]}
MCNeighbour == {[tag |-> 113, value |-> <<112, 130>>]}

=============================================================================
