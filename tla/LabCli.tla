--------------------------------- MODULE LabCli ---------------------------------
(***************************************************************************)
(* The fl command line (fl/src/main.rs) runs one harness and ends with it. *)
(* The harnesses that drive a device are the three modules below, side by  *)
(* side; what is not run stays at one fixed initial state.  (fl relay and  *)
(* fl backend are Relay and Lifecycle, each with a run of its own.)        *)
(***************************************************************************)
EXTENDS Naturals, Sequences

CONSTANTS
  InitRoom, ContRoom, SeqLimit, RequestSize, CidEnd, MaxForeign,
  Chunk, Kind, Limits, MaxPayload, MaxFrames, MaxUnplugs,
  Value, Neighbour, PartSizes

VARIABLES
  command,   \* the subcommand given
  turn, phase, outcome, request, wire, acc, remaining, expectedSeq, responseCmd,
  expired, exchangeNo, reply, confirmed, foreign, mixed,
  options, due, doing, frame, records, printed, plugged, unplugs, live,
  made, bus, sent, since, heard, torn,
  stage, activity, verdict, asking, out, sw, held, left, endless

Fido == INSTANCE Ctaphid
Logs == INSTANCE DebugLog
Piv  == INSTANCE PivChain

ASSUME LabAssumption == Fido!RoomAssumption /\ Logs!LogAssumption /\ Piv!ValueAssumption

fidoVars ==
  <<turn, phase, outcome, request, wire, acc, remaining, expectedSeq, responseCmd,
    expired, exchangeNo, reply, confirmed, foreign, mixed>>
logsVars ==
  <<options, due, doing, frame, records, printed, plugged, unplugs, live,
    made, bus, sent, since, heard, torn>>
pivVars == <<stage, activity, verdict, asking, out, sw, held, left, endless>>
vars    == <<command, fidoVars, logsVars, pivVars>>

Init ==
  /\ command \in {"fido", "logs", "piv"}
  /\ Fido!Init /\ Logs!Init /\ Piv!Init
  /\ command # "logs" => options = [filter |-> FALSE, limit |-> Logs!NoLimit, deadline |-> FALSE]
  /\ command # "piv" => ~ endless

OnlyFido == command = "fido" /\ UNCHANGED <<command, logsVars, pivVars>>
OnlyLogs == command = "logs" /\ UNCHANGED <<command, fidoVars, pivVars>>
OnlyPiv  == command = "piv" /\ UNCHANGED <<command, fidoVars, logsVars>>

RunFido == OnlyFido /\ Fido!Next
RunLogs == OnlyLogs /\ Logs!Next
RunPiv  == OnlyPiv /\ Piv!Next

Next == RunFido \/ RunLogs \/ RunPiv

Spec == Init /\ [][Next]_vars

(***************************************************************************)
(* Fairness.  A harness is one thread that goes on, its timeouts fire and  *)
(* clocks advance.  Devices and users may do nothing for ever; a card      *)
(* answers each command, or PCSC gives it up.                              *)
(***************************************************************************)
FairSpec ==
  /\ Spec
  /\ WF_vars(OnlyFido /\ Fido!HostStep) /\ WF_vars(OnlyFido /\ Fido!ReadTimeout)
  /\ WF_vars(OnlyFido /\ Fido!DeadlinePasses)
  /\ WF_vars(OnlyLogs /\ Logs!HostStep) /\ WF_vars(OnlyLogs /\ Logs!TimePasses)
  /\ WF_vars(OnlyPiv /\ Piv!HostStep)

-----------------------------------------------------------------------------
TypeOK == Fido!TypeOK /\ Logs!TypeOK /\ Piv!TypeOK

(***************************************************************************)
(* fl fido: each exchange carries a whole request and a reply without gap  *)
(* or overlap, the whole reply to it if no report of another channel has   *)
(* been read.                                                              *)
(***************************************************************************)
ExchangeWhole == Fido!ExchangeWhole

(***************************************************************************)
(* fl fido: a pass means that the user confirmed both prompts, in a run    *)
(* that has read no report of another channel.                             *)
(***************************************************************************)
PassedMeansConfirmed == Fido!PassedMeansConfirmed

(***************************************************************************)
(* fl logs: what is printed is the wanted records that came, in order, but *)
(* for a connection torn by a partial transfer, and never past the limit.  *)
(***************************************************************************)
PrintsWanted == Logs!PrintsWanted

(* fl piv: the parts are the card's response, the value in it is found. *)
ValueFound == Piv!ValueFound

(***************************************************************************)
(* Every harness ends: fl fido unless the device says for ever that it is  *)
(* at work, fl logs if it has a deadline, fl piv unless the card announces *)
(* more for ever.                                                          *)
(***************************************************************************)
HarnessEnds ==
  /\ command = "fido" => Fido!Ends
  /\ Logs!DeadlineEnds
  /\ command = "piv" => Piv!Ends

=============================================================================
