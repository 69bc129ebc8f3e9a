------------------------------- MODULE Transports -------------------------------
(***************************************************************************)
(* The two programs that speak the device's framing, the backend's bridge  *)
(* and the v1 client, each on its own connection: one of them runs.  What  *)
(* the link promises (FramedLink) is asked of both.                        *)
(***************************************************************************)
EXTENDS FramedLink

VARIABLES
  program,                     \* the program that runs
  runtime, refused, serving,   \* of the backend
  at, kinds                    \* of the v1 client

Backend == INSTANCE Bridge
V1      == INSTANCE V1Client

backendVars == <<runtime, refused, serving>>
v1Vars      == <<at, kinds>>
vars        == <<program, linkVars, backendVars, v1Vars>>

Init ==
  /\ program \in {"backend", "v1"}
  /\ Backend!Init /\ V1!Init

OnlyBackend == program = "backend" /\ UNCHANGED <<program, v1Vars>>
OnlyV1      == program = "v1" /\ UNCHANGED <<program, backendVars>>

RunBackend == OnlyBackend /\ Backend!Next
RunV1      == OnlyV1 /\ V1!Next

Next == RunBackend \/ RunV1

Spec == Init /\ [][Next]_vars

(***************************************************************************)
(* Fairness.  The bridge's two tasks and the serve loop are polled, and a  *)
(* write that has failed stops the runtime; the v1 client runs on when it  *)
(* can.  Nobody need have anything to say, and the device need not read.   *)
(***************************************************************************)
FairSpec ==
  /\ Spec
  /\ WF_vars(OnlyBackend /\ Backend!TxTask) /\ WF_vars(OnlyBackend /\ Backend!RxTask)
  /\ WF_vars(OnlyBackend /\ Backend!RuntimeStops) /\ WF_vars(OnlyBackend /\ Backend!ServeExits)
  /\ WF_vars(OnlyV1 /\ V1!ClientStep)

-----------------------------------------------------------------------------
TypeOK ==
  /\ LinkTypeOK
  /\ Backend!OwnTypeOK
  /\ program = "v1" => V1!OwnTypeOK

(* The backend: what is written in full arrives, or the link is gone. *)
Transferred == program = "backend" => Backend!Transferred

(* The v1 client: the status it sends answers a PairingResponse. *)
StatusAnswersResponse == program = "v1" => V1!StatusAnswersResponse

(* The v1 client: a PairingResponse that was sent, or the end, ends it. *)
WaitEnds == program = "v1" => V1!WaitEnds

(* The backend: the end of the link ends the serve loop. *)
LinkLossNoticed == program = "backend" => Backend!LinkLossNoticed

=============================================================================
