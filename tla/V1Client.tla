-------------------------------- MODULE V1Client --------------------------------
(***************************************************************************)
(* The QuantumLink v1 client (v1-client/src/main.rs and transport.rs): it  *)
(* sends a PairingRequest, waits for the PairingResponse, sends one        *)
(* EnvoyStatus and exits.  One thread writes and reads, so its reader is   *)
(* idle while it writes; nothing limits its wait.                          *)
(***************************************************************************)
EXTENDS FramedLink

Pairing == 1     \* the two records the client sends
Status  == 2

VARIABLES
  at,      \* "start", "pairing", "waiting", "status", or the end: "done", "failed"
  kinds    \* external: what the device's records say

ownVars == <<at, kinds>>
vars    == <<linkVars, ownVars>>

Over == {"done", "failed"}

Init == LinkInit /\ at = "start" /\ kinds = <<>>

(* No XID, no connection: an error.  Else the first message is sealed. *)
Start ==
  /\ at = "start"
  /\ \/ at' = "failed" /\ UNCHANGED linkVars
     \/ at' = "pairing" /\ Emit("out")
  /\ UNCHANGED kinds

(* send_envelope: frame by frame, then on to what comes next. *)
Send ==
  /\ at \in {"pairing", "status"}
  /\ WriteFrame("out")
  /\ at' = IF written'["out"] < Len(Plan["out"])
              /\ Plan["out"][written'["out"] + 1] <= emitted["out"] THEN at
          ELSE IF at = "pairing" THEN "waiting" ELSE "done"
  /\ UNCHANGED kinds

SendFails ==
  /\ at \in {"pairing", "status"}
  /\ WriteFails("out")
  /\ at' = "failed" /\ UNCHANGED kinds

(* recv_envelope: frames are taken until a record is complete. *)
Receive ==
  /\ at = "waiting"
  /\ SkipFrame("in") \/ Keep("in")
  /\ UNCHANGED ownVars

(* Mutant: a message that cannot be unsealed is passed over. *)
UnsealOrIgnore(kind) ==
  IF kind = "response" THEN at' = "status" ELSE at' = "waiting"

(***************************************************************************)
(* Unsealing, with the replay check: a message that is not CBOR, not for   *)
(* this client or seen before ends the program, a PairingResponse has the  *)
(* status sent, any other message is ignored.                              *)
(***************************************************************************)
Unseal(kind) ==
  CASE kind = "response"  -> at' = "status"
    [] kind = "other"     -> at' = "waiting"
    [] kind = "unsealable" -> at' = "failed"

Handle ==
  /\ at = "waiting"
  /\ Complete("in")
  /\ Unseal(kinds[RecordOf("in")])
  /\ UNCHANGED kinds

(* The EnvoyStatus is sealed and handed to the transport. *)
Answer ==
  /\ at = "status" /\ emitted["out"] = Pairing
  /\ Emit("out") /\ UNCHANGED ownVars

ReceiveFails ==
  /\ at = "waiting"
  /\ ReadEnds("in")
  /\ at' = "failed" /\ UNCHANGED kinds

(***************************************************************************)
(* The process exits and its socket closes.  With frames unread the        *)
(* connection is reset instead, and what is on its way may be lost.        *)
(***************************************************************************)
Exit ==
  /\ at \in Over /\ reader["in"] = "running"
  /\ reader' = [reader EXCEPT !["in"] = "ended"]
  /\ writer' = [writer EXCEPT !["out"] = "ended"]
  /\ \/ UNCHANGED broken
     \/ read["in"] < written["in"] /\ broken' = TRUE
  /\ UNCHANGED <<emitted, written, bad, read, partial, delivered, ownVars>>

-----------------------------------------------------------------------------
(* External: the device, which answers a PairingRequest it has received. *)
DeviceEmits ==
  /\ Emit("in")
  /\ \E kind \in {"response", "other", "unsealable"} :
       /\ kind = "response" => Came("out", Pairing)
       /\ kinds' = Append(kinds, kind)
  /\ UNCHANGED at

DeviceWrites == WriteFrame("in") /\ UNCHANGED ownVars
DeviceReads  ==
  (Complete("out") \/ Keep("out") \/ ReadEnds("out") \/ WriteFails("in")) /\ UNCHANGED ownVars
LinkFails    == (PeerLeaves \/ Break) /\ UNCHANGED ownVars

ClientStep ==
  Start \/ Send \/ SendFails \/ Receive \/ Handle \/ Answer \/ ReceiveFails \/ Exit

Next == ClientStep \/ DeviceEmits \/ DeviceWrites \/ DeviceReads \/ LinkFails

-----------------------------------------------------------------------------
OwnTypeOK ==
  /\ at \in {"start", "pairing", "waiting", "status"} \cup Over
  /\ kinds \in Seq({"response", "other", "unsealable"}) /\ Len(kinds) = emitted["in"]

(***************************************************************************)
(* The client answers one message only: a PairingResponse, after which it  *)
(* takes no other, and before which it took nothing it could not unseal.   *)
(* In particular the status follows the request the device has received.   *)
(***************************************************************************)
Taken == [i \in 1 .. Len(delivered["in"]) |-> kinds[delivered["in"][i]]]

StatusAnswersResponse ==
  /\ \A i \in 1 .. Len(Taken) - 1 : Taken[i] = "other"
  /\ Came("out", Status) \/ at \in {"status", "done"} =>
       /\ Taken # <<>> /\ Taken[Len(Taken)] = "response"
       /\ Came("out", Pairing)

(***************************************************************************)
(* A PairingResponse that is sent in full has the client end, unless it    *)
(* was damaged on the way or the device stops reading, whatever other      *)
(* records left behind; and a client that waits ends with the connection,  *)
(* closed in order or reset, unless a PairingResponse was still to come.   *)
(***************************************************************************)
Sent(r) == r <= Len(kinds) /\ AllWritten("in", r)

WaitEnds ==
  /\ \A r \in {Plan["in"][k] : k \in 1 .. Len(Plan["in"])} :
       [](Sent(r) /\ kinds[r] = "response" =>
            <>(at \in Over \/ Damaged("in", r)) \/ <>[](written["out"] - read["out"] = Window))
  /\ (broken \/ writer["in"] = "ended") /\ at = "waiting" ~> at \in Over \cup {"status"}

=============================================================================
