--------------------------------- MODULE Bridge ---------------------------------
(***************************************************************************)
(* The backend's transport (backend/src/lib.rs): two tasks between the     *)
(* runtime's channels and the connection, and the serve loop that would    *)
(* end with the session.  What the runtime does on a failed write is not   *)
(* in this repository; the model lets it stop then, and only then, since   *)
(* nothing else tells it of the link.                                      *)
(***************************************************************************)
EXTENDS FramedLink

VARIABLES
  runtime,   \* the QL runtime, which holds the platform and its senders
  refused,   \* write_message has returned false
  serving    \* the serve loop: waiting for a stream, or gone

ownVars == <<runtime, refused, serving>>
vars    == <<linkVars, ownVars>>

Init ==
  /\ LinkInit
  /\ runtime = "running" /\ refused = FALSE /\ serving = TRUE

(* write_message: the record is queued for as long as the tx task lives. *)
WriteMessage ==
  /\ runtime = "running"
  /\ \/ Emit("out") /\ UNCHANGED refused
     \/ writer["out"] = "ended" /\ refused' = TRUE /\ UNCHANGED linkVars
  /\ UNCHANGED <<runtime, serving>>

DeviceEmits == Emit("in") /\ UNCHANGED ownVars

(* The tasks of the bridge, and the device's (external). *)
Transfer ==
  /\ LinkStep /\ UNCHANGED ownVars
  /\ runtime = "running" \/ delivered'["in"] = delivered["in"]

(* External: the runtime ends, and drops the senders it held. *)
RuntimeStops ==
  /\ runtime = "running" /\ refused
  /\ runtime' = "stopped"
  /\ UNCHANGED <<refused, serving, linkVars>>

(* With the runtime gone the rx task ends when it has a record. *)
RxEnds ==
  /\ runtime = "stopped" /\ Decoded("in") /\ Completes("in")
  /\ reader' = [reader EXCEPT !["in"] = "ended"]
  /\ UNCHANGED <<emitted, written, bad, read, partial, delivered, writer, broken, ownVars>>

(* Every sender of inbound streams is gone: "session gone, exiting". *)
ServeExits ==
  /\ serving /\ runtime = "stopped"
  /\ serving' = FALSE
  /\ UNCHANGED <<runtime, refused, linkVars>>

Next ==
  \/ WriteMessage \/ DeviceEmits \/ Transfer
  \/ RuntimeStops \/ RxEnds \/ ServeExits

Spec == Init /\ [][Next]_vars

(* The two tasks, for the fairness of their steps. *)
TxTask == Transfer /\ (WriteFrame("out") \/ WriteFails("out"))
RxTask == Transfer /\ (SkipFrame("in") \/ Complete("in") \/ Keep("in") \/ ReadEnds("in"))

-----------------------------------------------------------------------------
OwnTypeOK ==
  runtime \in {"running", "stopped"} /\ refused \in BOOLEAN /\ serving \in BOOLEAN

(***************************************************************************)
(* A record the runtime emits is written in full unless the link breaks or *)
(* the device stops reading; a record the device has written comes out     *)
(* unless one of its own frames is bad, the link breaks or the runtime     *)
(* ends.  A bad frame costs its record and no other.                       *)
(***************************************************************************)
Transferred ==
  /\ \A r \in {Plan["out"][k] : k \in 1 .. Len(Plan["out"])} :
       [](r <= emitted["out"] =>
            \/ <>(AllWritten("out", r) \/ broken \/ runtime = "stopped")
            \/ <>[](written["out"] - read["out"] = Window))
  /\ \A r \in {Plan["in"][k] : k \in 1 .. Len(Plan["in"])} :
       AllWritten("in", r) ~> Came("in", r) \/ Damaged("in", r) \/ broken \/ runtime = "stopped"

(***************************************************************************)
(* The serve loop reports "session gone, exiting" when its channel closes, *)
(* as if a session that is gone closed it.                                 *)
(***************************************************************************)
LinkLossNoticed == reader["in"] = "ended" ~> ~ serving

=============================================================================
