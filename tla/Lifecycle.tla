------------------------------- MODULE Lifecycle -------------------------------
(***************************************************************************)
(* The life of a backend process (backend/src/lib.rs: run, the state file, *)
(* and the callbacks of BackendPlatform), over many runs on one machine.   *)
(*                                                                         *)
(* A first run pairs (XX) with a fresh identity and the device's token,    *)
(* and saves identity and peer bundle; a later run finds the file and      *)
(* reconnects (IK).  The process may be stopped at any instant, and a file *)
(* being written is then left as it is.                                    *)
(***************************************************************************)
EXTENDS Naturals, Sequences

CONSTANTS
  Identity,    \* what generate_identity may return, each at most once
  NoIdentity,  \* no identity: nothing paired, or nothing saved
  MaxQueue     \* bound: statuses and device streams queued in a run

ASSUME LifecycleAssumption ==
  /\ NoIdentity \notin Identity
  /\ MaxQueue \in Nat

VARIABLES
  file,        \* the state file: whose it is, and whether it is complete
  devicePeer,  \* external: the backend identity the device remembers
  paired,      \* ghost: the identities the device has ever accepted
  minted,      \* the identities generated so far
  stage,       \* where run() stands
  options,     \* the command line of this run, and the mode it selected
  identity,    \* the identity this run uses
  peerStatus,  \* the runtime's session status
  statuses,    \* status_rx
  bundle,      \* peer_rx: whether a bundle has been captured
  inbox        \* inbound_streams_rx: streams waiting for the serve loop

processVars == <<options, identity, peerStatus, statuses, bundle, inbox>>
deviceVars  == <<devicePeer, paired>>
vars        == <<file, deviceVars, minted, stage, processVars>>

Absent   == [owner |-> NoIdentity, whole |-> FALSE]
Exists   == file # Absent
Stage    == {"off", "dialing", "pairing", "saving", "writing", "client", "serving"}
Options  == [mode : {"XX", "IK"}, serve : BOOLEAN, token : BOOLEAN]

Init ==
  /\ file = Absent
  /\ devicePeer = NoIdentity /\ paired = {} /\ minted = {}
  /\ stage = "off"
  /\ options = [mode |-> "XX", serve |-> FALSE, token |-> FALSE]
  /\ identity = NoIdentity
  /\ peerStatus = "Disconnected" /\ statuses = <<>>
  /\ bundle = FALSE /\ inbox = 0

-----------------------------------------------------------------------------
(* The process ends: its channels and its session go with it. *)
Exit ==
  /\ stage' = "off"
  /\ options' = [mode |-> "XX", serve |-> FALSE, token |-> FALSE]
  /\ identity' = NoIdentity
  /\ peerStatus' = "Disconnected" /\ statuses' = <<>>
  /\ bundle' = FALSE /\ inbox' = 0

(* Mutant: a token on the command line asks for a new pairing. *)
StartByToken(fresh, serve, token) ==
  /\ stage = "off"
  /\ file' = IF fresh THEN Absent ELSE file
  /\ options' = [mode |-> IF file' = Absent \/ token THEN "XX" ELSE "IK",
                 serve |-> serve, token |-> token]
  /\ stage' = "dialing"
  /\ UNCHANGED <<deviceVars, minted, identity, peerStatus, statuses, bundle, inbox>>

(* --fresh discards the file; then its presence selects the mode. *)
Start(fresh, serve, token) ==
  /\ stage = "off"
  /\ file' = IF fresh THEN Absent ELSE file
  /\ options' = [mode |-> IF file' = Absent THEN "XX" ELSE "IK",
                 serve |-> serve, token |-> token]
  /\ stage' = "dialing"
  /\ UNCHANGED <<deviceVars, minted, identity, peerStatus, statuses, bundle, inbox>>

(* Mutant: the saved bundle is bound, under a fresh identity. *)
ReconnectFresh ==
  /\ stage = "dialing" /\ options.mode = "IK" /\ file.whole
  /\ \E i \in Identity \ minted : identity' = i /\ minted' = minted \cup {i}
  /\ stage' = "pairing"
  /\ UNCHANGED <<file, deviceVars, options, peerStatus, statuses, bundle, inbox>>

(* Connected; a known peer is loaded from the file and bound. *)
Reconnect ==
  /\ stage = "dialing" /\ options.mode = "IK" /\ file.whole
  /\ identity' = file.owner
  /\ stage' = "pairing"
  /\ UNCHANGED <<file, deviceVars, minted, options, peerStatus, statuses, bundle, inbox>>

(* Connected; a fresh identity pairs with the device's token. *)
Pair ==
  /\ stage = "dialing" /\ options.mode = "XX" /\ options.token
  /\ \E i \in Identity \ minted : identity' = i /\ minted' = minted \cup {i}
  /\ stage' = "pairing"
  /\ UNCHANGED <<file, deviceVars, options, peerStatus, statuses, bundle, inbox>>

(* The panics on the way: no peer to dial, a truncated file, no token. *)
StartFails ==
  /\ stage = "dialing"
  /\ Exit
  /\ UNCHANGED <<file, deviceVars, minted>>

-----------------------------------------------------------------------------
(* External: the device takes part in the handshake it can take part in. *)
DeviceAccepts ==
  /\ stage = "pairing"
  /\ options.mode = "IK" => devicePeer = identity
  /\ devicePeer' = identity
  /\ paired' = paired \cup {identity}
  /\ UNCHANGED <<file, minted, stage, processVars>>

DeviceForgets ==
  /\ devicePeer' = NoIdentity
  /\ UNCHANGED <<file, paired, minted, stage, processVars>>

(* handle_peer_status: a session needs the device's last handshake message. *)
PeerChange(v) ==
  /\ stage \notin {"off", "dialing"}
  /\ v = "Connected" => devicePeer = identity
  /\ Len(statuses) < MaxQueue
  /\ peerStatus' = v
  /\ statuses' = Append(statuses, v)
  /\ UNCHANGED <<file, deviceVars, minted, stage, options, identity, bundle, inbox>>

(* persist_peer: an XX handshake yields a bundle, before or after the status. *)
PersistPeer ==
  /\ stage \notin {"off", "dialing"} /\ options.mode = "XX"
  /\ bundle' = TRUE
  /\ UNCHANGED <<file, deviceVars, minted, stage, options, identity, peerStatus, statuses, inbox>>

(* handle_inbound: try_send on an unbounded channel whose receiver is alive. *)
InboundStream ==
  /\ peerStatus = "Connected" /\ inbox < MaxQueue
  /\ inbox' = inbox + 1
  /\ UNCHANGED <<file, deviceVars, minted, stage, options, identity, peerStatus, statuses, bundle>>

-----------------------------------------------------------------------------
AfterSession == IF options.serve THEN "serving" ELSE "client"

(* Mutant: any status ends the wait. *)
AwaitAnyStatus ==
  /\ stage = "pairing" /\ statuses # <<>>
  /\ statuses' = Tail(statuses)
  /\ stage' = IF options.mode = "XX" THEN "saving" ELSE AfterSession
  /\ UNCHANGED <<file, deviceVars, minted, options, identity, peerStatus, bundle, inbox>>

(* await_status skips whatever is not Connected. *)
AwaitStatus ==
  /\ stage = "pairing" /\ statuses # <<>>
  /\ statuses' = Tail(statuses)
  /\ stage' = IF Head(statuses) # "Connected" THEN "pairing"
              ELSE IF options.mode = "XX" THEN "saving" ELSE AfterSession
  /\ UNCHANGED <<file, deviceVars, minted, options, identity, peerStatus, bundle, inbox>>

(* Nothing within 30 s: exit(1). *)
GiveUp ==
  /\ stage = "pairing"
  /\ Exit
  /\ UNCHANGED <<file, deviceVars, minted>>

(* The bundle comes within 3 s: fs::write truncates the file, then fills it. *)
OpenFile ==
  /\ stage = "saving" /\ bundle
  /\ bundle' = FALSE
  /\ file' = [owner |-> identity, whole |-> FALSE]
  /\ stage' = "writing"
  /\ UNCHANGED <<deviceVars, minted, options, identity, peerStatus, statuses, inbox>>

FillFile ==
  /\ stage = "writing"
  /\ file' = [file EXCEPT !.whole = TRUE]
  /\ stage' = AfterSession
  /\ UNCHANGED <<deviceVars, minted, processVars>>

(* It does not: a warning, and the session goes on without a file. *)
NoBundle ==
  /\ stage = "saving"
  /\ stage' = AfterSession
  /\ UNCHANGED <<file, deviceVars, minted, processVars>>

(* The serve loop hands a stream to the router. *)
ServeStream ==
  /\ stage = "serving" /\ inbox > 0
  /\ inbox' = inbox - 1
  /\ UNCHANGED <<file, deviceVars, minted, stage, options, identity, peerStatus, statuses, bundle>>

(* Echo and benchmark are done; or the process is stopped, or panics. *)
Stop ==
  /\ stage # "off"
  /\ Exit
  /\ UNCHANGED <<file, deviceVars, minted>>

-----------------------------------------------------------------------------
Next ==
  \/ \E fresh, serve, token \in BOOLEAN : Start(fresh, serve, token)
  \/ Reconnect \/ Pair \/ StartFails
  \/ DeviceAccepts \/ DeviceForgets \/ PersistPeer \/ InboundStream
  \/ \E v \in {"Connected", "Disconnected"} : PeerChange(v)
  \/ AwaitStatus \/ GiveUp \/ OpenFile \/ FillFile \/ NoBundle \/ ServeStream \/ Stop

Spec == Init /\ [][Next]_vars

-----------------------------------------------------------------------------
TypeOK ==
  /\ file \in [owner : Identity \cup {NoIdentity}, whole : BOOLEAN]
  /\ devicePeer \in Identity \cup {NoIdentity}
  /\ paired \subseteq Identity /\ minted \subseteq Identity
  /\ stage \in Stage /\ options \in Options
  /\ identity \in Identity \cup {NoIdentity}
  /\ peerStatus \in {"Connected", "Disconnected"}
  /\ statuses \in Seq({"Connected", "Disconnected"}) /\ Len(statuses) <= MaxQueue
  /\ bundle \in BOOLEAN
  /\ inbox \in 0 .. MaxQueue

(***************************************************************************)
(* The file never names an identity the device has not accepted: neither a *)
(* pairing that timed out nor a killed run leaves one behind.              *)
(***************************************************************************)
SavedWasPaired == Exists => file.owner \in paired

(***************************************************************************)
(* A run believes in its session only with an identity the device has      *)
(* accepted, and a reconnecting run uses the identity that was saved.      *)
(***************************************************************************)
SessionIsPaired ==
  /\ stage \in {"saving", "writing", "client", "serving"} => identity \in paired
  /\ stage \notin {"off", "dialing"} /\ options.mode = "IK"
       => file = [owner |-> identity, whole |-> TRUE]

(***************************************************************************)
(* A complete pairing is lost only to --fresh: no failed reconnect, crash  *)
(* or later pairing overwrites it, and it never becomes partial.           *)
(***************************************************************************)
PairingKept ==
  [][file.whole /\ file' # file => stage = "off" /\ file' = Absent]_vars

=============================================================================
