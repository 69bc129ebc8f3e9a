---------------------------- MODULE LifecycleProofs ----------------------------
(***************************************************************************)
(* What holds of Lifecycle for any set of identities and any length of its *)
(* queues.  The argument follows an identity from the device, which alone  *)
(* accepts it, through the status queue to the stage of run() that writes  *)
(* it to the file; and the mode of a run, which says what the file is.     *)
(***************************************************************************)
EXTENDS Lifecycle, TLAPS

USE LifecycleAssumption

Linked == stage \notin {"off", "dialing"}

(* A "Connected" in the queue, and all that follows it, has the device behind it. *)
StatusesTrue ==
  /\ ~ Linked => statuses = <<>>
  /\ \A k \in 1 .. Len(statuses) : statuses[k] = "Connected" => identity \in paired

IdentityKnown ==
  /\ devicePeer \in paired \cup {NoIdentity}
  /\ Linked => identity \in Identity
  /\ stage \in {"saving", "writing", "client", "serving"} => identity \in paired

(* The mode was chosen by the file, and an XX run writes it only once. *)
FileByMode ==
  /\ stage = "dialing" => (options.mode = "XX") = (file = Absent)
  /\ stage \in {"pairing", "saving"} /\ options.mode = "XX" => file = Absent
  /\ stage \in {"saving", "writing"} => options.mode = "XX"
  /\ stage = "writing" => file = [owner |-> identity, whole |-> FALSE]
  /\ Linked /\ options.mode = "IK" => file = [owner |-> identity, whole |-> TRUE]

Inv == TypeOK /\ StatusesTrue /\ IdentityKnown /\ FileByMode /\ SavedWasPaired

LEMMA FreshOptions == [mode |-> "XX", serve |-> FALSE, token |-> FALSE] \in Options
BY DEF Options

LEMMA AbsentType ==
  /\ Absent \in [owner : Identity \cup {NoIdentity}, whole : BOOLEAN]
  /\ Absent.owner = NoIdentity /\ Absent.whole = FALSE
BY DEF Absent

LEMMA InvInit == Init => Inv
<1> SUFFICES ASSUME Init PROVE Inv
  OBVIOUS
<1>1. TypeOK
  <2>1. options \in Options /\ file \in [owner : Identity \cup {NoIdentity}, whole : BOOLEAN]
    BY AbsentType, FreshOptions DEF Init
  <2>2. statuses \in Seq({"Connected", "Disconnected"}) /\ Len(statuses) <= MaxQueue
    BY DEF Init
  <2>3. inbox \in 0 .. MaxQueue /\ stage \in Stage
    BY DEF Init, Stage
  <2> QED
    BY <2>1, <2>2, <2>3 DEF Init, TypeOK
<1>2. StatusesTrue /\ IdentityKnown
  BY DEF Init, StatusesTrue, IdentityKnown, Linked
<1>3. FileByMode /\ SavedWasPaired
  BY DEF Init, FileByMode, SavedWasPaired, Linked, Exists, Absent
<1> QED
  BY <1>1, <1>2, <1>3 DEF Inv

-----------------------------------------------------------------------------
(* Every way out of run() leaves the same state, and the file as it is. *)
LEMMA ExitKeeps == Inv /\ Exit /\ UNCHANGED <<file, deviceVars, minted>> => Inv'
<1> SUFFICES ASSUME Inv, Exit, UNCHANGED <<file, deviceVars, minted>> PROVE Inv'
  OBVIOUS
<1>1. TypeOK'
  <2>1. options' \in Options
    BY FreshOptions DEF Exit
  <2>2. statuses' \in Seq({"Connected", "Disconnected"}) /\ Len(statuses') <= MaxQueue
    BY DEF Exit
  <2>3. inbox' \in 0 .. MaxQueue /\ stage' \in Stage
    BY DEF Exit, Stage
  <2> QED
    BY <2>1, <2>2, <2>3 DEF Inv, TypeOK, Exit, deviceVars
<1>2. StatusesTrue' /\ IdentityKnown'
  BY DEF Inv, StatusesTrue, IdentityKnown, Linked, Exit, deviceVars
<1>3. FileByMode' /\ SavedWasPaired'
  BY DEF Inv, FileByMode, SavedWasPaired, Linked, Exists, Exit, Absent, deviceVars
<1> QED
  BY <1>1, <1>2, <1>3 DEF Inv

LEMMA StartKeeps ==
  ASSUME Inv, NEW fresh \in BOOLEAN, NEW serve \in BOOLEAN, NEW token \in BOOLEAN,
         Start(fresh, serve, token)
  PROVE  Inv'
<1>1. TypeOK'
  BY AbsentType DEF Inv, TypeOK, Start, deviceVars, Stage, Options
<1>2. StatusesTrue' /\ IdentityKnown'
  BY DEF Inv, StatusesTrue, IdentityKnown, Linked, Start, deviceVars
<1>3. FileByMode' /\ SavedWasPaired'
  BY DEF Inv, FileByMode, SavedWasPaired, Linked, Exists, Start, Absent, deviceVars
<1> QED
  BY <1>1, <1>2, <1>3 DEF Inv

LEMMA PairingKeeps == Inv /\ (Reconnect \/ Pair) => Inv'
<1> SUFFICES ASSUME Inv, Reconnect \/ Pair PROVE Inv'
  OBVIOUS
<1>1. CASE Reconnect
  <2>1. file # Absent /\ file.owner \in paired /\ paired \subseteq Identity
    BY <1>1, AbsentType DEF Reconnect, Inv, SavedWasPaired, Exists, TypeOK
  <2>2. file = [owner |-> file.owner, whole |-> TRUE]
    BY <1>1 DEF Reconnect, Inv, TypeOK
  <2>3. TypeOK'
    BY <1>1, <2>1 DEF Inv, TypeOK, Reconnect, deviceVars, Stage
  <2>4. StatusesTrue' /\ IdentityKnown'
    BY <1>1, <2>1 DEF Inv, StatusesTrue, IdentityKnown, Linked, Reconnect, deviceVars
  <2>5. FileByMode' /\ SavedWasPaired'
    BY <1>1, <2>1, <2>2 DEF Inv, FileByMode, SavedWasPaired, Linked, Exists, Reconnect, deviceVars, Absent
  <2> QED
    BY <2>3, <2>4, <2>5 DEF Inv
<1>2. CASE Pair
  <2>1. TypeOK'
    BY <1>2 DEF Inv, TypeOK, Pair, deviceVars, Stage
  <2>2. StatusesTrue' /\ IdentityKnown'
    BY <1>2 DEF Inv, StatusesTrue, IdentityKnown, Linked, Pair, deviceVars
  <2>3. FileByMode' /\ SavedWasPaired'
    BY <1>2 DEF Inv, FileByMode, SavedWasPaired, Linked, Exists, Pair, deviceVars, Absent
  <2> QED
    BY <2>1, <2>2, <2>3 DEF Inv
<1> QED
  BY <1>1, <1>2

(* What the device accepts is accepted for good, whatever it forgets. *)
LEMMA DeviceKeeps == Inv /\ (DeviceAccepts \/ DeviceForgets) => Inv'
<1> SUFFICES ASSUME Inv, DeviceAccepts \/ DeviceForgets PROVE Inv'
  OBVIOUS
<1>1. paired \subseteq paired' /\ UNCHANGED <<file, minted, stage, processVars>>
  BY DEF DeviceAccepts, DeviceForgets
<1>2. TypeOK'
  BY <1>1 DEF Inv, TypeOK, DeviceAccepts, DeviceForgets, processVars, IdentityKnown, Linked
<1>3. StatusesTrue'
  BY <1>1 DEF Inv, StatusesTrue, Linked, processVars
<1>4. IdentityKnown'
  BY <1>1 DEF Inv, IdentityKnown, Linked, DeviceAccepts, DeviceForgets, processVars
<1>5. FileByMode' /\ SavedWasPaired'
  BY <1>1 DEF Inv, FileByMode, SavedWasPaired, Linked, Exists, Absent, processVars
<1> QED
  BY <1>2, <1>3, <1>4, <1>5 DEF Inv

(* A session starts only with the identity the device has last accepted. *)
LEMMA PeerChangeKeeps ==
  ASSUME Inv, NEW v \in {"Connected", "Disconnected"}, PeerChange(v)
  PROVE  Inv'
<1>1. /\ statuses' = Append(statuses, v) /\ Linked
      /\ UNCHANGED <<file, deviceVars, minted, stage, options, identity, bundle, inbox>>
  BY DEF PeerChange, Linked
<1>2. statuses \in Seq({"Connected", "Disconnected"}) /\ Len(statuses) < MaxQueue
  BY DEF Inv, TypeOK, PeerChange
<1>3. /\ statuses' \in Seq({"Connected", "Disconnected"}) /\ Len(statuses') <= MaxQueue
      /\ \A k \in 1 .. Len(statuses') : statuses'[k] = v \/ (k \in 1 .. Len(statuses) /\ statuses'[k] = statuses[k])
  BY <1>1, <1>2
<1>4. v = "Connected" => identity \in paired
  BY <1>1 DEF PeerChange, Inv, IdentityKnown
<1>5. TypeOK'
  BY <1>1, <1>3 DEF Inv, TypeOK, PeerChange, deviceVars
<1>6. StatusesTrue'
  BY <1>1, <1>3, <1>4 DEF Inv, StatusesTrue, Linked, deviceVars
<1>7. IdentityKnown' /\ FileByMode' /\ SavedWasPaired'
  BY <1>1 DEF Inv, IdentityKnown, FileByMode, SavedWasPaired, Linked, Exists, Absent, deviceVars
<1> QED
  BY <1>5, <1>6, <1>7 DEF Inv

LEMMA QueuesKeep == Inv /\ (PersistPeer \/ InboundStream \/ ServeStream) => Inv'
<1> SUFFICES ASSUME Inv, PersistPeer \/ InboundStream \/ ServeStream PROVE Inv'
  OBVIOUS
<1>1. UNCHANGED <<file, deviceVars, minted, stage, options, identity, peerStatus, statuses>>
  BY DEF PersistPeer, InboundStream, ServeStream
<1>2. bundle' \in BOOLEAN /\ inbox' \in 0 .. MaxQueue
  <2>1. bundle \in BOOLEAN /\ inbox \in 0 .. MaxQueue
    BY DEF Inv, TypeOK
  <2>2. CASE PersistPeer
    BY <2>1, <2>2 DEF PersistPeer
  <2>3. CASE InboundStream
    BY <2>1, <2>3 DEF InboundStream
  <2>4. CASE ServeStream
    BY <2>1, <2>4 DEF ServeStream
  <2> QED
    BY <2>2, <2>3, <2>4
<1>3. TypeOK'
  BY <1>1, <1>2 DEF Inv, TypeOK, deviceVars
<1>4. StatusesTrue' /\ IdentityKnown' /\ FileByMode' /\ SavedWasPaired'
  BY <1>1 DEF Inv, StatusesTrue, IdentityKnown, FileByMode, SavedWasPaired, Linked, Exists, Absent, deviceVars
<1> QED
  BY <1>3, <1>4 DEF Inv

LEMMA AwaitStatusKeeps == Inv /\ AwaitStatus => Inv'
<1> SUFFICES ASSUME Inv, AwaitStatus PROVE Inv'
  OBVIOUS
<1>1. /\ statuses # <<>> /\ statuses \in Seq({"Connected", "Disconnected"})
      /\ statuses' = Tail(statuses) /\ Len(statuses) <= MaxQueue
      /\ UNCHANGED <<file, deviceVars, minted, options, identity, peerStatus, bundle, inbox>>
      /\ stage = "pairing" /\ stage' \in {"pairing", "saving", "client", "serving"}
  BY DEF AwaitStatus, Inv, TypeOK, AfterSession
<1>2. /\ statuses' \in Seq({"Connected", "Disconnected"}) /\ Len(statuses') <= MaxQueue
      /\ \A k \in 1 .. Len(statuses') : k + 1 \in 1 .. Len(statuses) /\ statuses'[k] = statuses[k + 1]
      /\ 1 \in 1 .. Len(statuses) /\ Head(statuses) = statuses[1]
  BY <1>1
<1>3. stage' # "pairing" => identity \in paired
  BY <1>1, <1>2 DEF AwaitStatus, Inv, StatusesTrue
<1>4. stage' = "saving" => options.mode = "XX"
  BY DEF AwaitStatus, AfterSession
<1>5. TypeOK'
  BY <1>1, <1>2 DEF Inv, TypeOK, Stage, deviceVars
<1>6. StatusesTrue'
  BY <1>1, <1>2 DEF Inv, StatusesTrue, Linked, deviceVars
<1>7. IdentityKnown'
  BY <1>1, <1>3 DEF Inv, IdentityKnown, Linked, deviceVars
<1>8. FileByMode' /\ SavedWasPaired'
  BY <1>1, <1>4 DEF Inv, FileByMode, SavedWasPaired, Linked, Exists, Absent, deviceVars
<1> QED
  BY <1>5, <1>6, <1>7, <1>8 DEF Inv

LEMMA SavingKeeps == Inv /\ (OpenFile \/ FillFile \/ NoBundle) => Inv'
<1> SUFFICES ASSUME Inv, OpenFile \/ FillFile \/ NoBundle PROVE Inv'
  OBVIOUS
<1>1. UNCHANGED <<deviceVars, minted, options, identity, peerStatus, statuses, inbox>>
  BY DEF OpenFile, FillFile, NoBundle, processVars
<1>2. /\ stage \in {"saving", "writing"} /\ stage' \in {"writing", "client", "serving"}
      /\ options.mode = "XX" /\ identity \in paired /\ bundle' \in BOOLEAN
  BY DEF OpenFile, FillFile, NoBundle, processVars, AfterSession, Inv, FileByMode, IdentityKnown, TypeOK
<1>3. \/ file' = [owner |-> identity, whole |-> FALSE] /\ stage' = "writing"
      \/ file' = [owner |-> identity, whole |-> TRUE] /\ stage' # "writing"
      \/ file' = file /\ stage' # "writing"
  <2>1. CASE FillFile
    <3>1. file = [owner |-> identity, whole |-> FALSE]
      BY <2>1 DEF FillFile, Inv, FileByMode
    <3> QED
      BY <2>1, <3>1 DEF FillFile, AfterSession
  <2> QED
    BY <2>1 DEF OpenFile, NoBundle, AfterSession
<1>4. TypeOK'
  <2>1. file' \in [owner : Identity \cup {NoIdentity}, whole : BOOLEAN]
    <3>1. file \in [owner : Identity \cup {NoIdentity}, whole : BOOLEAN] /\ identity \in Identity \cup {NoIdentity}
      BY DEF Inv, TypeOK
    <3>2. \A w \in BOOLEAN : [owner |-> identity, whole |-> w] \in [owner : Identity \cup {NoIdentity}, whole : BOOLEAN]
      BY <3>1
    <3> QED
      BY <1>3, <3>1, <3>2
  <2> QED
    BY <1>1, <1>2, <2>1 DEF Inv, TypeOK, Stage, deviceVars
<1>5. StatusesTrue' /\ IdentityKnown'
  BY <1>1, <1>2 DEF Inv, StatusesTrue, IdentityKnown, Linked, deviceVars
<1>6. FileByMode' /\ SavedWasPaired'
  BY <1>1, <1>2, <1>3 DEF Inv, FileByMode, SavedWasPaired, Linked, Exists, Absent, deviceVars
<1> QED
  BY <1>4, <1>5, <1>6 DEF Inv

LEMMA InvNext == Inv /\ [Next]_vars => Inv'
<1> SUFFICES ASSUME Inv, [Next]_vars PROVE Inv'
  OBVIOUS
<1>1. CASE \E fresh, serve, token \in BOOLEAN : Start(fresh, serve, token)
  BY <1>1, StartKeeps
<1>2. CASE Reconnect \/ Pair
  BY <1>2, PairingKeeps
<1>3. CASE StartFails \/ GiveUp \/ Stop
  BY <1>3, ExitKeeps DEF StartFails, GiveUp, Stop
<1>4. CASE DeviceAccepts \/ DeviceForgets
  BY <1>4, DeviceKeeps
<1>5. CASE PersistPeer \/ InboundStream \/ ServeStream
  BY <1>5, QueuesKeep
<1>6. CASE \E v \in {"Connected", "Disconnected"} : PeerChange(v)
  BY <1>6, PeerChangeKeeps
<1>7. CASE AwaitStatus
  BY <1>7, AwaitStatusKeeps
<1>8. CASE OpenFile \/ FillFile \/ NoBundle
  BY <1>8, SavingKeeps
<1>9. CASE UNCHANGED vars
  BY <1>9 DEF vars, deviceVars, processVars, Inv, TypeOK, StatusesTrue, IdentityKnown,
              FileByMode, SavedWasPaired, Linked, Exists, Absent
<1> QED
  BY <1>1, <1>2, <1>3, <1>4, <1>5, <1>6, <1>7, <1>8, <1>9 DEF Next

LEMMA InvAlways == Spec => []Inv
BY InvInit, InvNext, PTL DEF Spec

-----------------------------------------------------------------------------
(***************************************************************************)
(* The processes and the file stay in known states over any sequence of    *)
(* runs, crashes included (run, the state file).                           *)
(***************************************************************************)
THEOREM TypeCorrect == Spec => []TypeOK
<1>1. Inv => TypeOK
  BY DEF Inv
<1> QED
  BY <1>1, InvAlways, PTL

(***************************************************************************)
(* The state file never names an identity that the device has not          *)
(* accepted (pair, await_status, save_state).                              *)
(***************************************************************************)
THEOREM SavedPaired == Spec => []SavedWasPaired
<1>1. Inv => SavedWasPaired
  BY DEF Inv
<1> QED
  BY <1>1, InvAlways, PTL

(***************************************************************************)
(* A run believes in its session only with an accepted identity, and a     *)
(* reconnecting run uses the saved one (await_status, load_state).         *)
(***************************************************************************)
THEOREM SessionPaired == Spec => []SessionIsPaired
<1>1. Inv => SessionIsPaired
  BY DEF Inv, SessionIsPaired, IdentityKnown, FileByMode, Linked
<1> QED
  BY <1>1, InvAlways, PTL

(***************************************************************************)
(* A complete pairing is lost only to --fresh (run, save_state).           *)
(***************************************************************************)
THEOREM PairingStays == Spec => PairingKept
<1>1. Inv /\ [Next]_vars => [file.whole /\ file' # file => stage = "off" /\ file' = Absent]_vars
  <2> SUFFICES ASSUME Inv, Next, file.whole, file' # file
      PROVE  stage = "off" /\ file' = Absent
    OBVIOUS
  <2>1. CASE \E fresh, serve, token \in BOOLEAN : Start(fresh, serve, token)
    BY <2>1 DEF Start
  <2>2. CASE OpenFile
    BY <2>2, AbsentType DEF OpenFile, Inv, FileByMode
  <2>3. CASE FillFile
    BY <2>3 DEF FillFile, Inv, FileByMode
  <2> QED
    BY <2>1, <2>2, <2>3
       DEF Next, Reconnect, Pair, StartFails, DeviceAccepts, DeviceForgets, PersistPeer,
           InboundStream, PeerChange, AwaitStatus, GiveUp, NoBundle, ServeStream, Stop
<1> QED
  BY <1>1, InvAlways, PTL DEF Spec, PairingKept

=============================================================================
