---------------------------- MODULE McpEventsProofs ----------------------------
(***************************************************************************)
(* What holds of McpEvents for any number of streams and receivers'        *)
(* positions, any capacity of the broadcast and of a stream's channel, any *)
(* length of the history and any bounds on events and pushes.              *)
(*                                                                         *)
(* No property of McpEvents is inductive.  IInv joins the parts they need: *)
(* where each receiver stands (Positions), what the loops have before they *)
(* run (Fresh), which chats were asked about (Questions), what the device  *)
(* was sent and what is in hand (Lines), that all that is due still fits   *)
(* (Bounded), the pushes in the log (Announced), the newest status event   *)
(* (Snapshot), and each stream from registration on (Streams).             *)
(***************************************************************************)
EXTENDS McpEvents, TLAPS, SequenceTheorems, FiniteSetTheorems

-----------------------------------------------------------------------------
(* Where the receivers stand in the log. *)
Positions ==
  /\ \A r \in Receiver :
       /\ from[r] <= cursor[r] /\ cursor[r] <= Len(log) + 1
       /\ from[r] = 0 => cursor[r] = 0
       /\ task[r] = "running" => from[r] # 0
       /\ held[r] # 0 => held[r] = cursor[r] - 1
  /\ \A r \in {Recorder, AutoReply} : held[r] = 0

(* The loops are spawned once, and the recorder's records begin empty. *)
Fresh ==
  /\ stage # "serving" => task[Recorder] = "off" /\ task[AutoReply] = "off"
  /\ task[Recorder] \in {"off", "spawned"} => history = <<>> /\ status = "None"

(* Every chat asked about was received, and the last one is the newest. *)
Questions ==
  /\ asking # 0 => asking \in asked
  /\ \A n \in asked : n \in 1 .. Len(log) /\ n < cursor[AutoReply] /\ log[n].kind = "received"
  /\ asking # 0 => \A n \in asked : n <= asking

(***************************************************************************)
(* A line in hand was given to the device, and an automatic one is the     *)
(* answer under way.  Automatic lines answer chats asked about, in order.  *)
(***************************************************************************)
Lines ==
  /\ \A p \in sent : /\ p.by # "line"
                     /\ \E i \in 1 .. Len(device) : device[i] = p
                     /\ p.by = "auto" => p.n = asking
  /\ \A i \in 1 .. Len(device) :
       IF device[i].by = "auto"
       THEN /\ device[i].n \in asked
            /\ asking # 0 => device[i].n < asking \/ device[i] \in sent
       ELSE device[i].n = i
  /\ \A i, j \in 1 .. Len(device) :
       i < j /\ device[i].by = "auto" /\ device[j].by = "auto" => device[i].n < device[j].n

ClientLines == {i \in 1 .. Len(device) : device[i].by # "auto"}

(* What is due still fits the bounds on the log and on the device. *)
Bounded ==
  /\ IsFiniteSet(sent)
  /\ Len(log) + Due <= MaxEvents
  /\ Cardinality(ClientLines) <= MaxPushes

(* What was announced was sent, and is not announced again. *)
Announced ==
  /\ \A n \in 1 .. Len(log) : log[n].kind = "pushed" =>
       LET p == log[n].push
       IN  /\ p \notin sent
           /\ \E i \in 1 .. Len(device) : device[i] = p
           /\ p.by = "auto" => /\ p.n \in asked /\ p.n < n
                               /\ asking # 0 => p.n < asking
  /\ \A m, n \in 1 .. Len(log) :
       m < n /\ log[m].kind = "pushed" /\ log[n].kind = "pushed" =>
         /\ log[m].push # log[n].push
         /\ log[m].push.by = "auto" /\ log[n].push.by = "auto" => log[m].push.n < log[n].push.n

(***************************************************************************)
(* The newest status event is the runtime's state; the snapshot is that of *)
(* the newest one consumed.                                                *)
(***************************************************************************)
NewestStatus(n, m) ==
  /\ n \in 1 .. m /\ log[n].kind = "status"
  /\ \A k \in n + 1 .. m : log[k].kind # "status"

Snapshot ==
  /\ \A n \in 1 .. Len(log) :
       NewestStatus(n, Len(log)) /\ ~ announcing => log[n].peer = peerStatus
  /\ status # "None" =>
       \E n \in 1 .. Len(log) : /\ NewestStatus(n, cursor[Recorder] - 1)
                                /\ log[n].peer = status

(* A stream that is not open yet has nothing of the broadcast. *)
Unopened(s) ==
  /\ task[s] = "off" /\ held[s] = 0
  /\ received[s] = <<>> /\ Notes(s) = {}

Streams ==
  /\ \A s \in Session : task[s] # "spawned"
  /\ \A s \in Session : conn[s] \in {"none", "registered", "primary"} => Unopened(s)
  /\ NotificationsUnbroken

IInv ==
  /\ TypeOK /\ Positions /\ Fresh /\ Questions /\ Lines /\ Bounded /\ Announced
  /\ Snapshot /\ Streams /\ HistoryFaithful

-----------------------------------------------------------------------------
(* Lemmas on the model's operators: the events, the queues, and Newest. *)
LEMMA NewEvents ==
  /\ Received \in Event /\ Received.kind = "received"
  /\ Other \in Event /\ Other.kind = "other"
  /\ \A p \in Push : Pushed(p) \in Event /\ Pushed(p).kind = "pushed" /\ Pushed(p).push = p
  /\ \A v \in PeerStatus : /\ Changed(v) \in Event /\ Changed(v).kind = "status"
                           /\ Changed(v).peer = v
BY DEF Event, Received, Other, Pushed, Changed

LEMMA EventShape ==
  ASSUME NEW e \in Event
  PROVE  /\ e.kind \in {"received", "pushed", "status", "other"}
         /\ e.kind = "pushed" => e.push \in Push
         /\ e.kind = "status" => e.peer \in PeerStatus
         /\ e.kind = "received" => e = Received
BY DEF Event, Received, Pushed, Changed

LEMMA AppendFacts ==
  ASSUME NEW S, NEW q \in Seq(S), NEW e \in S
  PROVE  /\ Append(q, e) \in Seq(S)
         /\ Len(q) \in Nat /\ Len(Append(q, e)) = Len(q) + 1
         /\ \A i \in 1 .. Len(q) : Append(q, e)[i] = q[i]
         /\ Append(q, e)[Len(q) + 1] = e
BY AppendProperties

(* Newest keeps the end of a sequence. *)
LEMMA NewestFacts ==
  ASSUME NEW S, NEW q \in Seq(S), NEW n \in Nat
  PROVE  /\ Newest(n, q) \in Seq(S)
         /\ Len(Newest(n, q)) = IF Len(q) > n THEN n ELSE Len(q)
         /\ Len(q) \in Nat
         /\ \A i \in 1 .. Len(Newest(n, q)) :
              Newest(n, q)[i] = q[i + (Len(q) - Len(Newest(n, q)))]
<1>1. Len(q) \in Nat /\ \A i \in 1 .. Len(q) : q[i] \in S
  BY LenProperties, ElementOfSeq
<1>2. CASE Len(q) > n
  <2> DEFINE a == Len(q) - n + 1
  <2>1. a \in Int /\ Len(q) \in Int /\ \A i \in a .. Len(q) : q[i] \in S
    BY <1>1, <1>2
  <2>2. /\ SubSeq(q, a, Len(q)) \in Seq(S)
        /\ Len(SubSeq(q, a, Len(q))) = IF a <= Len(q) THEN Len(q) - a + 1 ELSE 0
        /\ \A i \in 1 .. Len(q) - a + 1 : SubSeq(q, a, Len(q))[i] = q[a + i - 1]
    <3> HIDE DEF a
    <3> QED BY <2>1, SubSeqProperties
  <2>3. Len(SubSeq(q, a, Len(q))) = n /\ Len(q) - a + 1 = n
    BY <1>1, <1>2, <2>2
  <2>4. Newest(n, q) = SubSeq(q, a, Len(q))
    BY <1>2 DEF Newest
  <2>5. \A i \in 1 .. n : a + i - 1 = i + (Len(q) - n)
    BY <1>1
  <2> HIDE DEF a
  <2> QED
    BY <1>1, <1>2, <2>2, <2>3, <2>4, <2>5
<1>3. CASE ~ (Len(q) > n)
  <2>1. Newest(n, q) = q
    BY <1>3 DEF Newest
  <2>2. Len(q) - Len(q) = 0 /\ \A i \in 1 .. Len(q) : i + 0 = i
    BY <1>1
  <2> QED
    BY <1>1, <1>3, <2>1, <2>2
<1> QED
  BY <1>2, <1>3

(* A queue of a stream keeps its type and its bound. *)
LEMMA EnqueueType ==
  ASSUME chan \in [Session -> Seq(Message)],
         \A r \in Session : Len(chan[r]) <= SseCapacity,
         NEW s \in Session, NEW m \in Message, Enqueue(s, m)
  PROVE  /\ chan' \in [Session -> Seq(Message)]
         /\ \A r \in Session : Len(chan'[r]) <= SseCapacity
<1>1. chan[s] \in Seq(Message)
  OBVIOUS
<1>2. /\ Append(chan[s], m) \in Seq(Message) /\ Len(chan[s]) \in Nat
      /\ Len(Append(chan[s], m)) = Len(chan[s]) + 1
  BY <1>1, AppendFacts
<1>3. Len(Append(chan[s], m)) <= SseCapacity
  BY <1>2, SessionAssumption DEF Enqueue
<1> QED
  BY <1>2, <1>3 DEF Enqueue

LEMMA ReadType ==
  ASSUME chan \in [Session -> Seq(Message)],
         \A r \in Session : Len(chan[r]) <= SseCapacity,
         NEW s \in Session, ClientRead(s)
  PROVE  /\ chan' \in [Session -> Seq(Message)]
         /\ \A r \in Session : Len(chan'[r]) <= SseCapacity
         /\ Head(chan[s]) \in Message
<1>1. chan[s] \in Seq(Message) /\ chan[s] # <<>>
  BY DEF ClientRead
<1>2. /\ Head(chan[s]) \in Message /\ Tail(chan[s]) \in Seq(Message)
      /\ Len(Tail(chan[s])) = Len(chan[s]) - 1 /\ Len(chan[s]) \in Nat
  BY <1>1, HeadTailProperties, LenProperties
<1>3. Len(Tail(chan[s])) <= SseCapacity
  BY <1>2, SessionAssumption
<1> QED
  BY <1>2, <1>3 DEF ClientRead

LEMMA MessageKinds ==
  /\ Endpoint \in Message /\ Endpoint.kind = "endpoint"
  /\ SamplingRequest(0) \in Message /\ SamplingRequest(0).kind = "sampling"
  /\ \A n \in 1 .. MaxEvents : /\ Notification(n) \in Message
                               /\ Notification(n).kind = "notification"
                               /\ Notification(n).event = n
  /\ \A m \in Message : m.kind = "notification" => m.event \in 1 .. MaxEvents
<1>1. Endpoint \in Message /\ Endpoint.kind = "endpoint"
  BY DEF Message, Endpoint
<1>2. SamplingRequest(0) \in Message /\ SamplingRequest(0).kind = "sampling"
  BY DEF Message, SamplingRequest
<1>3. \A n \in 1 .. MaxEvents : /\ Notification(n) \in Message
                                /\ Notification(n).kind = "notification"
                                /\ Notification(n).event = n
  BY DEF Message, Notification
<1>4. ASSUME NEW m \in Message, m.kind = "notification" PROVE m.event \in 1 .. MaxEvents
  <2>1. m # Endpoint /\ m # SamplingRequest(0)
    BY <1>4 DEF Endpoint, SamplingRequest
  <2>2. PICK n \in 1 .. MaxEvents : m = Notification(n)
    BY <2>1 DEF Message
  <2> QED
    BY <2>2, <1>3
<1> QED
  BY <1>1, <1>2, <1>3, <1>4

-----------------------------------------------------------------------------
(* Counting: the bounds of the model leave room for what is due. *)
Telling  == IF announcing THEN 1 ELSE 0
Replying == IF asking # 0 /\ [by |-> "auto", n |-> asking] \notin sent THEN 1 ELSE 0

LEMMA DueFacts ==
  ASSUME TypeOK, Bounded
  PROVE  /\ IsFiniteSet(ChatsAhead) /\ Cardinality(ChatsAhead) \in Nat
         /\ Cardinality(sent) \in Nat /\ Len(log) \in Nat /\ Due \in Nat
         /\ Due = Cardinality(sent) + Cardinality(ChatsAhead)
                    + Telling + Replying
         /\ announcing => Len(log) + 1 <= MaxEvents
         /\ sent # {} => Len(log) + 1 <= MaxEvents
         /\ \A k \in {1, 2} : Room(k) => Len(log) + k <= MaxEvents
<1>1. Len(log) \in Nat /\ cursor[AutoReply] \in Int
  <2>1. cursor[AutoReply] \in Position
    BY DEF TypeOK, Receiver
  <2> QED
    BY <2>1, LenProperties, EventsAssumption DEF TypeOK, Position
<1>2. IsFiniteSet(ChatsAhead)
  <2>1. IsFiniteSet(cursor[AutoReply] .. Len(log))
    BY <1>1, FS_Interval
  <2>2. ChatsAhead \in SUBSET (cursor[AutoReply] .. Len(log))
    BY DEF ChatsAhead
  <2> QED
    BY <2>1, <2>2, FS_Subset
<1>3. Cardinality(ChatsAhead) \in Nat
  BY <1>2, FS_CardinalityType
<1>4. Cardinality(sent) \in Nat /\ (sent # {} => Cardinality(sent) # 0)
  BY FS_CardinalityType, FS_EmptySet DEF Bounded
<1>5. Due = Cardinality(sent) + Cardinality(ChatsAhead)
              + Telling + Replying
  BY DEF Due, Replying, Telling
<1>6. Replying \in {0, 1} /\ Telling \in {0, 1}
      /\ (announcing => Telling = 1)
  BY DEF Replying, Telling
<1>7. Len(log) + Due <= MaxEvents /\ MaxEvents \in Nat
  BY EventsAssumption DEF Bounded
<1> DEFINE A == Telling
           B == Cardinality(sent)
           C == Cardinality(ChatsAhead)
<1>8. Due = B + C + A + Replying /\ A \in {0, 1} /\ (announcing => A = 1) /\ B \in Nat /\ C \in Nat
      /\ (sent # {} => B # 0)
  BY <1>3, <1>4, <1>5, <1>6
<1> HIDE DEF A, B, C
<1>9. /\ Due \in Nat
      /\ announcing => Len(log) + 1 <= MaxEvents
      /\ sent # {} => Len(log) + 1 <= MaxEvents
      /\ \A k \in {1, 2} : Len(log) + Due + k <= MaxEvents => Len(log) + k <= MaxEvents
  BY <1>1, <1>6, <1>7, <1>8
<1> QED
  BY <1>1, <1>2, <1>3, <1>4, <1>5, <1>9 DEF Room

LEMMA DeviceRoom ==
  ASSUME TypeOK, Questions, Lines, Bounded
  PROVE  /\ Cardinality(ClientLines) \in Nat
         /\ Len(device) <= MaxEvents + Cardinality(ClientLines)
<1> DEFINE L == 1 .. Len(device)
           Replies == {i \in L : device[i].by = "auto"}
           f == [i \in Replies |-> device[i].n]
<1>1. Len(device) \in Nat /\ Len(log) \in Nat /\ MaxEvents \in Nat /\ Len(log) <= MaxEvents
  BY LenProperties, EventsAssumption DEF TypeOK
<1>2. IsFiniteSet(L) /\ Cardinality(L) = Len(device)
  <2>1. 1 \in Int /\ Len(device) \in Int
    BY <1>1
  <2>2. /\ IsFiniteSet(1 .. Len(device))
        /\ Cardinality(1 .. Len(device)) = IF 1 > Len(device) THEN 0 ELSE Len(device) - 1 + 1
    BY <2>1, FS_Interval
  <2>3. (IF 1 > Len(device) THEN 0 ELSE Len(device) - 1 + 1) = Len(device)
    BY <1>1
  <2> QED
    BY <2>2, <2>3
<1>3. IsFiniteSet(Replies) /\ IsFiniteSet(ClientLines)
  BY <1>2, FS_Subset DEF ClientLines
<1>4. Cardinality(L) = Cardinality(Replies) + Cardinality(ClientLines)
  <2>1. L = Replies \cup ClientLines /\ Replies \cap ClientLines = {}
    BY DEF ClientLines
  <2>2. Cardinality(Replies) \in Nat /\ Cardinality(ClientLines) \in Nat /\ Cardinality({}) = 0
    BY <1>3, FS_CardinalityType, FS_EmptySet
  <2>3. Cardinality(Replies \cup ClientLines) =
          Cardinality(Replies) + Cardinality(ClientLines) - Cardinality(Replies \cap ClientLines)
    BY <1>3, FS_Union
  <2>4. \A a, b \in Nat : a + b - 0 = a + b
    OBVIOUS
  <2> HIDE DEF Replies, L
  <2>5. Cardinality(L) = Cardinality(Replies) + Cardinality(ClientLines) - 0
    BY <2>1, <2>2, <2>3
  <2> QED
    BY <2>2, <2>4, <2>5
<1>5. f \in Injection(Replies, 1 .. MaxEvents)
  <2>1. \A i \in Replies : device[i].n \in 1 .. MaxEvents
    <3>1. \A i \in Replies : device[i].n \in asked
      BY DEF Lines
    <3>2. \A n \in asked : n \in 1 .. Len(log)
      BY DEF Questions
    <3> QED
      BY <1>1, <3>1, <3>2
  <2>2. \A i, j \in Replies : device[i].n = device[j].n => i = j
    <3>1. \A i, j \in Replies : i < j => device[i].n < device[j].n
      BY DEF Lines
    <3>2. \A i, j \in Replies : i \in Nat /\ j \in Nat /\ (i # j => i < j \/ j < i)
      BY <1>1
    <3>3. \A i \in Replies : device[i].n \in Nat
      BY <2>1
    <3> QED
      BY <3>1, <3>2, <3>3
  <2> QED
    BY <2>1, <2>2 DEF Injection, IsInjective
<1>6. IsFiniteSet(1 .. MaxEvents) /\ Cardinality(1 .. MaxEvents) = MaxEvents
  BY <1>1, FS_Interval
<1>7. Cardinality(Replies) <= MaxEvents
  <2> HIDE DEF Replies, f
  <2> QED
    BY <1>5, <1>6, FS_Injection
<1>8. Cardinality(Replies) \in Nat /\ Cardinality(ClientLines) \in Nat
  BY <1>3, FS_CardinalityType
<1> HIDE DEF Replies, L
<1> QED
  BY <1>1, <1>2, <1>4, <1>7, <1>8

-----------------------------------------------------------------------------
(* Types. *)
LEMMA PublishType ==
  ASSUME TypeOK, NEW e \in Event, Publish(e), Len(log) + 1 <= MaxEvents
  PROVE  log' \in Seq(Event) /\ Len(log') <= MaxEvents
BY AppendFacts DEF TypeOK, Publish

LEMMA ToDeviceType ==
  ASSUME TypeOK, NEW p \in Push, ToDevice(p)
  PROVE  device' \in Seq(Push) /\ sent' \subseteq Push
BY AppendFacts DEF TypeOK, ToDevice

LEMMA SubscribeType ==
  ASSUME TypeOK, NEW r \in Receiver, Subscribe(r)
  PROVE  /\ from' \in [Receiver -> Position] /\ cursor' \in [Receiver -> Position]
         /\ task' \in [Receiver -> {"off", "spawned", "running", "stopped"}]
<1>1. Len(log) + 1 \in Position
  BY LenProperties, EventsAssumption DEF TypeOK, Position
<1> QED
  BY <1>1 DEF TypeOK, Subscribe

LEMMA ReceiveType ==
  ASSUME TypeOK, Positions, NEW r \in Receiver, Receive(r)
  PROVE  /\ cursor' \in [Receiver -> Position]
         /\ cursor[r] \in 1 .. Len(log) /\ log[cursor[r]] \in Event
         /\ cursor[r] \in 1 .. MaxEvents
<1>1. Len(log) \in Nat /\ MaxEvents \in Nat /\ Len(log) <= MaxEvents
  BY LenProperties, EventsAssumption DEF TypeOK
<1>2. cursor[r] \in 0 .. MaxEvents + 1 /\ from[r] \in 0 .. MaxEvents + 1
  BY DEF TypeOK, Position
<1>3. cursor[r] <= Len(log)
  BY <1>1, <1>2 DEF Receive, Unread
<1>4. from[r] # 0 /\ from[r] <= cursor[r]
  BY DEF Positions, Receive
<1>5. cursor[r] \in 1 .. Len(log) /\ cursor[r] \in 1 .. MaxEvents
  BY <1>1, <1>2, <1>3, <1>4
<1>6. cursor[r] + 1 \in Position
  BY <1>1, <1>5 DEF Position
<1>7. cursor' = [cursor EXCEPT ![r] = cursor[r] + 1]
  BY DEF Receive
<1> QED
  BY <1>5, <1>6, <1>7, ElementOfSeq DEF TypeOK

LEMMA RecordChatType ==
  ASSUME TypeOK, NEW n \in 1 .. MaxEvents, log[n].kind \in Chat, RecordChat(n)
  PROVE  history' \in Seq([kind : Chat, n : Position]) /\ Len(history') <= HistoryLimit
<1> DEFINE S == [kind : Chat, n : Position]
           e == [kind |-> log[n].kind, n |-> n]
           q == Append(history, e)
<1>1. e \in S
  BY EventsAssumption DEF Position
<1>2. history \in Seq(S)
  BY DEF TypeOK
<1>3. q \in Seq(S) /\ HistoryLimit \in Nat
  BY <1>1, <1>2, AppendFacts, EventsAssumption
<1>4. history' = Newest(HistoryLimit, q)
  BY DEF RecordChat
<1> HIDE DEF S, q
<1>5. /\ Newest(HistoryLimit, q) \in Seq(S)
      /\ Len(Newest(HistoryLimit, q)) = IF Len(q) > HistoryLimit THEN HistoryLimit ELSE Len(q)
      /\ Len(q) \in Nat
  BY <1>3, NewestFacts
<1>6. Len(Newest(HistoryLimit, q)) <= HistoryLimit
  BY <1>3, <1>5
<1> QED
  BY <1>4, <1>5, <1>6 DEF S

LEMMA TypeInit == Init => TypeOK
<1> SUFFICES ASSUME Init PROVE TypeOK
  OBVIOUS
<1>1. chan \in [Session -> Seq(Message)] /\ \A s \in Session : Len(chan[s]) <= SseCapacity
  BY EmptySeq, SessionAssumption DEF Init, SessionsInit
<1>2. 0 \in Position
  BY EventsAssumption DEF Position
<1>3. /\ log \in Seq(Event) /\ Len(log) <= MaxEvents
      /\ history \in Seq([kind : Chat, n : Position]) /\ Len(history) <= HistoryLimit
      /\ device \in Seq(Push) /\ received \in [Session -> Seq(Position)]
  BY EmptySeq, EventsAssumption DEF Init, EventsInit
<1> QED
  BY <1>1, <1>2, <1>3, EventsAssumption DEF Init, SessionsInit, EventsInit, TypeOK, ConnState

LEMMA TypeNext ==
  TypeOK /\ Positions /\ Questions /\ Lines /\ Bounded /\ [Next]_vars => TypeOK'
<1> SUFFICES ASSUME TypeOK, Positions, Questions, Lines, Bounded, [Next]_vars PROVE TypeOK'
  OBVIOUS
<1>0. {Recorder, AutoReply} \subseteq Receiver /\ Session \subseteq Receiver
  BY DEF Receiver
<1>1. ASSUME NEW v \in PeerStatus, PeerChange(v) PROVE TypeOK'
  BY <1>1 DEF TypeOK, PeerChange, sessionVars, taskVars, recordVars, autoVars, pushVars
<1>2. CASE AnnouncePeer
  <2>1. peerStatus \in PeerStatus /\ Len(log) + 1 <= MaxEvents
    BY <1>2, DueFacts DEF TypeOK, AnnouncePeer
  <2>2. log' \in Seq(Event) /\ Len(log') <= MaxEvents
    BY <1>2, <2>1, NewEvents, PublishType DEF AnnouncePeer
  <2> QED
    BY <1>2, <2>2 DEF TypeOK, AnnouncePeer, sessionVars, taskVars, recordVars, autoVars, pushVars
<1>3. CASE Serve
  BY <1>3 DEF TypeOK, Serve, sessionVars, recordVars, autoVars, pushVars
<1>4. CASE ChatFromDevice \/ HandlerReport
  <2>1. Len(log) + 1 <= MaxEvents
    BY <1>4, DueFacts, EventsAssumption DEF ChatFromDevice, HandlerReport
  <2>2. log' \in Seq(Event) /\ Len(log') <= MaxEvents
    BY <1>4, <2>1, NewEvents, PublishType DEF ChatFromDevice, HandlerReport
  <2> QED
    BY <1>4, <2>2 DEF TypeOK, ChatFromDevice, HandlerReport, sessionVars, taskVars, recordVars,
                      autoVars, pushVars, peerVars
<1>5. ASSUME NEW r \in Receiver, StartTask(r) PROVE TypeOK'
  BY <1>5, SubscribeType DEF TypeOK, StartTask, sessionVars, recordVars, autoVars, pushVars, peerVars
<1>6. ASSUME NEW r \in Receiver, StopLagged(r) PROVE TypeOK'
  BY <1>6 DEF TypeOK, StopLagged, sessionVars, recordVars, autoVars, pushVars, peerVars
<1>7. CASE Record
  <2> DEFINE n == cursor[Recorder]
  <2>1. cursor' \in [Receiver -> Position] /\ n \in 1 .. MaxEvents /\ log[n] \in Event
    BY <1>0, <1>7, ReceiveType DEF Record
  <2>2. /\ history' \in Seq([kind : Chat, n : Position]) /\ Len(history') <= HistoryLimit
        /\ status' \in PeerStatus \cup {"None"}
    <3>1. CASE log[n].kind \in Chat /\ RecordChat(n) /\ UNCHANGED status
      BY <2>1, <3>1, RecordChatType DEF TypeOK
    <3>2. CASE log[n].kind = "status" /\ status' = log[n].peer /\ UNCHANGED history
      BY <2>1, <3>2, EventShape DEF TypeOK
    <3>3. CASE log[n].kind = "other" /\ UNCHANGED recordVars
      BY <3>3 DEF TypeOK, recordVars
    <3> QED
      BY <1>7, <3>1, <3>2, <3>3 DEF Record
  <2> HIDE DEF n
  <2> QED
    BY <1>7, <2>1, <2>2 DEF TypeOK, Record, Receive, sessionVars, autoVars, pushVars, peerVars
<1>8. CASE AutoReceive
  <2>1. cursor' \in [Receiver -> Position] /\ cursor[AutoReply] \in 1 .. MaxEvents
    BY <1>0, <1>8, ReceiveType DEF AutoReceive
  <2>2. cursor[AutoReply] \in Position
    BY <1>0 DEF TypeOK
  <2>3. asking' \in Position /\ asked' \subseteq Position
    BY <1>8, <2>2 DEF TypeOK, AutoReceive, autoVars
  <2> QED
    BY <1>8, <2>1, <2>3 DEF TypeOK, AutoReceive, Receive, sessionVars, recordVars, pushVars, peerVars
<1>9. CASE AutoFail
  <2>1. asking' \in Position
    BY <1>9, EventsAssumption DEF AutoFail, Position
  <2> QED
    BY <1>9, <2>1 DEF TypeOK, AutoFail, sessionVars, taskVars, recordVars, pushVars, peerVars
<1>10. CASE AutoPush
  <2>1. asking \in 1 .. Len(log) /\ Len(log) \in Nat /\ Len(log) <= MaxEvents
    BY <1>10, LenProperties DEF AutoPush, Questions, TypeOK
  <2>2. asking \in 1 .. MaxEvents + MaxPushes
    BY <2>1, EventsAssumption
  <2>3. [by |-> "auto", n |-> asking] \in Push
    BY <2>2 DEF Push
  <2>4. device' \in Seq(Push) /\ sent' \subseteq Push
    BY <1>10, <2>3, ToDeviceType DEF AutoPush
  <2> QED
    BY <1>10, <2>4 DEF TypeOK, AutoPush, sessionVars, taskVars, recordVars, autoVars, peerVars
<1>11. ASSUME NEW by \in {"tool", "line"}, ClientPush(by) PROVE TypeOK'
  <2>1. Len(device) \in Nat /\ MaxEvents \in Nat /\ MaxPushes \in Nat
    BY LenProperties, EventsAssumption DEF TypeOK
  <2>2. Cardinality(ClientLines) < MaxPushes
    BY <1>11 DEF ClientPush, ClientLines
  <2>3. Len(device) + 1 \in 1 .. MaxEvents + MaxPushes
    BY <2>1, <2>2, DeviceRoom
  <2>4. [by |-> by, n |-> Len(device) + 1] \in Push
    BY <2>3 DEF Push
  <2>5. device' \in Seq(Push) /\ sent' \subseteq Push
    BY <1>11, <2>4, ToDeviceType DEF ClientPush
  <2> QED
    BY <1>11, <2>5 DEF TypeOK, ClientPush, sessionVars, taskVars, recordVars, autoVars, peerVars
<1>12. ASSUME NEW p \in sent, AnnouncePush(p) PROVE TypeOK'
  <2>1. p \in Push /\ Len(log) + 1 <= MaxEvents
    BY DueFacts DEF TypeOK
  <2>2. log' \in Seq(Event) /\ Len(log') <= MaxEvents
    BY <1>12, <2>1, NewEvents, PublishType DEF AnnouncePush
  <2>3. asking' \in Position /\ sent' \subseteq Push
    BY <1>12, EventsAssumption DEF TypeOK, AnnouncePush, Position
  <2> QED
    BY <1>12, <2>2, <2>3 DEF TypeOK, AnnouncePush, sessionVars, taskVars, recordVars, peerVars
<1>13. ASSUME NEW p \in sent, ForgetPush(p) PROVE TypeOK'
  BY <1>13 DEF TypeOK, ForgetPush, sessionVars, taskVars, recordVars, autoVars, peerVars
<1>14. ASSUME NEW s \in Session, OpenStream(s) PROVE TypeOK'
  <2>1. UNCHANGED <<log, held, recordVars, autoVars, pushVars, peerVars, received>>
    BY <1>14 DEF OpenStream
  <2>2. CASE RegisterSession(s) /\ UNCHANGED <<from, cursor, task>>
    <3>1. <<Endpoint>> \in Seq(Message) /\ Len(<<Endpoint>>) = 1
      BY MessageKinds
    <3>2. 1 <= SseCapacity
      BY SessionAssumption
    <3>3. chan' = [chan EXCEPT ![s] = <<Endpoint>>]
      BY <2>2 DEF RegisterSession
    <3>4. /\ chan' \in [Session -> Seq(Message)]
          /\ \A r \in Session : Len(chan'[r]) <= SseCapacity
      BY <3>1, <3>2, <3>3 DEF TypeOK
    <3> QED
      BY <2>1, <2>2, <3>4 DEF TypeOK, RegisterSession, ConnState, recordVars, autoVars, pushVars,
                              peerVars
  <2>3. CASE MakePrimary(s) /\ UNCHANGED <<from, cursor, task>>
    BY <2>1, <2>3 DEF TypeOK, MakePrimary, ConnState, recordVars, autoVars, pushVars, peerVars
  <2>4. CASE StartStream(s) /\ Subscribe(s)
    BY <1>0, <2>1, <2>4, SubscribeType
       DEF TypeOK, StartStream, ConnState, recordVars, autoVars, pushVars, peerVars
  <2> QED
    BY <1>14, <2>2, <2>3, <2>4 DEF OpenStream
<1>15. ASSUME NEW s \in Session, LeaveStream(s) PROVE TypeOK'
  <2>1. <<>> \in Seq(Message) /\ Len(<<>>) <= SseCapacity
    BY EmptySeq, SessionAssumption
  <2> QED
    BY <1>15, <2>1 DEF TypeOK, LeaveStream, CloseStream, ConnState, eventVars, taskVars, recordVars,
                       autoVars, pushVars, peerVars
<1>16. ASSUME NEW s \in Session, Pick(s) PROVE TypeOK'
  <2>1. cursor' \in [Receiver -> Position] /\ cursor[s] \in Position /\ s \in Receiver
    BY <1>0, <1>16, ReceiveType DEF Pick, TypeOK
  <2> QED
    BY <1>16, <2>1 DEF TypeOK, Pick, Receive, sessionVars, recordVars, autoVars, pushVars, peerVars
<1>17. ASSUME NEW s \in Session, Forward(s) PROVE TypeOK'
  <2>1. s \in Receiver /\ 0 \in Position
    BY <1>0, EventsAssumption DEF Position
  <2>2. held' \in [Receiver -> Position]
    BY <1>17, <2>1 DEF TypeOK, Forward
  <2>3. /\ UNCHANGED <<log, from, cursor, recordVars, autoVars, pushVars, peerVars>>
        /\ UNCHANGED <<received, conn, sessions, primary, greeted>>
    BY <1>17 DEF Forward
  <2>4. CASE Enqueue(s, Notification(held[s])) /\ UNCHANGED task
    <3>1. Len(log) \in Nat /\ MaxEvents \in Nat /\ Len(log) <= MaxEvents
      BY LenProperties, EventsAssumption DEF TypeOK
    <3>2. cursor[s] \in Nat /\ held[s] \in Nat
      BY <2>1, <3>1 DEF TypeOK, Position
    <3>3. held[s] # 0 /\ held[s] = cursor[s] - 1 /\ cursor[s] <= Len(log) + 1
      BY <1>17, <2>1 DEF Forward, Positions
    <3>4. held[s] \in 1 .. MaxEvents
      BY <3>1, <3>2, <3>3
    <3>5. /\ chan' \in [Session -> Seq(Message)]
          /\ \A r \in Session : Len(chan'[r]) <= SseCapacity
      BY <2>4, <3>4, MessageKinds, EnqueueType DEF TypeOK
    <3> QED
      BY <2>2, <2>3, <2>4, <3>5 DEF TypeOK, recordVars, autoVars, pushVars, peerVars
  <2>5. CASE Closed(s) /\ task' = [task EXCEPT ![s] = "stopped"] /\ UNCHANGED chan
    BY <2>1, <2>2, <2>3, <2>5 DEF TypeOK, recordVars, autoVars, pushVars, peerVars
  <2> QED
    BY <1>17, <2>4, <2>5 DEF Forward
<1>18. ASSUME NEW s \in Session, OtherTraffic(s) PROVE TypeOK'
  <2>1. /\ chan' \in [Session -> Seq(Message)]
        /\ \A r \in Session : Len(chan'[r]) <= SseCapacity
    BY <1>18, MessageKinds, EnqueueType DEF TypeOK, OtherTraffic
  <2> QED
    BY <1>18, <2>1 DEF TypeOK, OtherTraffic, eventVars, taskVars, recordVars, autoVars, pushVars,
                       peerVars
<1>19. ASSUME NEW s \in Session, ReadStream(s) PROVE TypeOK'
  <2>1. /\ chan' \in [Session -> Seq(Message)]
        /\ \A r \in Session : Len(chan'[r]) <= SseCapacity
        /\ Head(chan[s]) \in Message
    BY <1>19, ReadType DEF TypeOK, ReadStream
  <2>2. received[s] \in Seq(Position)
    BY DEF TypeOK
  <2>3. Head(chan[s]).kind = "notification" =>
          Append(received[s], Head(chan[s]).event) \in Seq(Position)
    <3>1. \A n \in 1 .. MaxEvents : n \in Position
      BY EventsAssumption DEF Position
    <3> QED
      BY <2>1, <2>2, <3>1, MessageKinds, AppendFacts
  <2>4. received' \in [Session -> Seq(Position)]
    BY <1>19, <2>3 DEF TypeOK, ReadStream
  <2>5. greeted' \subseteq Session /\ UNCHANGED <<conn, sessions, primary>>
    BY <1>19 DEF TypeOK, ReadStream, ClientRead
  <2> QED
    BY <1>19, <2>1, <2>4, <2>5 DEF TypeOK, ReadStream, taskVars, recordVars, autoVars, pushVars,
                                   peerVars
<1>20. CASE UNCHANGED vars
  BY <1>20 DEF TypeOK, vars, sessionVars, eventVars, taskVars, recordVars, autoVars, pushVars,
               peerVars
<1> QED
  BY <1>1, <1>2, <1>3, <1>4, <1>5, <1>6, <1>7, <1>8, <1>9, <1>10, <1>11, <1>12, <1>13, <1>14,
     <1>15, <1>16, <1>17, <1>18, <1>19, <1>20 DEF Next

-----------------------------------------------------------------------------
(* The log only grows, by one event a step. *)
LEMMA PublishGrows ==
  ASSUME TypeOK, NEW e \in Event, Publish(e)
  PROVE  /\ Len(log) \in Nat /\ Len(log') = Len(log) + 1
         /\ \A n \in 1 .. Len(log) : log'[n] = log[n]
         /\ log'[Len(log) + 1] = e
BY AppendFacts DEF TypeOK, Publish

LEMMA LogStep ==
  ASSUME TypeOK, [Next]_vars
  PROVE  log' = log \/ \E e \in Event : Publish(e)
<1>1. ASSUME NEW v \in PeerStatus, PeerChange(v) PROVE log' = log
  BY <1>1 DEF PeerChange
<1>2. CASE AnnouncePeer
  BY <1>2, NewEvents DEF AnnouncePeer, TypeOK
<1>3. CASE Serve \/ Record \/ AutoReceive \/ AutoFail \/ AutoPush
  BY <1>3 DEF Serve, Record, AutoReceive, AutoFail, AutoPush
<1>4. CASE ChatFromDevice \/ HandlerReport
  BY <1>4, NewEvents DEF ChatFromDevice, HandlerReport
<1>5. ASSUME NEW r \in Receiver, StartTask(r) \/ StopLagged(r) PROVE log' = log
  BY <1>5 DEF StartTask, StopLagged
<1>6. ASSUME NEW by \in {"tool", "line"}, ClientPush(by) PROVE log' = log
  BY <1>6 DEF ClientPush
<1>7. ASSUME NEW p \in sent, AnnouncePush(p) PROVE \E e \in Event : Publish(e)
  BY <1>7, NewEvents DEF AnnouncePush, TypeOK
<1>8. ASSUME NEW p \in sent, ForgetPush(p) PROVE log' = log
  BY <1>8 DEF ForgetPush
<1>9. ASSUME NEW s \in Session,
             \/ OpenStream(s) \/ LeaveStream(s) \/ Pick(s) \/ Forward(s)
             \/ OtherTraffic(s) \/ ReadStream(s)
      PROVE  log' = log
  BY <1>9 DEF OpenStream, LeaveStream, Pick, Forward, OtherTraffic, ReadStream, eventVars
<1>10. CASE UNCHANGED vars
  BY <1>10 DEF vars, eventVars
<1> QED
  BY <1>1, <1>2, <1>3, <1>4, <1>5, <1>6, <1>7, <1>8, <1>9, <1>10 DEF Next

LEMMA LogGrows ==
  ASSUME TypeOK, [Next]_vars
  PROVE  /\ Len(log) \in Nat /\ Len(log') \in Nat /\ Len(log) <= Len(log')
         /\ \A n \in 1 .. Len(log) : n \in 1 .. Len(log') /\ log'[n] = log[n]
<1>1. Len(log) \in Nat
  BY LenProperties DEF TypeOK
<1>2. CASE log' = log
  BY <1>1, <1>2
<1>3. ASSUME NEW e \in Event, Publish(e)
      PROVE  Len(log') = Len(log) + 1 /\ \A n \in 1 .. Len(log) : log'[n] = log[n]
  BY <1>3, PublishGrows
<1> QED
  BY <1>1, <1>2, <1>3, LogStep

LEMMA PositionNat == \A n \in Position : n \in Nat
BY EventsAssumption DEF Position

(* How a step moves the receivers. *)
Moves(r) ==
  \/ UNCHANGED <<from[r], cursor[r], held[r]>> /\ task'[r] \in {task[r], "spawned", "stopped"}
  \/ /\ log' = log /\ held[r] = 0
     /\ from'[r] = Len(log) + 1 /\ cursor'[r] = Len(log) + 1 /\ UNCHANGED held[r]
  \/ /\ log' = log /\ held[r] = 0
     /\ task[r] = "running" /\ cursor[r] \in 1 .. Len(log)
     /\ cursor'[r] = cursor[r] + 1
     /\ UNCHANGED <<from[r], task[r]>>
     /\ held'[r] = 0 \/ (held'[r] = cursor[r] /\ r \in Session)
  \/ UNCHANGED <<from[r], cursor[r]>> /\ held'[r] = 0 /\ task'[r] \in {task[r], "stopped"}

LEMMA ReceiverMoves ==
  ASSUME TypeOK, Positions, Streams, [Next]_vars, NEW r \in Receiver
  PROVE  Moves(r)
<1> USE DEF Moves
<1>0. Recorder \in Receiver /\ AutoReply \in Receiver /\ Session \subseteq Receiver
  BY DEF Receiver
<1>1. ASSUME UNCHANGED taskVars PROVE Moves(r)
  BY <1>1 DEF taskVars
<1>2. ASSUME NEW q \in Receiver, Receive(q), log' = log, held[q] = 0,
             held' = held \/ (q \in Session /\ held' = [held EXCEPT ![q] = cursor[q]])
      PROVE  Moves(r)
  <2>1. cursor[q] \in 1 .. Len(log)
    BY <1>2, ReceiveType
  <2> QED
    BY <1>2, <2>1 DEF Receive, TypeOK
<1>3. ASSUME NEW q \in Receiver, Subscribe(q), log' = log, held' = held, held[q] = 0
      PROVE  Moves(r)
  BY <1>3 DEF Subscribe, TypeOK
<1>4. ASSUME NEW v \in PeerStatus, PeerChange(v) PROVE Moves(r)
  BY <1>1, <1>4 DEF PeerChange
<1>5. CASE Serve
  BY <1>5 DEF Serve, TypeOK
<1>6. CASE AnnouncePeer \/ ChatFromDevice \/ HandlerReport \/ AutoFail \/ AutoPush
  BY <1>1, <1>6 DEF AnnouncePeer, ChatFromDevice, HandlerReport, AutoFail, AutoPush
<1>7. ASSUME NEW q \in Receiver, StartTask(q) PROVE Moves(r)
  BY <1>3, <1>7 DEF StartTask, Positions
<1>8. ASSUME NEW q \in Receiver, StopLagged(q) PROVE Moves(r)
  BY <1>8 DEF StopLagged, TypeOK
<1>9. CASE Record
  BY <1>0, <1>2, <1>9 DEF Record, Positions
<1>10. CASE AutoReceive
  BY <1>0, <1>2, <1>10 DEF AutoReceive, Positions
<1>11. ASSUME NEW by \in {"tool", "line"}, ClientPush(by) PROVE Moves(r)
  BY <1>1, <1>11 DEF ClientPush
<1>12. ASSUME NEW p \in sent, AnnouncePush(p) \/ ForgetPush(p) PROVE Moves(r)
  BY <1>1, <1>12 DEF AnnouncePush, ForgetPush
<1>13. ASSUME NEW s \in Session, OpenStream(s) PROVE Moves(r)
  <2>1. CASE UNCHANGED <<from, cursor, task>>
    BY <1>1, <1>13, <2>1 DEF OpenStream, taskVars
  <2>2. CASE StartStream(s) /\ Subscribe(s)
    <3>1. held[s] = 0
      BY <2>2 DEF Streams, Unopened, StartStream
    <3> QED
      BY <1>0, <1>3, <1>13, <2>2, <3>1 DEF OpenStream
  <2> QED
    BY <1>13, <2>1, <2>2 DEF OpenStream
<1>14. ASSUME NEW s \in Session, Pick(s) PROVE Moves(r)
  BY <1>0, <1>2, <1>14 DEF Pick
<1>15. ASSUME NEW s \in Session, Forward(s) PROVE Moves(r)
  BY <1>0, <1>15 DEF Forward, TypeOK
<1>16. ASSUME NEW s \in Session, LeaveStream(s) \/ OtherTraffic(s) \/ ReadStream(s) PROVE Moves(r)
  BY <1>1, <1>16 DEF LeaveStream, OtherTraffic, ReadStream, eventVars
<1>17. CASE UNCHANGED vars
  BY <1>1, <1>17 DEF vars, eventVars
<1> QED
  BY <1>4, <1>5, <1>6, <1>7, <1>8, <1>9, <1>10, <1>11, <1>12, <1>13, <1>14, <1>15, <1>16, <1>17
     DEF Next

LEMMA PositionsNext ==
  ASSUME TypeOK, Positions, Streams, [Next]_vars
  PROVE  Positions'
<1>1. ASSUME NEW r \in Receiver
      PROVE  /\ from'[r] <= cursor'[r] /\ cursor'[r] <= Len(log') + 1
             /\ from'[r] = 0 => cursor'[r] = 0
             /\ task'[r] = "running" => from'[r] # 0
             /\ held'[r] # 0 => held'[r] = cursor'[r] - 1
             /\ held[r] = 0 /\ r \notin Session => held'[r] = 0
  <2>0. Len(log) \in Nat /\ Len(log') \in Nat /\ Len(log) <= Len(log')
    BY LogGrows
  <2>1. from[r] \in Nat /\ cursor[r] \in Nat /\ held[r] \in Nat
    BY PositionNat DEF TypeOK
  <2>2. /\ from[r] <= cursor[r] /\ cursor[r] <= Len(log) + 1
        /\ from[r] = 0 => cursor[r] = 0
        /\ task[r] = "running" => from[r] # 0
        /\ held[r] # 0 => held[r] = cursor[r] - 1
    BY DEF Positions
  <2>3. Moves(r)
    BY ReceiverMoves
  <2>4. CASE UNCHANGED <<from[r], cursor[r], held[r]>> /\ task'[r] \in {task[r], "spawned", "stopped"}
    BY <2>0, <2>1, <2>2, <2>4
  <2>5. CASE /\ log' = log /\ held[r] = 0
             /\ from'[r] = Len(log) + 1 /\ cursor'[r] = Len(log) + 1 /\ UNCHANGED held[r]
    BY <2>0, <2>1, <2>5
  <2>6. CASE /\ log' = log /\ held[r] = 0
             /\ task[r] = "running" /\ cursor[r] \in 1 .. Len(log)
             /\ cursor'[r] = cursor[r] + 1
             /\ UNCHANGED <<from[r], task[r]>>
             /\ held'[r] = 0 \/ (held'[r] = cursor[r] /\ r \in Session)
    BY <2>0, <2>1, <2>2, <2>6
  <2>7. CASE UNCHANGED <<from[r], cursor[r]>> /\ held'[r] = 0 /\ task'[r] \in {task[r], "stopped"}
    BY <2>0, <2>1, <2>2, <2>7
  <2> QED
    BY <2>3, <2>4, <2>5, <2>6, <2>7 DEF Moves
<1>2. \A r \in {Recorder, AutoReply} : r \in Receiver /\ r \notin Session /\ held[r] = 0
  BY EventsAssumption DEF Receiver, Positions
<1> QED
  BY <1>1, <1>2 DEF Positions

-----------------------------------------------------------------------------
LEMMA FreshNext ==
  ASSUME TypeOK, Fresh, [Next]_vars
  PROVE  Fresh'
<1>0. /\ Recorder \in Receiver /\ AutoReply \in Receiver /\ Session \subseteq Receiver
      /\ Recorder \notin Session /\ AutoReply \notin Session
  BY EventsAssumption DEF Receiver
<1> USE DEF Fresh
<1>1. ASSUME NEW v \in PeerStatus, PeerChange(v) PROVE Fresh'
  BY <1>1 DEF PeerChange, taskVars, recordVars
<1>2. CASE Serve
  BY <1>0, <1>2 DEF Serve, recordVars, TypeOK
<1>3. CASE AnnouncePeer \/ ChatFromDevice \/ HandlerReport \/ AutoFail \/ AutoPush
  BY <1>3 DEF AnnouncePeer, ChatFromDevice, HandlerReport, AutoFail, AutoPush, taskVars, recordVars,
              peerVars
<1>4. ASSUME NEW q \in Receiver, StartTask(q) PROVE Fresh'
  BY <1>0, <1>4 DEF StartTask, Subscribe, recordVars, peerVars, TypeOK
<1>5. ASSUME NEW q \in Receiver, StopLagged(q) PROVE Fresh'
  BY <1>0, <1>5 DEF StopLagged, recordVars, peerVars, TypeOK
<1>6. CASE Record
  BY <1>6 DEF Record, Receive, peerVars
<1>7. CASE AutoReceive
  BY <1>7 DEF AutoReceive, Receive, recordVars, peerVars
<1>8. ASSUME NEW by \in {"tool", "line"}, ClientPush(by) PROVE Fresh'
  BY <1>8 DEF ClientPush, taskVars, recordVars, peerVars
<1>9. ASSUME NEW p \in sent, AnnouncePush(p) \/ ForgetPush(p) PROVE Fresh'
  BY <1>9 DEF AnnouncePush, ForgetPush, taskVars, recordVars, peerVars
<1>10. ASSUME NEW s \in Session, OpenStream(s) PROVE Fresh'
  BY <1>0, <1>10 DEF OpenStream, Subscribe, recordVars, peerVars, TypeOK
<1>11. ASSUME NEW s \in Session, Pick(s) PROVE Fresh'
  BY <1>11 DEF Pick, Receive, recordVars, peerVars
<1>12. ASSUME NEW s \in Session, Forward(s) PROVE Fresh'
  BY <1>0, <1>12 DEF Forward, recordVars, peerVars, TypeOK
<1>13. ASSUME NEW s \in Session, LeaveStream(s) \/ OtherTraffic(s) \/ ReadStream(s) PROVE Fresh'
  BY <1>13 DEF LeaveStream, OtherTraffic, ReadStream, eventVars, taskVars, recordVars, peerVars
<1>14. CASE UNCHANGED vars
  BY <1>14 DEF vars, eventVars, taskVars, recordVars, peerVars
<1> QED
  BY <1>1, <1>2, <1>3, <1>4, <1>5, <1>6, <1>7, <1>8, <1>9, <1>10, <1>11, <1>12, <1>13, <1>14
     DEF Next

-----------------------------------------------------------------------------
(***************************************************************************)
(* How a step changes what the auto-reply loop and the pushes have.  A     *)
(* step of any other kind leaves all of it alone.                          *)
(***************************************************************************)
Pushes ==
  \/ UNCHANGED <<autoVars, pushVars>> /\ log' = log
  \/ \E e \in Event : Publish(e) /\ e.kind # "pushed" /\ UNCHANGED <<autoVars, pushVars>>
  \/ AutoReceive \/ AutoFail \/ AutoPush
  \/ \E by \in {"tool", "line"} : ClientPush(by)
  \/ \E p \in sent : AnnouncePush(p) \/ ForgetPush(p)

LEMMA PushSteps ==
  ASSUME TypeOK, [Next]_vars
  PROVE  Pushes
<1> USE DEF Pushes
<1>1. ASSUME NEW v \in PeerStatus, PeerChange(v) PROVE Pushes
  BY <1>1 DEF PeerChange
<1>2. CASE AnnouncePeer
  <2>1. Changed(peerStatus) \in Event /\ Changed(peerStatus).kind # "pushed"
    BY NewEvents DEF TypeOK
  <2> QED
    BY <1>2, <2>1 DEF AnnouncePeer
<1>3. CASE Serve \/ Record
  BY <1>3 DEF Serve, Record
<1>4. CASE ChatFromDevice \/ HandlerReport
  <2>1. /\ Received \in Event /\ Received.kind # "pushed"
        /\ Other \in Event /\ Other.kind # "pushed"
    BY NewEvents
  <2> QED
    BY <1>4, <2>1 DEF ChatFromDevice, HandlerReport
<1>5. ASSUME NEW r \in Receiver, StartTask(r) \/ StopLagged(r) PROVE Pushes
  BY <1>5 DEF StartTask, StopLagged
<1>6. ASSUME NEW s \in Session,
             \/ OpenStream(s) \/ LeaveStream(s) \/ Pick(s) \/ Forward(s)
             \/ OtherTraffic(s) \/ ReadStream(s)
      PROVE  Pushes
  BY <1>6 DEF OpenStream, LeaveStream, Pick, Forward, OtherTraffic, ReadStream, eventVars
<1>7. CASE UNCHANGED vars
  BY <1>7 DEF vars, eventVars
<1> QED
  BY <1>1, <1>2, <1>3, <1>4, <1>5, <1>6, <1>7 DEF Next

(* The cursor of a loop never goes back below what it has read. *)
LEMMA CursorKept ==
  ASSUME TypeOK, Positions, Streams, [Next]_vars, NEW r \in Receiver
  PROVE  cursor[r] \in Nat /\ cursor'[r] \in Nat /\ cursor[r] <= cursor'[r]
<1>1. /\ Len(log) \in Nat /\ cursor[r] \in Nat /\ cursor[r] <= Len(log) + 1
  BY LenProperties, EventsAssumption DEF TypeOK, Position, Positions
<1> QED
  BY <1>1, ReceiverMoves DEF Moves

LEMMA QuestionsNext ==
  ASSUME TypeOK, Positions, Streams, Questions, [Next]_vars
  PROVE  Questions'
<1>1. AutoReply \in Receiver
  BY DEF Receiver
<1>2. /\ Len(log) \in Nat /\ Len(log') \in Nat
      /\ \A n \in 1 .. Len(log) : n \in 1 .. Len(log') /\ log'[n] = log[n]
  BY LogGrows
<1>3. cursor[AutoReply] \in Nat /\ cursor'[AutoReply] \in Nat /\ cursor[AutoReply] <= cursor'[AutoReply]
  BY <1>1, CursorKept
<1>4. \A n \in asked : n \in 1 .. Len(log') /\ n < cursor'[AutoReply] /\ log'[n].kind = "received"
  BY <1>2, <1>3 DEF Questions
<1>5. CASE asked' = asked /\ asking' \in {asking, 0}
  BY <1>4, <1>5 DEF Questions
<1>6. CASE AutoReceive
  <2> DEFINE n == cursor[AutoReply]
  <2>1. /\ n \in 1 .. Len(log) /\ cursor'[AutoReply] = n + 1
    <3>1. Receive(AutoReply)
      BY <1>6 DEF AutoReceive
    <3> QED
      BY <1>1, <3>1, ReceiveType DEF Receive, TypeOK
  <2>2. CASE log[n].kind # "received" /\ UNCHANGED autoVars
    BY <1>5, <2>2 DEF autoVars
  <2>3. CASE log[n].kind = "received" /\ asking' = n /\ asked' = asked \cup {n}
    <3>1. n \in 1 .. Len(log') /\ n < cursor'[AutoReply] /\ log'[n].kind = "received"
      BY <1>2, <2>1, <2>3
    <3>2. \A m \in asked : m <= n
      <4>1. \A m \in asked : m \in 1 .. Len(log) /\ m < n
        BY DEF Questions
      <4> QED
        BY <1>2, <2>1, <4>1
    <3>3. n <= n
      BY <2>1
    <3> HIDE DEF n
    <3> QED
      BY <1>4, <2>3, <3>1, <3>2, <3>3 DEF Questions
  <2> QED
    BY <1>6, <2>2, <2>3 DEF AutoReceive
<1>7. CASE AutoFail \/ AutoPush
  BY <1>5, <1>7 DEF AutoFail, AutoPush, autoVars
<1>8. ASSUME NEW by \in {"tool", "line"}, ClientPush(by) PROVE Questions'
  BY <1>5, <1>8 DEF ClientPush, autoVars
<1>9. ASSUME NEW p \in sent, AnnouncePush(p) \/ ForgetPush(p) PROVE Questions'
  BY <1>5, <1>9 DEF AnnouncePush, ForgetPush, autoVars
<1>10. CASE UNCHANGED <<autoVars, pushVars>>
  BY <1>5, <1>10 DEF autoVars
<1> QED
  BY <1>6, <1>7, <1>8, <1>9, <1>10, PushSteps DEF Pushes

-----------------------------------------------------------------------------
LEMMA PushShape ==
  ASSUME NEW p \in Push
  PROVE  p.n \in Nat /\ p.n # 0 /\ p.by \in {"tool", "line", "auto"}
<1>1. MaxEvents + MaxPushes \in Nat
  BY EventsAssumption
<1> QED
  BY <1>1 DEF Push

(* What a line handed to the device adds. *)
LEMMA ToDeviceFacts ==
  ASSUME TypeOK, NEW p \in Push, ToDevice(p)
  PROVE  /\ Len(device) \in Nat /\ Len(device') = Len(device) + 1
         /\ \A i \in 1 .. Len(device) : device'[i] = device[i]
         /\ device'[Len(device) + 1] = p
         /\ sent \subseteq sent' /\ sent' \subseteq sent \cup {p}
         /\ p.by # "line" => p \in sent'
         /\ p.by = "line" => sent' = sent
BY AppendFacts DEF TypeOK, ToDevice

(* The automatic line for the chat being asked about is new to the device. *)
LEMMA AutoLine ==
  ASSUME TypeOK, Questions, AutoPush, NEW p, p = [by |-> "auto", n |-> asking]
  PROVE  /\ p \in Push /\ p.by = "auto" /\ p.n = asking
         /\ p \notin sent /\ asking # 0 /\ asking \in asked /\ ToDevice(p)
<1>1. asking # 0 /\ asking \in 1 .. Len(log) /\ Len(log) \in Nat /\ Len(log) <= MaxEvents
  BY LenProperties DEF TypeOK, Questions, AutoPush
<1>2. asking \in 1 .. MaxEvents + MaxPushes
  BY <1>1, EventsAssumption
<1> QED
  BY <1>1, <1>2 DEF AutoPush, Push, Questions

LEMMA ClientLine ==
  ASSUME TypeOK, Questions, Lines, Bounded, NEW by \in {"tool", "line"}, ClientPush(by),
         NEW p, p = [by |-> by, n |-> Len(device) + 1]
  PROVE  p \in Push /\ p.by = by /\ p.n = Len(device) + 1 /\ ToDevice(p)
<1>1. Len(device) \in Nat /\ MaxEvents \in Nat /\ MaxPushes \in Nat
  BY LenProperties, EventsAssumption DEF TypeOK
<1>2. Cardinality(ClientLines) < MaxPushes
  BY DEF ClientPush, ClientLines
<1>3. Len(device) + 1 \in 1 .. MaxEvents + MaxPushes
  BY <1>1, <1>2, DeviceRoom
<1> QED
  BY <1>3 DEF Push, ClientPush

LEMMA LinesNext ==
  ASSUME TypeOK, Positions, Questions, Lines, Bounded, [Next]_vars
  PROVE  Lines'
<1>0. /\ Len(device) \in Nat /\ \A i \in 1 .. Len(device) : device[i] \in Push
  BY LenProperties, ElementOfSeq DEF TypeOK
<1>1. ASSUME UNCHANGED <<autoVars, pushVars>> PROVE Lines'
  BY <1>1 DEF Lines, autoVars, pushVars
<1>2. CASE AutoReceive
  <2> DEFINE n == cursor[AutoReply]
  <2>1. device' = device /\ sent' = sent /\ asking = 0
    BY <1>2 DEF AutoReceive, pushVars
  <2>2. CASE UNCHANGED autoVars
    BY <1>1, <2>1, <2>2 DEF pushVars
  <2>3. CASE asking' = n /\ asked' = asked \cup {n}
    <3>1. \A m \in asked : m < n
      BY DEF Questions
    <3>2. \A p \in sent : p.by # "auto"
      <4> SUFFICES ASSUME NEW p \in sent, p.by = "auto" PROVE FALSE
        OBVIOUS
      <4>1. p.n = 0 /\ p \in Push
        BY <2>1 DEF Lines, TypeOK
      <4> QED
        BY <4>1, PushShape
    <3>3. \A i \in 1 .. Len(device) :
            IF device[i].by = "auto" THEN device[i].n \in asked' /\ device[i].n < n
                                     ELSE device[i].n = i
      BY <2>3, <3>1 DEF Lines
    <3> HIDE DEF n
    <3> QED
      BY <2>1, <2>3, <3>2, <3>3 DEF Lines
  <2> QED
    BY <1>2, <2>2, <2>3 DEF AutoReceive
<1>3. CASE AutoFail
  <2>1. /\ asking' = 0 /\ UNCHANGED <<asked, device, sent>>
        /\ [by |-> "auto", n |-> asking] \notin sent
    BY <1>3 DEF AutoFail, pushVars
  <2>2. \A p \in sent : p.by # "auto"
    <3> SUFFICES ASSUME NEW p \in sent, p.by = "auto" PROVE FALSE
      OBVIOUS
    <3>1. p \in Push /\ p.n = asking
      BY DEF Lines, TypeOK
    <3>2. p = [by |-> "auto", n |-> asking]
      BY <3>1 DEF Push
    <3> QED
      BY <2>1, <3>2
  <2> QED
    BY <2>1, <2>2 DEF Lines
<1>4. CASE AutoPush
  <2> DEFINE p == [by |-> "auto", n |-> asking]
             L == Len(device) + 1
  <2>1. /\ p \in Push /\ p.by = "auto" /\ p.n = asking
        /\ p \notin sent /\ asking # 0 /\ asking \in asked /\ ToDevice(p)
    BY <1>4, AutoLine
  <2>2. UNCHANGED <<asking, asked>>
    BY <1>4 DEF AutoPush, autoVars
  <2> HIDE DEF p
  <2>3. /\ Len(device') = L /\ \A i \in 1 .. Len(device) : device'[i] = device[i]
        /\ device'[L] = p /\ sent \subseteq sent' /\ sent' \subseteq sent \cup {p} /\ p \in sent'
    BY <2>1, ToDeviceFacts
  <2>4. \A q \in sent' : /\ q.by # "line" /\ \E i \in 1 .. Len(device') : device'[i] = q
                         /\ q.by = "auto" => q.n = asking
    <3>1. \A q \in sent : /\ q.by # "line" /\ \E i \in 1 .. Len(device) : device[i] = q
                          /\ q.by = "auto" => q.n = asking
      BY DEF Lines
    <3>2. L \in 1 .. L /\ \A i \in 1 .. Len(device) : i \in 1 .. L
      BY <1>0
    <3> QED
      BY <2>1, <2>3, <3>1, <3>2
  <2>5. \A i \in 1 .. Len(device) :
          device[i].by = "auto" => device[i].n \in asked /\ device[i].n < asking
    <3> SUFFICES ASSUME NEW i \in 1 .. Len(device), device[i].by = "auto"
                 PROVE  device[i].n \in asked /\ device[i].n < asking
      OBVIOUS
    <3>1. device[i].n \in asked /\ (device[i].n < asking \/ device[i] \in sent)
      BY <2>1 DEF Lines
    <3>2. device[i] \in sent => device[i] = p
      BY <1>0, <2>1 DEF Lines, Push, p
    <3> QED
      BY <2>1, <3>1, <3>2
  <2>6. \A i \in 1 .. L : IF device'[i].by = "auto"
                          THEN /\ device'[i].n \in asked
                               /\ device'[i].n < asking \/ device'[i] \in sent'
                          ELSE device'[i].n = i
    <3> SUFFICES ASSUME NEW i \in 1 .. L
                 PROVE  IF device'[i].by = "auto"
                        THEN /\ device'[i].n \in asked
                             /\ device'[i].n < asking \/ device'[i] \in sent'
                        ELSE device'[i].n = i
      OBVIOUS
    <3>1. CASE i \in 1 .. Len(device)
      BY <2>3, <2>5, <3>1 DEF Lines
    <3>2. CASE i = L
      BY <2>1, <2>3, <3>2
    <3> QED
      BY <1>0, <3>1, <3>2
  <2>7. \A i, j \in 1 .. L :
          i < j /\ device'[i].by = "auto" /\ device'[j].by = "auto" => device'[i].n < device'[j].n
    <3> SUFFICES ASSUME NEW i \in 1 .. L, NEW j \in 1 .. L, i < j,
                        device'[i].by = "auto", device'[j].by = "auto"
                 PROVE  device'[i].n < device'[j].n
      OBVIOUS
    <3>1. i \in 1 .. Len(device)
      BY <1>0
    <3>2. CASE j \in 1 .. Len(device)
      BY <2>3, <3>1, <3>2 DEF Lines
    <3>3. CASE j = L
      BY <2>1, <2>3, <2>5, <3>1, <3>3
    <3> QED
      BY <1>0, <3>2, <3>3
  <2> QED
    BY <2>2, <2>3, <2>4, <2>6, <2>7 DEF Lines
<1>5. ASSUME NEW by \in {"tool", "line"}, ClientPush(by) PROVE Lines'
  <2> DEFINE p == [by |-> by, n |-> Len(device) + 1]
             L == Len(device) + 1
  <2>1. p \in Push /\ p.by = by /\ p.n = L /\ ToDevice(p)
    BY <1>5, ClientLine
  <2>2. UNCHANGED <<asking, asked>>
    BY <1>5 DEF ClientPush, autoVars
  <2> HIDE DEF p
  <2>3. /\ Len(device') = L /\ \A i \in 1 .. Len(device) : device'[i] = device[i]
        /\ device'[L] = p /\ sent \subseteq sent' /\ sent' \subseteq sent \cup {p}
        /\ p.by = "line" => sent' = sent
    BY <2>1, ToDeviceFacts
  <2>4. \A q \in sent' : /\ q.by # "line" /\ \E i \in 1 .. Len(device') : device'[i] = q
                         /\ q.by = "auto" => q.n = asking
    <3>1. \A q \in sent : /\ q.by # "line" /\ \E i \in 1 .. Len(device) : device[i] = q
                          /\ q.by = "auto" => q.n = asking
      BY DEF Lines
    <3>2. L \in 1 .. L /\ \A i \in 1 .. Len(device) : i \in 1 .. L
      BY <1>0
    <3> QED
      BY <2>1, <2>3, <3>1, <3>2
  <2>5. \A i \in 1 .. L : IF device'[i].by = "auto"
                          THEN /\ device'[i].n \in asked
                               /\ asking # 0 => device'[i].n < asking \/ device'[i] \in sent'
                          ELSE device'[i].n = i
    <3> SUFFICES ASSUME NEW i \in 1 .. L
                 PROVE  IF device'[i].by = "auto"
                        THEN /\ device'[i].n \in asked
                             /\ asking # 0 => device'[i].n < asking \/ device'[i] \in sent'
                        ELSE device'[i].n = i
      OBVIOUS
    <3>1. CASE i \in 1 .. Len(device)
      BY <2>3, <3>1 DEF Lines
    <3>2. CASE i = L
      BY <2>1, <2>3, <3>2
    <3> QED
      BY <1>0, <3>1, <3>2
  <2>6. \A i, j \in 1 .. L :
          i < j /\ device'[i].by = "auto" /\ device'[j].by = "auto" => device'[i].n < device'[j].n
    <3> SUFFICES ASSUME NEW i \in 1 .. L, NEW j \in 1 .. L, i < j,
                        device'[i].by = "auto", device'[j].by = "auto"
                 PROVE  device'[i].n < device'[j].n
      OBVIOUS
    <3>1. j # L
      BY <2>1, <2>3
    <3>2. i \in 1 .. Len(device) /\ j \in 1 .. Len(device)
      BY <1>0, <3>1
    <3> QED
      BY <2>3, <3>2 DEF Lines
  <2> QED
    BY <2>2, <2>3, <2>4, <2>5, <2>6 DEF Lines
<1>6. ASSUME NEW p \in sent, AnnouncePush(p) PROVE Lines'
  <2>1. /\ sent' = sent \ {p} /\ asking' = (IF p.by = "auto" THEN 0 ELSE asking)
        /\ UNCHANGED <<asked, device>>
    BY <1>6 DEF AnnouncePush
  <2>2. CASE p.by = "auto"
    <3>1. \A q \in sent' : q.by # "auto"
      <4> SUFFICES ASSUME NEW q \in sent, q # p, q.by = "auto" PROVE FALSE
        BY <2>1
      <4>1. p \in Push /\ q \in Push /\ p.n = asking /\ q.n = asking
        BY <2>2 DEF Lines, TypeOK
      <4> QED
        BY <2>2, <4>1 DEF Push
    <3> QED
      BY <2>1, <2>2, <3>1 DEF Lines
  <2>3. CASE p.by # "auto"
    BY <2>1, <2>3 DEF Lines
  <2> QED
    BY <2>2, <2>3
<1>7. ASSUME NEW p \in sent, ForgetPush(p) PROVE Lines'
  <2>1. sent' = sent \ {p} /\ p.by = "tool" /\ UNCHANGED <<asking, asked, device>>
    BY <1>7 DEF ForgetPush, autoVars
  <2> QED
    BY <2>1 DEF Lines
<1> QED
  BY <1>1, <1>2, <1>3, <1>4, <1>5, <1>6, <1>7, PushSteps DEF Pushes

-----------------------------------------------------------------------------
(* The chats still ahead of the auto-reply loop. *)
LEMMA AheadStep ==
  ASSUME TypeOK, Positions, Streams, [Next]_vars
  PROVE  /\ log' = log => ChatsAhead' \subseteq ChatsAhead
         /\ \A e \in Event : Publish(e) =>
              /\ ChatsAhead' \subseteq ChatsAhead \cup {Len(log) + 1}
              /\ e # Received => ChatsAhead' \subseteq ChatsAhead
<1> DEFINE r == AutoReply
<1>1. /\ Len(log) \in Nat /\ cursor[r] \in Nat /\ cursor'[r] \in Nat /\ cursor[r] <= cursor'[r]
      /\ from[r] \in Nat /\ cursor[r] <= Len(log) + 1 /\ from[r] <= cursor[r]
      /\ task[r] = "running" => from[r] # 0
  <2>1. r \in Receiver
    BY DEF Receiver
  <2>2. cursor[r] \in Nat /\ cursor'[r] \in Nat /\ cursor[r] <= cursor'[r]
    BY <2>1, CursorKept
  <2> QED
    BY <2>1, <2>2, PositionNat, LogGrows DEF TypeOK, Positions
<1>2. Moves(r)
  BY ReceiverMoves DEF Receiver
<1>3. CASE task'[r] # "running"
  BY <1>3 DEF ChatsAhead
<1>4. CASE task'[r] = "running" /\ log' = log /\ cursor'[r] = Len(log) + 1
  <2>1. ChatsAhead' = {}
    BY <1>1, <1>4 DEF ChatsAhead
  <2>2. \A e \in Event : ~ Publish(e)
    BY <1>4, <1>1, PublishGrows
  <2> QED
    BY <2>1, <2>2
<1>5. CASE task'[r] = "running" /\ task[r] = "running"
  <2>1. ASSUME NEW n, n \in ChatsAhead', log' = log PROVE n \in ChatsAhead
    BY <1>1, <1>5, <2>1 DEF ChatsAhead
  <2>2. ASSUME NEW e \in Event, Publish(e), NEW n, n \in ChatsAhead'
        PROVE  /\ n \in ChatsAhead \cup {Len(log) + 1}
               /\ e # Received => n \in ChatsAhead
    <3>1. /\ Len(log') = Len(log) + 1
          /\ \A k \in 1 .. Len(log) : log'[k] = log[k]
          /\ log'[Len(log) + 1] = e
      BY <2>2, PublishGrows
    <3>2. n \in cursor'[r] .. Len(log') /\ log'[n] = Received
      BY <1>5, <2>2 DEF ChatsAhead
    <3>3. n = Len(log) + 1 \/ n \in cursor[r] .. Len(log)
      BY <1>1, <3>1, <3>2
    <3>4. n \in cursor[r] .. Len(log) => n \in ChatsAhead
      <4>1. n \in cursor[r] .. Len(log) => n \in 1 .. Len(log)
        BY <1>1, <1>5
      <4> QED
        BY <1>5, <3>1, <3>2, <4>1 DEF ChatsAhead
    <3> QED
      BY <3>1, <3>2, <3>3, <3>4
  <2> QED
    BY <2>1, <2>2
<1> QED
  BY <1>2, <1>3, <1>4, <1>5 DEF Moves

LEMMA AheadCount ==
  ASSUME TypeOK, Bounded, NEW T
  PROVE  /\ T \subseteq ChatsAhead =>
              Cardinality(T) \in Nat /\ Cardinality(T) <= Cardinality(ChatsAhead)
         /\ \A x : T \subseteq ChatsAhead \cup {x} =>
              Cardinality(T) \in Nat /\ Cardinality(T) <= Cardinality(ChatsAhead) + 1
         /\ \A x \in ChatsAhead : T \subseteq ChatsAhead \ {x} =>
              Cardinality(T) \in Nat /\ Cardinality(T) <= Cardinality(ChatsAhead) - 1
<1>1. IsFiniteSet(ChatsAhead) /\ Cardinality(ChatsAhead) \in Nat
  BY DueFacts
<1>2. ASSUME NEW U, IsFiniteSet(U), T \subseteq U
      PROVE  Cardinality(T) \in Nat /\ Cardinality(T) <= Cardinality(U)
  BY <1>2, FS_Subset, FS_CardinalityType
<1>3. ASSUME NEW x, T \subseteq ChatsAhead \cup {x}
      PROVE  Cardinality(T) \in Nat /\ Cardinality(T) <= Cardinality(ChatsAhead) + 1
  <2>1. /\ IsFiniteSet(ChatsAhead \cup {x})
        /\ Cardinality(ChatsAhead \cup {x}) \in {Cardinality(ChatsAhead), Cardinality(ChatsAhead) + 1}
    BY <1>1, FS_AddElement
  <2>2. Cardinality(T) \in Nat /\ Cardinality(T) <= Cardinality(ChatsAhead \cup {x})
    BY <1>2, <1>3, <2>1
  <2> QED
    BY <1>1, <2>1, <2>2
<1>4. ASSUME NEW x \in ChatsAhead, T \subseteq ChatsAhead \ {x}
      PROVE  Cardinality(T) \in Nat /\ Cardinality(T) <= Cardinality(ChatsAhead) - 1
  <2>1. /\ IsFiniteSet(ChatsAhead \ {x})
        /\ Cardinality(ChatsAhead \ {x}) = Cardinality(ChatsAhead) - 1
    BY <1>1, FS_RemoveElement
  <2>2. Cardinality(T) \in Nat /\ Cardinality(T) <= Cardinality(ChatsAhead \ {x})
    BY <1>2, <1>4, <2>1
  <2> QED
    BY <1>1, <2>1, <2>2
<1> QED
  BY <1>1, <1>2, <1>3, <1>4

(* The lines in hand stay finite, and a step adds one of them at most. *)
LEMMA SentCount ==
  ASSUME Bounded, NEW T
  PROVE  /\ Cardinality(sent) \in Nat
         /\ \A p : T = sent \cup {p} =>
              IsFiniteSet(T) /\ Cardinality(T) \in Nat /\ Cardinality(T) <= Cardinality(sent) + 1
         /\ \A p \in sent : T = sent \ {p} =>
              IsFiniteSet(T) /\ Cardinality(T) \in Nat /\ Cardinality(T) = Cardinality(sent) - 1
<1>1. IsFiniteSet(sent) /\ Cardinality(sent) \in Nat
  BY FS_CardinalityType DEF Bounded
<1>2. ASSUME NEW p, T = sent \cup {p}
      PROVE  IsFiniteSet(T) /\ Cardinality(T) \in Nat /\ Cardinality(T) <= Cardinality(sent) + 1
  <2>1. IsFiniteSet(T) /\ Cardinality(T) \in {Cardinality(sent), Cardinality(sent) + 1}
    BY <1>1, <1>2, FS_AddElement
  <2> QED
    BY <1>1, <2>1
<1>3. ASSUME NEW p \in sent, T = sent \ {p}
      PROVE  IsFiniteSet(T) /\ Cardinality(T) \in Nat /\ Cardinality(T) = Cardinality(sent) - 1
  <2>1. IsFiniteSet(T) /\ Cardinality(T) = Cardinality(sent) - 1
    BY <1>1, <1>3, FS_RemoveElement
  <2> QED
    BY <2>1, FS_CardinalityType
<1> QED
  BY <1>1, <1>2, <1>3

LEMMA DueNext ==
  ASSUME TypeOK, Positions, Streams, Questions, Lines, Bounded, [Next]_vars
  PROVE  IsFiniteSet(sent') /\ Len(log') + Due' <= MaxEvents
<1> DEFINE Goal == IsFiniteSet(sent') /\ Len(log') + Due' <= MaxEvents
           b == Cardinality(sent)
           c == Cardinality(ChatsAhead)
           B == Cardinality(sent')
           C == Cardinality(ChatsAhead')
           Old == Len(log) + b + c + Telling + Replying
           New == Len(log') + B + C + Telling' + Replying'
<1> SUFFICES Goal
  OBVIOUS
<1>1. Due' = B + C + Telling' + Replying'
  BY DEF Due, Replying, Telling
<1>2. /\ b \in Nat /\ c \in Nat /\ Len(log) \in Nat /\ MaxEvents \in Nat
      /\ Telling \in {0, 1} /\ Replying \in {0, 1}
      /\ Len(log) + (b + c + Telling + Replying) <= MaxEvents
  BY DueFacts, EventsAssumption DEF Bounded, Telling, Replying
<1>3. Telling' \in {0, 1} /\ Replying' \in {0, 1} /\ Len(log') \in Nat
  BY LogGrows DEF Telling, Replying
<1>4. ASSUME IsFiniteSet(sent'), B \in Nat, C \in Nat,
             \/ New <= Old
             \/ Room(1) /\ New <= Old + 1
             \/ Room(2) /\ New <= Old + 2
      PROVE  Goal
  <2>1. /\ Room(1) => Len(log) + (b + c + Telling + Replying) + 1 <= MaxEvents
        /\ Room(2) => Len(log) + (b + c + Telling + Replying) + 2 <= MaxEvents
    BY DueFacts DEF Room
  <2>2. /\ Old \in Nat /\ Old <= MaxEvents /\ New \in Nat
        /\ New = Len(log') + (B + C + Telling' + Replying')
        /\ (Room(1) => Old + 1 <= MaxEvents) /\ (Room(2) => Old + 2 <= MaxEvents)
    <3> HIDE DEF b, c, B, C
    <3> QED BY <1>2, <1>3, <1>4, <2>1
  <2>3. New <= MaxEvents
    <3> HIDE DEF Old, New
    <3> QED BY <1>2, <1>4, <2>2
  <2> HIDE DEF b, c, B, C, New
  <2> QED
    BY <1>1, <1>4, <2>2, <2>3
<1>5. IsFiniteSet(sent)
  BY DEF Bounded
(* The steps that leave the lines in hand and the loop's question alone. *)
<1>6. ASSUME UNCHANGED <<sent, asking>>, C \in Nat,
             \/ Len(log') + C + Telling' <= Len(log) + c + Telling
             \/ Room(1) /\ Len(log') + C + Telling' <= Len(log) + c + Telling + 1
             \/ Room(2) /\ Len(log') + C + Telling' <= Len(log) + c + Telling + 2
      PROVE  Goal
  <2>1. B = b /\ Replying' = Replying
    BY <1>6 DEF Replying
  <2>2. sent' = sent
    BY <1>6
  <2> HIDE DEF b, c, B, C
  <2>3. \/ New <= Old
        \/ Room(1) /\ New <= Old + 1
        \/ Room(2) /\ New <= Old + 2
    BY <1>2, <1>3, <1>6, <2>1
  <2> HIDE DEF Goal, New, Old
  <2> QED
    BY <1>2, <1>4, <1>5, <1>6, <2>1, <2>2, <2>3
<1>7. log' = log => C \in Nat /\ C <= c
  BY AheadStep, AheadCount
<1>8. \A e \in Event : Publish(e) =>
        /\ Len(log') = Len(log) + 1
        /\ C \in Nat /\ C <= c + 1
        /\ e # Received => C <= c
  BY AheadStep, AheadCount, PublishGrows
<1>9. CASE UNCHANGED <<autoVars, pushVars, announcing>> /\ log' = log
  <2>1. UNCHANGED <<sent, asking>> /\ Telling' = Telling
    BY <1>9 DEF autoVars, pushVars, Telling
  <2>2. C \in Nat /\ Len(log') + C + Telling' <= Len(log) + c + Telling
    <3> HIDE DEF C, c
    <3> QED BY <1>2, <1>7, <1>9, <2>1
  <2> HIDE DEF Goal, C, c
  <2> QED
    BY <1>6, <2>1, <2>2 DEF Goal
<1>10. ASSUME NEW v \in PeerStatus, PeerChange(v) PROVE Goal
  <2>1. UNCHANGED <<sent, asking>> /\ log' = log /\ Room(1)
    BY <1>10 DEF PeerChange, autoVars, pushVars
  <2>2. C \in Nat /\ Len(log') + C + Telling' <= Len(log) + c + Telling + 1
    <3> HIDE DEF C, c
    <3> QED BY <1>2, <1>3, <1>7, <2>1
  <2> HIDE DEF Goal, C, c
  <2> QED
    BY <1>6, <2>1, <2>2
<1>11. CASE AnnouncePeer
  <2>1. UNCHANGED <<sent, asking>> /\ Telling = 1 /\ Telling' = 0
    BY <1>11 DEF AnnouncePeer, autoVars, pushVars, Telling
  <2>2. Len(log') = Len(log) + 1 /\ C \in Nat /\ C <= c
    <3>1. /\ Changed(peerStatus) \in Event /\ Changed(peerStatus) # Received
          /\ Publish(Changed(peerStatus))
      BY <1>11, NewEvents DEF TypeOK, AnnouncePeer
    <3> QED
      BY <1>8, <3>1
  <2>3. C \in Nat /\ Len(log') + C + Telling' <= Len(log) + c + Telling
    <3> HIDE DEF C, c
    <3> QED BY <1>2, <2>1, <2>2
  <2> HIDE DEF Goal, C, c
  <2> QED
    BY <1>6, <2>1, <2>3
<1>12. CASE ChatFromDevice
  <2>1. UNCHANGED <<sent, asking>> /\ Telling' = Telling /\ Room(2)
    BY <1>12 DEF ChatFromDevice, autoVars, pushVars, peerVars, Telling
  <2>2. Len(log') = Len(log) + 1 /\ C \in Nat /\ C <= c + 1
    BY <1>8, <1>12, NewEvents DEF ChatFromDevice
  <2>3. C \in Nat /\ Len(log') + C + Telling' <= Len(log) + c + Telling + 2
    <3> HIDE DEF C, c
    <3> QED BY <1>2, <2>1, <2>2
  <2> HIDE DEF Goal, C, c
  <2> QED
    BY <1>6, <2>1, <2>3
<1>13. CASE HandlerReport
  <2>1. UNCHANGED <<sent, asking>> /\ Telling' = Telling /\ Room(1)
    BY <1>13 DEF HandlerReport, autoVars, pushVars, peerVars, Telling
  <2>2. Len(log') = Len(log) + 1 /\ C \in Nat /\ C <= c
    BY <1>8, <1>13, NewEvents DEF HandlerReport
  <2>3. C \in Nat /\ Len(log') + C + Telling' <= Len(log) + c + Telling + 1
    <3> HIDE DEF C, c
    <3> QED BY <1>2, <2>1, <2>2
  <2> HIDE DEF Goal, C, c
  <2> QED
    BY <1>6, <2>1, <2>3
<1>14. CASE AutoReceive
  <2> DEFINE n == cursor[AutoReply]
  <2>1. log' = log /\ UNCHANGED <<pushVars, announcing>>
    BY <1>14 DEF AutoReceive, peerVars
  <2>2. CASE UNCHANGED autoVars
    BY <1>9, <2>1, <2>2
  <2>3. CASE log[n].kind = "received" /\ asking' = n /\ asked' = asked \cup {n}
    <3>1. /\ AutoReply \in Receiver /\ n \in 1 .. Len(log) /\ log[n] = Received
          /\ task[AutoReply] = "running" /\ task'[AutoReply] = "running"
          /\ cursor'[AutoReply] = n + 1
      <4>1. Receive(AutoReply) /\ AutoReply \in Receiver
        BY <1>14 DEF AutoReceive, Receiver
      <4>2. n \in 1 .. Len(log) /\ log[n] \in Event
        BY <4>1, ReceiveType
      <4> QED
        BY <4>1, <4>2, <2>3, EventShape DEF Receive, TypeOK
    <3>2. n \in ChatsAhead /\ ChatsAhead' \subseteq ChatsAhead \ {n}
      <4>1. n \in n .. Len(log) /\ \A m \in n + 1 .. Len(log) : m \in n .. Len(log) /\ m # n
        <5>1. n \in Nat /\ n <= Len(log)
          BY <1>2, <3>1
        <5> HIDE DEF n
        <5> QED BY <1>2, <5>1
      <4>2. /\ ChatsAhead = {m \in n .. Len(log) : log[m] = Received}
            /\ ChatsAhead' = {m \in n + 1 .. Len(log) : log[m] = Received}
        BY <2>1, <3>1 DEF ChatsAhead
      <4> HIDE DEF n
      <4> QED
        BY <3>1, <4>1, <4>2
    <3>3. C \in Nat /\ C <= c - 1
      BY <3>2, AheadCount
    <3>4. sent' = sent /\ B = b /\ Telling' = Telling /\ Replying = 0
      BY <1>14, <2>1 DEF AutoReceive, pushVars, Telling, Replying
    <3>5. New <= Old
      <4> HIDE DEF b, c, B, C
      <4> QED BY <1>2, <1>3, <2>1, <3>3, <3>4
    <3>6. IsFiniteSet(sent') /\ B \in Nat /\ C \in Nat
      BY <1>2, <1>5, <3>3, <3>4
    <3> HIDE DEF Goal, b, c, B, C, Old, New
    <3> QED
      BY <1>4, <3>5, <3>6
  <2> QED
    BY <1>14, <2>2, <2>3 DEF AutoReceive
<1>15. CASE AutoFail
  <2>1. log' = log /\ sent' = sent /\ B = b /\ Telling' = Telling /\ Replying' = 0 /\ Replying = 1
    BY <1>15 DEF AutoFail, pushVars, peerVars, Telling, Replying
  <2>2. New <= Old
    <3> HIDE DEF b, c, B, C
    <3> QED BY <1>2, <1>7, <2>1
  <2>3. IsFiniteSet(sent') /\ B \in Nat /\ C \in Nat
    BY <1>2, <1>5, <1>7, <2>1
  <2> HIDE DEF Goal, b, c, B, C, Old, New
  <2> QED
    BY <1>4, <2>2, <2>3
<1>16. CASE AutoPush
  <2>1. log' = log /\ Telling' = Telling /\ Replying' = 0 /\ Replying = 1
    <3>1. [by |-> "auto", n |-> asking] \in sent'
      BY <1>16 DEF AutoPush, ToDevice
    <3> QED
      BY <1>16, <3>1 DEF AutoPush, autoVars, peerVars, Telling, Replying
  <2>2. IsFiniteSet(sent') /\ B \in Nat /\ B <= b + 1
    <3>1. sent' = sent \cup {[by |-> "auto", n |-> asking]}
      BY <1>16 DEF AutoPush, ToDevice
    <3> QED
      BY <3>1, SentCount
  <2>3. C \in Nat /\ New <= Old
    <3> HIDE DEF b, c, B, C
    <3> QED BY <1>2, <1>7, <2>1, <2>2
  <2> HIDE DEF Goal, b, c, B, C, Old, New
  <2> QED
    BY <1>4, <2>2, <2>3
<1>17. ASSUME NEW by \in {"tool", "line"}, ClientPush(by) PROVE Goal
  <2> DEFINE p == [by |-> by, n |-> Len(device) + 1]
             a == [by |-> "auto", n |-> asking]
  <2>1. log' = log /\ Telling' = Telling /\ Room(1) /\ ToDevice(p) /\ asking' = asking
    BY <1>17 DEF ClientPush, peerVars, autoVars, Telling
  <2>2. IsFiniteSet(sent') /\ B \in Nat /\ B <= b + 1
    <3>1. CASE sent' = sent
      BY <1>2, <1>5, <3>1
    <3>2. CASE sent' = sent \cup {p}
      BY <3>2, SentCount
    <3> QED
      BY <2>1, <3>1, <3>2 DEF ToDevice
  <2>3. Replying' <= Replying
    <3>1. a \in sent' <=> a \in sent
      BY <2>1 DEF ToDevice
    <3>2. Replying' = Replying
      BY <2>1, <3>1 DEF Replying
    <3> QED
      BY <1>2, <3>2
  <2>4. C \in Nat /\ New <= Old + 1
    <3> HIDE DEF b, c, B, C
    <3> QED BY <1>2, <1>3, <1>7, <2>1, <2>2, <2>3
  <2> HIDE DEF Goal, b, c, B, C, Old, New
  <2> QED
    BY <1>4, <2>1, <2>2, <2>4
<1>18. ASSUME NEW p \in sent, AnnouncePush(p) PROVE Goal
  <2> DEFINE a == [by |-> "auto", n |-> asking]
  <2>1. /\ Publish(Pushed(p)) /\ sent' = sent \ {p} /\ Telling' = Telling
        /\ asking' = (IF p.by = "auto" THEN 0 ELSE asking)
    BY <1>18 DEF AnnouncePush, peerVars, Telling
  <2>2. Len(log') = Len(log) + 1 /\ C \in Nat /\ C <= c
    <3>1. Pushed(p) \in Event /\ Pushed(p) # Received
      BY NewEvents DEF TypeOK
    <3> QED
      BY <1>8, <2>1, <3>1
  <2>3. IsFiniteSet(sent') /\ B \in Nat /\ B = b - 1
    BY <2>1, SentCount
  <2>4. Replying' <= Replying
    <3>1. CASE p.by = "auto"
      <4>1. Replying' = 0
        BY <2>1, <3>1 DEF Replying
      <4> QED
        BY <1>2, <4>1
    <3>2. CASE p.by # "auto"
      <4>1. a \in sent' <=> a \in sent
        BY <2>1, <3>2
      <4>2. Replying' = Replying
        BY <2>1, <3>2, <4>1 DEF Replying
      <4> QED
        BY <1>2, <4>2
    <3> QED
      BY <3>1, <3>2
  <2>5. New <= Old
    <3> HIDE DEF b, c, B, C
    <3> QED BY <1>2, <1>3, <2>1, <2>2, <2>3, <2>4
  <2> HIDE DEF Goal, b, c, B, C, Old, New
  <2> QED
    BY <1>4, <2>2, <2>3, <2>5
<1>19. ASSUME NEW p \in sent, ForgetPush(p) PROVE Goal
  <2> DEFINE a == [by |-> "auto", n |-> asking]
  <2>1. /\ log' = log /\ sent' = sent \ {p} /\ Telling' = Telling
        /\ asking' = asking /\ p.by = "tool"
    BY <1>19 DEF ForgetPush, peerVars, autoVars, Telling
  <2>2. IsFiniteSet(sent') /\ B \in Nat /\ B = b - 1
    BY <2>1, SentCount
  <2>3. Replying' = Replying
    <3>1. a \in sent' <=> a \in sent
      BY <2>1
    <3> QED
      BY <2>1, <3>1 DEF Replying
  <2>4. C \in Nat /\ New <= Old
    <3> HIDE DEF b, c, B, C
    <3> QED BY <1>2, <1>3, <1>7, <2>1, <2>2, <2>3
  <2> HIDE DEF Goal, b, c, B, C, Old, New
  <2> QED
    BY <1>4, <2>2, <2>4
<1>20. CASE \/ Serve \/ Record
            \/ \E r \in Receiver : StartTask(r) \/ StopLagged(r)
            \/ \E s \in Session : \/ OpenStream(s) \/ LeaveStream(s) \/ Pick(s) \/ Forward(s)
                                  \/ OtherTraffic(s) \/ ReadStream(s)
            \/ UNCHANGED vars
  <2>1. UNCHANGED <<autoVars, pushVars, announcing>> /\ log' = log
    BY <1>20 DEF Serve, Record, StartTask, StopLagged, OpenStream, LeaveStream, Pick, Forward,
                 OtherTraffic, ReadStream, vars, eventVars, peerVars
  <2> QED
    BY <1>9, <2>1
<1> HIDE DEF Goal
<1> HIDE DEF Goal, b, c, B, C, Old, New
<1> QED
  BY <1>10, <1>11, <1>12, <1>13, <1>14, <1>15, <1>16, <1>17, <1>18, <1>19, <1>20 DEF Next

LEMMA ClientLinesNext ==
  ASSUME TypeOK, Questions, Lines, Bounded, [Next]_vars
  PROVE  Cardinality(ClientLines') <= MaxPushes
<1> DEFINE Kept == ClientLines' = ClientLines
<1>0. /\ IsFiniteSet(ClientLines) /\ Cardinality(ClientLines) \in Nat /\ MaxPushes \in Nat
      /\ Cardinality(ClientLines) <= MaxPushes /\ Len(device) \in Nat
  <2>1. Len(device) \in Nat
    BY LenProperties DEF TypeOK
  <2>2. IsFiniteSet(1 .. Len(device))
    BY <2>1, FS_Interval
  <2>3. IsFiniteSet(ClientLines)
    BY <2>2, FS_Subset DEF ClientLines
  <2> QED
    BY <2>1, <2>3, FS_CardinalityType, EventsAssumption DEF Bounded
<1>1. CASE device' = device
  BY <1>0, <1>1 DEF ClientLines
<1>2. CASE AutoPush
  <2> DEFINE p == [by |-> "auto", n |-> asking]
  <2>1. p \in Push /\ p.by = "auto" /\ ToDevice(p)
    BY <1>2, AutoLine
  <2> HIDE DEF p
  <2>2. /\ Len(device') = Len(device) + 1
        /\ \A i \in 1 .. Len(device) : device'[i] = device[i]
        /\ device'[Len(device) + 1] = p
    BY <2>1, ToDeviceFacts
  <2>3. ClientLines' = ClientLines
    <3>1. 1 .. Len(device') = 1 .. Len(device) \cup {Len(device) + 1}
      BY <1>0, <2>2
    <3> QED
      BY <2>1, <2>2, <3>1 DEF ClientLines
  <2> QED
    BY <1>0, <2>3
<1>3. ASSUME NEW by \in {"tool", "line"}, ClientPush(by)
      PROVE  Cardinality(ClientLines') <= MaxPushes
  <2> DEFINE p == [by |-> by, n |-> Len(device) + 1]
             L == Len(device) + 1
  <2>1. p \in Push /\ ToDevice(p)
    BY <1>3, ClientLine
  <2>2. /\ Len(device') = L
        /\ \A i \in 1 .. Len(device) : device'[i] = device[i]
    <3> HIDE DEF p
    <3> QED BY <2>1, ToDeviceFacts
  <2>3. ClientLines' \subseteq ClientLines \cup {L}
    <3>1. 1 .. Len(device') = 1 .. Len(device) \cup {L}
      BY <1>0, <2>2
    <3> HIDE DEF L
    <3> QED
      BY <2>2, <3>1 DEF ClientLines
  <2>4. Cardinality(ClientLines) < MaxPushes
    BY <1>3 DEF ClientPush, ClientLines
  <2> HIDE DEF L
  <2>5. /\ IsFiniteSet(ClientLines \cup {L})
        /\ Cardinality(ClientLines \cup {L}) \in {Cardinality(ClientLines), Cardinality(ClientLines) + 1}
    BY <1>0, FS_AddElement
  <2>6. Cardinality(ClientLines') \in Nat
        /\ Cardinality(ClientLines') <= Cardinality(ClientLines \cup {L})
    BY <2>3, <2>5, FS_Subset, FS_CardinalityType
  <2> QED
    BY <1>0, <2>4, <2>5, <2>6
<1>4. device' = device \/ AutoPush \/ \E by \in {"tool", "line"} : ClientPush(by)
  BY PushSteps DEF Pushes, pushVars, AutoReceive, AutoFail, AnnouncePush, ForgetPush
<1> QED
  BY <1>1, <1>2, <1>3, <1>4

LEMMA BoundedNext ==
  ASSUME TypeOK, Positions, Streams, Questions, Lines, Bounded, [Next]_vars
  PROVE  Bounded'
BY DueNext, ClientLinesNext DEF Bounded

-----------------------------------------------------------------------------

LEMMA AnnouncedNext ==
  ASSUME TypeOK, Questions, Lines, Bounded, Announced, [Next]_vars
  PROVE  Announced'
<1>0. /\ Len(log) \in Nat /\ Len(device) \in Nat
      /\ \A i \in 1 .. Len(device) : device[i] \in Push
  BY LenProperties, ElementOfSeq DEF TypeOK
(* While the log stays as it is, only the lines in hand and the loop matter. *)
<1>1. ASSUME log' = log, Len(device') \in Nat, Len(device) <= Len(device'),
             \A i \in 1 .. Len(device) : device'[i] = device[i],
             asked \subseteq asked',
             \A n \in 1 .. Len(log) : log[n].kind = "pushed" =>
               /\ log[n].push \notin sent'
               /\ log[n].push.by = "auto" /\ asking' # 0 => log[n].push.n < asking'
      PROVE  Announced'
  <2>1. \A n \in 1 .. Len(log) : log[n].kind = "pushed" =>
          \E i \in 1 .. Len(device') : device'[i] = log[n].push
    <3> SUFFICES ASSUME NEW n \in 1 .. Len(log), log[n].kind = "pushed"
                 PROVE  \E i \in 1 .. Len(device') : device'[i] = log[n].push
      OBVIOUS
    <3>1. PICK i \in 1 .. Len(device) : device[i] = log[n].push
      BY DEF Announced
    <3>2. i \in 1 .. Len(device')
      BY <1>0, <1>1
    <3> QED
      BY <1>1, <3>1, <3>2
  <2>2. \A n \in 1 .. Len(log) : log[n].kind = "pushed" /\ log[n].push.by = "auto" =>
          log[n].push.n \in asked' /\ log[n].push.n < n
    BY <1>1 DEF Announced
  <2>3. \A m, n \in 1 .. Len(log) :
          m < n /\ log[m].kind = "pushed" /\ log[n].kind = "pushed" =>
            /\ log[m].push # log[n].push
            /\ log[m].push.by = "auto" /\ log[n].push.by = "auto" => log[m].push.n < log[n].push.n
    BY DEF Announced
  <2> QED
    BY <1>1, <2>1, <2>2, <2>3 DEF Announced
<1>2. CASE UNCHANGED <<autoVars, pushVars>> /\ log' = log
  BY <1>0, <1>1, <1>2 DEF Announced, autoVars, pushVars
<1>3. ASSUME NEW e \in Event, Publish(e), e.kind # "pushed", UNCHANGED <<autoVars, pushVars>>
      PROVE  Announced'
  <2>1. /\ Len(log') = Len(log) + 1
        /\ \A n \in 1 .. Len(log) : log'[n] = log[n]
        /\ log'[Len(log) + 1] = e
    BY <1>3, PublishGrows
  <2>2. \A n \in 1 .. Len(log') : log'[n].kind = "pushed" => n \in 1 .. Len(log) /\ log'[n] = log[n]
    BY <1>0, <1>3, <2>1
  <2>3. UNCHANGED <<asking, asked, device, sent>>
    BY <1>3 DEF autoVars, pushVars
  <2> QED
    BY <2>2, <2>3 DEF Announced
<1>4. CASE AutoReceive
  <2> DEFINE n == cursor[AutoReply]
  <2>1. log' = log /\ device' = device /\ sent' = sent
    BY <1>4 DEF AutoReceive, pushVars
  <2>2. CASE UNCHANGED autoVars
    BY <1>2, <2>1, <2>2 DEF pushVars
  <2>3. CASE asking' = n /\ asked' = asked \cup {n}
    <3>1. \A m \in 1 .. Len(log) : log[m].kind = "pushed" =>
            /\ log[m].push \notin sent'
            /\ log[m].push.by = "auto" => log[m].push.n < n
      BY <2>1 DEF Announced, Questions
    <3> HIDE DEF n
    <3> QED
      BY <1>0, <1>1, <2>1, <2>3, <3>1
  <2> QED
    BY <1>4, <2>2, <2>3 DEF AutoReceive
<1>5. CASE AutoFail
  <2>1. log' = log /\ asking' = 0 /\ UNCHANGED <<asked, device, sent>>
    BY <1>5 DEF AutoFail, pushVars
  <2> QED
    BY <1>0, <1>1, <2>1 DEF Announced
<1>6. ASSUME NEW p \in Push, ToDevice(p), log' = log, UNCHANGED <<asking, asked>>,
             \A n \in 1 .. Len(log) : log[n].kind = "pushed" => log[n].push # p
      PROVE  Announced'
  <2>1. /\ Len(device') = Len(device) + 1
        /\ \A i \in 1 .. Len(device) : device'[i] = device[i]
        /\ sent' \subseteq sent \cup {p}
    BY <1>6, ToDeviceFacts
  <2>2. Len(device') \in Nat /\ Len(device) <= Len(device')
    BY <1>0, <2>1
  <2>3. \A n \in 1 .. Len(log) : log[n].kind = "pushed" =>
          /\ log[n].push \notin sent'
          /\ log[n].push.by = "auto" /\ asking' # 0 => log[n].push.n < asking'
    BY <1>6, <2>1 DEF Announced
  <2> QED
    BY <1>1, <1>6, <2>1, <2>2, <2>3
<1>7. CASE AutoPush
  <2> DEFINE p == [by |-> "auto", n |-> asking]
  <2>1. /\ p \in Push /\ p.by = "auto" /\ p.n = asking /\ asking # 0 /\ ToDevice(p)
    BY <1>7, AutoLine
  <2>2. log' = log /\ UNCHANGED <<asking, asked>>
    BY <1>7 DEF AutoPush, autoVars
  <2>3. asking \in Nat
    BY PositionNat DEF TypeOK
  <2> HIDE DEF p
  <2>4. \A n \in 1 .. Len(log) : log[n].kind = "pushed" => log[n].push # p
    <3> SUFFICES ASSUME NEW n \in 1 .. Len(log), log[n].kind = "pushed", log[n].push = p PROVE FALSE
      OBVIOUS
    <3>1. log[n].push.n < asking
      BY <2>1 DEF Announced
    <3> QED
      BY <2>1, <2>3, <3>1
  <2> QED
    BY <1>6, <2>1, <2>2, <2>4
<1>8. ASSUME NEW by \in {"tool", "line"}, ClientPush(by) PROVE Announced'
  <2> DEFINE p == [by |-> by, n |-> Len(device) + 1]
  <2>1. p \in Push /\ p.by = by /\ p.n = Len(device) + 1 /\ ToDevice(p)
    BY <1>8, ClientLine
  <2>2. log' = log /\ UNCHANGED <<asking, asked>>
    BY <1>8 DEF ClientPush, autoVars
  <2> HIDE DEF p
  <2>3. \A n \in 1 .. Len(log) : log[n].kind = "pushed" => log[n].push # p
    <3> SUFFICES ASSUME NEW n \in 1 .. Len(log), log[n].kind = "pushed", log[n].push = p PROVE FALSE
      OBVIOUS
    <3>1. PICK i \in 1 .. Len(device) : device[i] = p
      BY DEF Announced
    <3>2. p.n = i
      BY <2>1, <3>1 DEF Lines
    <3> QED
      BY <1>0, <2>1, <3>2
  <2> QED
    BY <1>6, <2>1, <2>2, <2>3
<1>9. ASSUME NEW p \in sent, AnnouncePush(p) PROVE Announced'
  <2> DEFINE L == Len(log) + 1
  <2>1. /\ Publish(Pushed(p)) /\ sent' = sent \ {p} /\ UNCHANGED <<asked, device>>
        /\ asking' = (IF p.by = "auto" THEN 0 ELSE asking)
    BY <1>9 DEF AnnouncePush
  <2>2. /\ p \in Push /\ Pushed(p) \in Event /\ Pushed(p).kind = "pushed" /\ Pushed(p).push = p
    BY NewEvents DEF TypeOK
  <2>3. /\ Len(log') = L /\ L \in Nat
        /\ \A n \in 1 .. Len(log) : log'[n] = log[n]
        /\ log'[L].kind = "pushed" /\ log'[L].push = p
    BY <1>0, <2>1, <2>2, PublishGrows
  <2>4. \A n \in 1 .. L : n \in 1 .. Len(log) \/ n = L
    BY <1>0
  <2>5. /\ \E i \in 1 .. Len(device) : device[i] = p
        /\ p.by = "auto" => p.n = asking /\ asking # 0
    BY <2>2, PushShape DEF Lines
  <2>6. p.by = "auto" => p.n \in asked /\ p.n < L
    <3>1. \A n \in asked : n \in 1 .. Len(log)
      BY DEF Questions
    <3>2. \A n \in 1 .. Len(log) : n < L
      BY <1>0
    <3>3. asking # 0 => asking \in asked
      BY DEF Questions
    <3> QED
      BY <2>5, <3>1, <3>2, <3>3
  <2>7. \A m \in 1 .. Len(log) : log[m].kind = "pushed" =>
          /\ log[m].push # p
          /\ log[m].push.by = "auto" /\ p.by = "auto" => log[m].push.n < p.n
    BY <2>5 DEF Announced
  <2> HIDE DEF L
  <2>8. \A n \in 1 .. L : log'[n].kind = "pushed" =>
          /\ log'[n].push \notin sent'
          /\ \E i \in 1 .. Len(device) : device[i] = log'[n].push
          /\ log'[n].push.by = "auto" => /\ log'[n].push.n \in asked /\ log'[n].push.n < n
                                         /\ asking' # 0 => log'[n].push.n < asking'
    <3> SUFFICES ASSUME NEW n \in 1 .. L, log'[n].kind = "pushed"
                 PROVE  /\ log'[n].push \notin sent'
                        /\ \E i \in 1 .. Len(device) : device[i] = log'[n].push
                        /\ log'[n].push.by = "auto" =>
                             /\ log'[n].push.n \in asked /\ log'[n].push.n < n
                             /\ asking' # 0 => log'[n].push.n < asking'
      OBVIOUS
    <3>1. CASE n \in 1 .. Len(log)
      BY <2>1, <2>3, <3>1 DEF Announced
    <3>2. CASE n = L
      BY <2>1, <2>3, <2>5, <2>6, <3>2
    <3> QED
      BY <2>4, <3>1, <3>2
  <2>9. \A m, n \in 1 .. L :
          m < n /\ log'[m].kind = "pushed" /\ log'[n].kind = "pushed" =>
            /\ log'[m].push # log'[n].push
            /\ log'[m].push.by = "auto" /\ log'[n].push.by = "auto" =>
                 log'[m].push.n < log'[n].push.n
    <3> SUFFICES ASSUME NEW m \in 1 .. L, NEW n \in 1 .. L, m < n,
                        log'[m].kind = "pushed", log'[n].kind = "pushed"
                 PROVE  /\ log'[m].push # log'[n].push
                        /\ log'[m].push.by = "auto" /\ log'[n].push.by = "auto" =>
                             log'[m].push.n < log'[n].push.n
      OBVIOUS
    <3>1. m \in 1 .. Len(log)
      BY <1>0, <2>3, <2>4
    <3>2. CASE n \in 1 .. Len(log)
      BY <2>3, <3>1, <3>2 DEF Announced
    <3>3. CASE n = L
      BY <2>3, <2>7, <3>1, <3>3
    <3> QED
      BY <2>4, <3>2, <3>3
  <2> QED
    BY <2>1, <2>3, <2>8, <2>9 DEF Announced
<1>10. ASSUME NEW p \in sent, ForgetPush(p) PROVE Announced'
  <2>1. log' = log /\ sent' = sent \ {p} /\ UNCHANGED <<asking, asked, device>>
    BY <1>10 DEF ForgetPush, autoVars
  <2> QED
    BY <1>0, <1>1, <2>1 DEF Announced
<1> QED
  BY <1>2, <1>3, <1>4, <1>5, <1>7, <1>8, <1>9, <1>10, PushSteps DEF Pushes

-----------------------------------------------------------------------------
(* How a step changes what the runtime has said of the session. *)
LEMMA PeerSteps ==
  ASSUME TypeOK, [Next]_vars
  PROVE  \/ announcing'
         \/ UNCHANGED <<announcing, peerStatus>> /\ log' = log
         \/ /\ UNCHANGED <<announcing, peerStatus>>
            /\ \E e \in Event : Publish(e) /\ e.kind # "status"
         \/ AnnouncePeer
<1> DEFINE Goal == \/ announcing'
                   \/ UNCHANGED <<announcing, peerStatus>> /\ log' = log
                   \/ /\ UNCHANGED <<announcing, peerStatus>>
                      /\ \E e \in Event : Publish(e) /\ e.kind # "status"
                   \/ AnnouncePeer
<1> SUFFICES Goal
  OBVIOUS
<1>1. ASSUME NEW v \in PeerStatus, PeerChange(v) PROVE Goal
  BY <1>1 DEF PeerChange
<1>2. CASE Serve \/ Record \/ AutoReceive \/ AutoFail \/ AutoPush
  BY <1>2 DEF Serve, Record, AutoReceive, AutoFail, AutoPush, peerVars
<1>3. CASE ChatFromDevice \/ HandlerReport
  <2>1. /\ Received \in Event /\ Received.kind # "status"
        /\ Other \in Event /\ Other.kind # "status"
    BY NewEvents
  <2> QED
    BY <1>3, <2>1 DEF ChatFromDevice, HandlerReport, peerVars
<1>4. ASSUME NEW r \in Receiver, StartTask(r) \/ StopLagged(r) PROVE Goal
  BY <1>4 DEF StartTask, StopLagged, peerVars
<1>5. ASSUME NEW by \in {"tool", "line"}, ClientPush(by) PROVE Goal
  BY <1>5 DEF ClientPush, peerVars
<1>6. ASSUME NEW p \in sent, AnnouncePush(p) PROVE Goal
  <2>1. Pushed(p) \in Event /\ Pushed(p).kind # "status"
    BY NewEvents DEF TypeOK
  <2> QED
    BY <1>6, <2>1 DEF AnnouncePush, peerVars
<1>7. ASSUME NEW p \in sent, ForgetPush(p) PROVE Goal
  BY <1>7 DEF ForgetPush, peerVars
<1>8. ASSUME NEW s \in Session,
             \/ OpenStream(s) \/ LeaveStream(s) \/ Pick(s) \/ Forward(s)
             \/ OtherTraffic(s) \/ ReadStream(s)
      PROVE  Goal
  BY <1>8 DEF OpenStream, LeaveStream, Pick, Forward, OtherTraffic, ReadStream, eventVars, peerVars
<1>9. CASE UNCHANGED vars
  BY <1>9 DEF vars, eventVars, peerVars
<1>10. CASE AnnouncePeer
  BY <1>10
<1> HIDE DEF Goal
<1> QED
  BY <1>1, <1>2, <1>3, <1>4, <1>5, <1>6, <1>7, <1>8, <1>9, <1>10 DEF Next

(* How a step changes what the recorder has. *)
LEMMA RecorderSteps ==
  ASSUME TypeOK, Fresh, [Next]_vars
  PROVE  \/ UNCHANGED <<from[Recorder], cursor[Recorder], history, status>>
         \/ Record
         \/ /\ log' = log /\ UNCHANGED <<history, status>> /\ history = <<>> /\ status = "None"
            /\ from'[Recorder] = Len(log) + 1 /\ cursor'[Recorder] = Len(log) + 1
<1> DEFINE Kept == UNCHANGED <<from[Recorder], cursor[Recorder], history, status>>
           Begun == /\ log' = log /\ UNCHANGED <<history, status>> /\ history = <<>> /\ status = "None"
                    /\ from'[Recorder] = Len(log) + 1 /\ cursor'[Recorder] = Len(log) + 1
<1> SUFFICES Kept \/ Record \/ Begun
  OBVIOUS
<1>0. /\ Recorder \in Receiver /\ AutoReply \in Receiver /\ Session \subseteq Receiver
      /\ Recorder \notin Session /\ Recorder # AutoReply
  BY EventsAssumption DEF Receiver
<1>1. ASSUME NEW v \in PeerStatus, PeerChange(v) PROVE Kept
  BY <1>1 DEF PeerChange, taskVars, recordVars
<1>2. CASE \/ AnnouncePeer \/ Serve \/ ChatFromDevice \/ HandlerReport \/ AutoFail \/ AutoPush
  BY <1>2 DEF AnnouncePeer, Serve, ChatFromDevice, HandlerReport, AutoFail, AutoPush, taskVars,
              recordVars
<1>3. ASSUME NEW r \in Receiver, StartTask(r) PROVE Kept \/ Begun
  <2>1. UNCHANGED <<log, history, status>> /\ Subscribe(r) /\ task[r] = "spawned"
    BY <1>3 DEF StartTask, recordVars
  <2>2. CASE r = Recorder
    BY <1>0, <2>1, <2>2 DEF Fresh, Subscribe, TypeOK
  <2>3. CASE r # Recorder
    BY <1>0, <2>1, <2>3 DEF Subscribe, TypeOK
  <2> QED
    BY <2>2, <2>3
<1>4. ASSUME NEW r \in Receiver, StopLagged(r) PROVE Kept
  BY <1>4 DEF StopLagged, recordVars
<1>5. CASE AutoReceive
  BY <1>0, <1>5 DEF AutoReceive, Receive, recordVars, TypeOK
<1>6. ASSUME NEW by \in {"tool", "line"}, ClientPush(by) PROVE Kept
  BY <1>6 DEF ClientPush, taskVars, recordVars
<1>7. ASSUME NEW p \in sent, AnnouncePush(p) \/ ForgetPush(p) PROVE Kept
  BY <1>7 DEF AnnouncePush, ForgetPush, taskVars, recordVars
<1>8. ASSUME NEW s \in Session, OpenStream(s) PROVE Kept
  BY <1>0, <1>8 DEF OpenStream, Subscribe, recordVars, TypeOK
<1>9. ASSUME NEW s \in Session, Pick(s) PROVE Kept
  BY <1>0, <1>9 DEF Pick, Receive, recordVars, TypeOK
<1>10. ASSUME NEW s \in Session, LeaveStream(s) \/ Forward(s) \/ OtherTraffic(s) \/ ReadStream(s)
       PROVE  Kept
  BY <1>10 DEF LeaveStream, Forward, OtherTraffic, ReadStream, eventVars, taskVars, recordVars
<1>11. CASE UNCHANGED vars
  BY <1>11 DEF vars, eventVars, taskVars, recordVars
<1> HIDE DEF Kept, Begun
<1> QED
  BY <1>1, <1>2, <1>3, <1>4, <1>5, <1>6, <1>7, <1>8, <1>9, <1>10, <1>11 DEF Next

LEMMA SnapshotNext ==
  ASSUME TypeOK, Positions, Fresh, Snapshot, [Next]_vars
  PROVE  Snapshot'
<1>0. /\ Recorder \in Receiver /\ Len(log) \in Nat /\ cursor[Recorder] \in Nat
      /\ cursor[Recorder] <= Len(log) + 1
  BY LenProperties, PositionNat DEF TypeOK, Positions, Receiver
<1>1. /\ Len(log') \in Nat /\ Len(log) <= Len(log')
      /\ \A n \in 1 .. Len(log) : n \in 1 .. Len(log') /\ log'[n] = log[n]
  BY LogGrows
<1>2. \A n \in 1 .. Len(log') :
        NewestStatus(n, Len(log))' /\ ~ announcing' => log'[n].peer = peerStatus'
  <2>1. CASE announcing'
    BY <2>1
  <2>2. CASE UNCHANGED <<announcing, peerStatus>> /\ log' = log
    BY <2>2 DEF Snapshot, NewestStatus
  <2>3. ASSUME UNCHANGED <<announcing, peerStatus>>,
               NEW e \in Event, Publish(e), e.kind # "status",
               NEW n \in 1 .. Len(log'), NewestStatus(n, Len(log))', ~ announcing'
        PROVE  log'[n].peer = peerStatus'
    <3>1. Len(log') = Len(log) + 1 /\ log'[Len(log) + 1] = e
      BY <2>3, PublishGrows
    <3>2. n \in 1 .. Len(log)
      BY <1>0, <2>3, <3>1 DEF NewestStatus
    <3>3. NewestStatus(n, Len(log))
      BY <1>0, <1>1, <2>3, <3>1, <3>2 DEF NewestStatus
    <3> QED
      BY <1>1, <2>3, <3>2, <3>3 DEF Snapshot
  <2>4. ASSUME AnnouncePeer, NEW n \in 1 .. Len(log'), NewestStatus(n, Len(log))'
        PROVE  log'[n].peer = peerStatus'
    <3>1. /\ Len(log') = Len(log) + 1 /\ log'[Len(log) + 1].kind = "status"
          /\ log'[Len(log) + 1].peer = peerStatus /\ peerStatus' = peerStatus
      BY <2>4, PublishGrows, NewEvents DEF AnnouncePeer, TypeOK
    <3>2. n = Len(log) + 1
      BY <1>0, <2>4, <3>1 DEF NewestStatus
    <3> QED
      BY <3>1, <3>2
  <2> QED
    BY <2>1, <2>2, <2>3, <2>4, PeerSteps
<1>3. status' # "None" =>
        \E n \in 1 .. Len(log') : /\ NewestStatus(n, cursor[Recorder] - 1)'
                                  /\ log'[n].peer = status'
  <2> SUFFICES ASSUME status' # "None"
               PROVE  \E n \in 1 .. Len(log') : /\ NewestStatus(n, cursor[Recorder] - 1)'
                                                /\ log'[n].peer = status'
    OBVIOUS
  (* What the snapshot was before stays so while nothing newer is consumed. *)
  <2>1. ASSUME status' = status, cursor'[Recorder] \in Nat, cursor[Recorder] <= cursor'[Recorder],
               cursor'[Recorder] <= Len(log) + 1,
               \A k \in cursor[Recorder] .. cursor'[Recorder] - 1 : log[k].kind # "status"
        PROVE  \E n \in 1 .. Len(log') : /\ NewestStatus(n, cursor[Recorder] - 1)'
                                         /\ log'[n].peer = status'
    <3>1. PICK n \in 1 .. Len(log) : /\ NewestStatus(n, cursor[Recorder] - 1)
                                     /\ log[n].peer = status
      BY <2>1 DEF Snapshot
    <3>2. n \in 1 .. Len(log') /\ log'[n] = log[n]
      BY <1>1
    <3>3. n \in 1 .. cursor'[Recorder] - 1
      BY <1>0, <2>1, <3>1 DEF NewestStatus
    <3>4. ASSUME NEW k \in n + 1 .. cursor'[Recorder] - 1 PROVE log'[k].kind # "status"
      <4>1. k \in 1 .. Len(log)
        BY <1>0, <2>1
      <4>2. log[k].kind # "status"
        BY <1>0, <2>1, <3>1 DEF NewestStatus
      <4> QED
        BY <1>1, <4>1, <4>2
    <3> QED
      BY <2>1, <3>1, <3>2, <3>3, <3>4 DEF NewestStatus
  <2>2. CASE UNCHANGED <<from[Recorder], cursor[Recorder], history, status>>
    BY <1>0, <2>1, <2>2
  <2>3. CASE Record
    <3>0. PICK c \in Nat : c = cursor[Recorder]
      BY <1>0
    <3>1. /\ log' = log /\ c \in 1 .. Len(log) /\ cursor'[Recorder] = c + 1
      <4>1. Receive(Recorder) /\ log' = log
        BY <2>3 DEF Record
      <4>2. c \in 1 .. Len(log)
        BY <1>0, <3>0, <4>1, ReceiveType
      <4> QED
        BY <1>0, <3>0, <4>1, <4>2 DEF Receive, TypeOK
    <3>2. CASE log[c].kind = "status" /\ status' = log[c].peer
      <4>1. NewestStatus(c, cursor[Recorder] - 1)'
        <5>1. /\ c \in 1 .. cursor'[Recorder] - 1
              /\ \A k \in c + 1 .. cursor'[Recorder] - 1 : FALSE
          BY <1>0, <3>1
        <5>2. log'[c].kind = "status"
          BY <3>1, <3>2
        <5> QED
          BY <5>1, <5>2 DEF NewestStatus
      <4> QED
        BY <3>1, <3>2, <4>1
    <3>3. CASE log[c].kind # "status" /\ status' = status
      <4>1. \A k \in c .. cursor'[Recorder] - 1 : k = c
        BY <1>0, <3>1
      <4>2. /\ cursor'[Recorder] \in Nat /\ c <= cursor'[Recorder]
            /\ cursor'[Recorder] <= Len(log) + 1
        BY <1>0, <3>1
      <4> QED
        BY <2>1, <3>0, <3>3, <4>1, <4>2
    <3> QED
      BY <2>3, <3>0, <3>2, <3>3 DEF Record, Chat, recordVars
  <2>4. CASE status' = status /\ status = "None"
    BY <2>4
  <2> QED
    BY <2>2, <2>3, <2>4, RecorderSteps
<1> QED
  BY <1>2, <1>3 DEF Snapshot

-----------------------------------------------------------------------------
(***************************************************************************)
(* The end of a sequence that lists the newest members of C in order lists *)
(* the newest of them in order, as many as fit.                            *)
(***************************************************************************)
Lists(q, limit, G, C) ==
  /\ \A i \in 1 .. Len(q) : q[i] \in G /\ q[i].n \in Nat
  /\ \A i, j \in 1 .. Len(q) : i < j => q[i].n < q[j].n
  /\ \A n \in C : \/ \E i \in 1 .. Len(q) : q[i].n = n
                  \/ Len(q) >= limit /\ \A i \in 1 .. Len(q) : n < q[i].n

LEMMA NewestListed ==
  ASSUME NEW S, NEW q \in Seq(S), NEW limit \in Nat, NEW G, NEW C \in SUBSET Nat,
         Lists(q, limit, G, C), NEW r, r = Newest(limit, q)
  PROVE  /\ Len(r) <= limit
         /\ \A i \in 1 .. Len(r) : r[i] \in G
         /\ \A i, j \in 1 .. Len(r) : i < j => r[i].n < r[j].n
         /\ \A n \in C : \/ \E i \in 1 .. Len(r) : r[i].n = n
                         \/ Len(r) = limit /\ \A i \in 1 .. Len(r) : n < r[i].n
<1> DEFINE d == Len(q) - Len(r)
<1>1. /\ Len(q) \in Nat /\ Len(r) = (IF Len(q) > limit THEN limit ELSE Len(q))
      /\ \A i \in 1 .. Len(r) : r[i] = q[i + d]
  BY NewestFacts
<1>2. /\ Len(r) \in Nat /\ Len(r) <= limit /\ d \in Nat /\ d + Len(r) = Len(q)
      /\ (Len(q) >= limit => Len(r) = limit) /\ (d # 0 => Len(r) = limit)
  BY <1>1
<1> HIDE DEF d
<1>0. /\ \A i \in 1 .. Len(q) : q[i] \in G /\ q[i].n \in Nat
      /\ \A i, j \in 1 .. Len(q) : i < j => q[i].n < q[j].n
      /\ \A n \in C : \/ \E i \in 1 .. Len(q) : q[i].n = n
                      \/ Len(q) >= limit /\ \A i \in 1 .. Len(q) : n < q[i].n
  BY DEF Lists
<1>3. \A i \in 1 .. Len(r) : i + d \in 1 .. Len(q)
  BY <1>1, <1>2
<1>4. \A i \in 1 .. Len(r) : r[i] \in G
  BY <1>1, <1>3, <1>0
<1>5. \A i, j \in 1 .. Len(r) : i < j => r[i].n < r[j].n
  <2> SUFFICES ASSUME NEW i \in 1 .. Len(r), NEW j \in 1 .. Len(r), i < j PROVE r[i].n < r[j].n
    OBVIOUS
  <2>1. i + d < j + d
    BY <1>2
  <2> QED
    BY <1>1, <1>3, <1>0, <2>1
<1>6. ASSUME NEW n \in C
      PROVE  \/ \E i \in 1 .. Len(r) : r[i].n = n
             \/ Len(r) = limit /\ \A i \in 1 .. Len(r) : n < r[i].n
  <2>1. ASSUME NEW k \in 1 .. Len(q), q[k].n = n, d < k
        PROVE  \E i \in 1 .. Len(r) : r[i].n = n
    <3>1. k - d \in 1 .. Len(r) /\ (k - d) + d = k
      BY <1>1, <1>2, <2>1
    <3>2. r[k - d] = q[k]
      BY <1>1, <3>1
    <3> QED
      BY <2>1, <3>1, <3>2
  <2>2. ASSUME NEW k \in 1 .. Len(q), q[k].n = n, k <= d
        PROVE  Len(r) = limit /\ \A i \in 1 .. Len(r) : n < r[i].n
    <3>1. Len(r) = limit
      BY <1>1, <1>2, <2>2
    <3>2. ASSUME NEW i \in 1 .. Len(r) PROVE n < r[i].n
      <4>1. k < i + d
        BY <1>1, <1>2, <2>2
      <4> QED
        BY <1>1, <1>3, <1>0, <2>2, <4>1
    <3> QED
      BY <3>1, <3>2
  <2>3. ASSUME Len(q) >= limit, \A i \in 1 .. Len(q) : n < q[i].n
        PROVE  Len(r) = limit /\ \A i \in 1 .. Len(r) : n < r[i].n
    BY <1>1, <1>2, <1>3, <2>3
  <2>4. \A k \in 1 .. Len(q) : d < k \/ k <= d
    BY <1>1, <1>2
  <2> QED
    BY <1>0, <2>1, <2>2, <2>3, <2>4
<1> QED
  BY <1>2, <1>4, <1>5, <1>6

(* The entries of the history and the chats consumed, by their types. *)
LEMMA HistoryShape ==
  ASSUME TypeOK, Positions
  PROVE  /\ history \in Seq([kind : Chat, n : Position]) /\ Len(history) \in Nat
         /\ \A i \in 1 .. Len(history) : history[i].n \in Nat
         /\ Consumed \subseteq Nat
         /\ \A n \in Consumed : n \in 1 .. Len(log) /\ n < cursor[Recorder]
<1>1. /\ Recorder \in Receiver /\ Len(log) \in Nat /\ cursor[Recorder] \in Nat
      /\ from[Recorder] \in Nat /\ cursor[Recorder] <= Len(log) + 1
      /\ from[Recorder] = 0 => cursor[Recorder] = 0
  BY LenProperties, PositionNat DEF TypeOK, Positions, Receiver
<1>2. history \in Seq([kind : Chat, n : Position]) /\ Len(history) \in Nat
  BY LenProperties DEF TypeOK
<1>3. \A i \in 1 .. Len(history) : history[i].n \in Nat
  <2>1. \A i \in 1 .. Len(history) : history[i] \in [kind : Chat, n : Position]
    BY <1>2, ElementOfSeq
  <2> QED
    BY <2>1, PositionNat
<1>4. \A n \in from[Recorder] .. cursor[Recorder] - 1 :
        n \in Nat /\ n \in 1 .. Len(log) /\ n < cursor[Recorder]
  BY <1>1
<1> QED
  BY <1>2, <1>3, <1>4 DEF Consumed

LEMMA HistoryInit == Init => HistoryFaithful
<1> SUFFICES ASSUME Init PROVE HistoryFaithful
  OBVIOUS
<1>1. history = <<>> /\ from[Recorder] = 0 /\ cursor[Recorder] = 0 /\ HistoryLimit \in Nat
  BY EventsAssumption DEF Init, EventsInit, Receiver
<1>2. Consumed = {}
  <2>1. from[Recorder] .. cursor[Recorder] - 1 = {}
    BY <1>1
  <2> QED
    BY <2>1 DEF Consumed
<1> QED
  BY <1>1, <1>2 DEF HistoryFaithful, IsNewest

LEMMA HistoryNext ==
  ASSUME TypeOK, Positions, Fresh, HistoryFaithful, [Next]_vars
  PROVE  HistoryFaithful'
<1>0. /\ Recorder \in Receiver /\ Len(log) \in Nat /\ cursor[Recorder] \in Nat
      /\ cursor[Recorder] <= Len(log) + 1 /\ from[Recorder] \in Nat
      /\ from[Recorder] <= cursor[Recorder] /\ HistoryLimit \in Nat
  BY LenProperties, PositionNat, EventsAssumption DEF TypeOK, Positions, Receiver
<1>1. \A n \in 1 .. Len(log) : log'[n] = log[n]
  BY LogGrows
<1>2. CASE UNCHANGED <<from[Recorder], cursor[Recorder], history, status>>
  <2>1. \A n \in from[Recorder] .. cursor[Recorder] - 1 : log'[n] = log[n]
    <3>1. \A n \in from[Recorder] .. cursor[Recorder] - 1 : n \in 1 .. Len(log)
      BY <1>0 DEF Positions
    <3> QED
      BY <1>1, <3>1
  <2>2. Consumed' = Consumed /\ \A n \in Consumed : log'[n] = log[n]
    BY <1>2, <2>1 DEF Consumed
  <2> QED
    BY <1>2, <2>2 DEF HistoryFaithful, IsNewest
<1>3. CASE /\ log' = log /\ UNCHANGED <<history, status>> /\ history = <<>> /\ status = "None"
           /\ from'[Recorder] = Len(log) + 1 /\ cursor'[Recorder] = Len(log) + 1
  <2>1. Consumed' = {}
    <3>1. from'[Recorder] .. cursor'[Recorder] - 1 = {}
      BY <1>0, <1>3
    <3> QED
      BY <3>1 DEF Consumed
  <2> QED
    BY <1>0, <1>3, <2>1 DEF HistoryFaithful, IsNewest
<1>4. CASE Record
  <2>0. PICK c \in Nat : c = cursor[Recorder]
    BY <1>0
  <2>1. /\ log' = log /\ c \in 1 .. Len(log) /\ cursor'[Recorder] = c + 1
        /\ from'[Recorder] = from[Recorder]
    <3>1. Receive(Recorder) /\ log' = log
      BY <1>4 DEF Record
    <3>2. c \in 1 .. Len(log)
      BY <1>0, <2>0, <3>1, ReceiveType
    <3> QED
      BY <1>0, <2>0, <3>1, <3>2 DEF Receive, TypeOK
  <2>2. from[Recorder] .. cursor'[Recorder] - 1 = (from[Recorder] .. c - 1) \cup {c}
    BY <1>0, <2>0, <2>1
  <2>3. Consumed' = IF log[c].kind \in Chat THEN Consumed \cup {c} ELSE Consumed
    BY <2>0, <2>1, <2>2 DEF Consumed
  <2>4. CASE log[c].kind \notin Chat /\ history' = history
    BY <2>1, <2>3, <2>4 DEF HistoryFaithful, IsNewest
  <2>5. CASE log[c].kind \in Chat /\ RecordChat(c)
    <3> DEFINE S == [kind : Chat, n : Position]
               e == [kind |-> log[c].kind, n |-> c]
               q == Append(history, e)
               C == Consumed \cup {c}
               G == {x \in S : x.n \in C /\ x.kind = log[x.n].kind}
    <3>1. /\ history \in Seq(S) /\ Len(history) \in Nat
          /\ \A i \in 1 .. Len(history) : history[i].n \in Nat /\ history[i] \in S
          /\ Consumed \subseteq Nat /\ \A n \in Consumed : n < c
      BY <2>0, HistoryShape, ElementOfSeq
    <3>2. e \in S /\ e.n = c /\ e.kind = log[c].kind
      <4>1. c \in Position
        BY <1>0, <2>0 DEF TypeOK
      <4> QED
        BY <2>5, <4>1
    <3>3. /\ \A i \in 1 .. Len(history) : history[i] \in G /\ history[i].n \in Consumed
          /\ e \in G
      <4>1. \A i \in 1 .. Len(history) :
              history[i].n \in Consumed /\ history[i].kind = log[history[i].n].kind
        BY DEF HistoryFaithful, IsNewest
      <4> HIDE DEF e, S
      <4> QED
        BY <3>1, <3>2, <4>1
    <3> HIDE DEF e, S, G
    <3>4. /\ q \in Seq(S) /\ Len(q) = Len(history) + 1
          /\ \A i \in 1 .. Len(history) : q[i] = history[i]
          /\ q[Len(history) + 1] = e
      BY <3>1, <3>2, AppendFacts
    <3>5. history' = Newest(HistoryLimit, q)
      BY <2>5 DEF RecordChat, e
    <3> HIDE DEF q
    <3>6. \A i \in 1 .. Len(q) : i \in 1 .. Len(history) \/ i = Len(history) + 1
      BY <3>1, <3>4
    <3>7. \A i \in 1 .. Len(q) : q[i] \in G /\ q[i].n \in Nat
      BY <3>1, <3>2, <3>3, <3>4, <3>6
    <3>8. \A i, j \in 1 .. Len(q) : i < j => q[i].n < q[j].n
      <4> SUFFICES ASSUME NEW i \in 1 .. Len(q), NEW j \in 1 .. Len(q), i < j
                   PROVE  q[i].n < q[j].n
        OBVIOUS
      <4>1. i \in 1 .. Len(history)
        BY <3>1, <3>4
      <4>2. CASE j \in 1 .. Len(history)
        <5>1. history[i].n < history[j].n
          BY <4>1, <4>2 DEF HistoryFaithful, IsNewest
        <5> QED
          BY <3>4, <4>1, <4>2, <5>1
      <4>3. CASE j = Len(history) + 1
        BY <3>1, <3>2, <3>3, <3>4, <4>1, <4>3
      <4> QED
        BY <3>6, <4>2, <4>3
    <3>9. \A n \in C : \/ \E i \in 1 .. Len(q) : q[i].n = n
                       \/ Len(q) >= HistoryLimit /\ \A i \in 1 .. Len(q) : n < q[i].n
      <4> SUFFICES ASSUME NEW n \in C
                   PROVE  \/ \E i \in 1 .. Len(q) : q[i].n = n
                          \/ Len(q) >= HistoryLimit /\ \A i \in 1 .. Len(q) : n < q[i].n
        OBVIOUS
      <4>0. Len(history) + 1 \in 1 .. Len(q) /\ \A i \in 1 .. Len(history) : i \in 1 .. Len(q)
        BY <3>1, <3>4
      <4>1. CASE n = c
        BY <3>2, <3>4, <4>0, <4>1
      <4>2. CASE n \in Consumed
        <5>1. \/ \E i \in 1 .. Len(history) : history[i].n = n
              \/ Len(history) = HistoryLimit /\ \A i \in 1 .. Len(history) : n < history[i].n
          BY <4>2 DEF HistoryFaithful, IsNewest
        <5>2. CASE \E i \in 1 .. Len(history) : history[i].n = n
          BY <3>4, <4>0, <5>2
        <5>3. CASE Len(history) = HistoryLimit /\ \A i \in 1 .. Len(history) : n < history[i].n
          <6>1. Len(q) >= HistoryLimit
            BY <1>0, <3>4, <5>3
          <6>2. n < c
            BY <3>1, <4>2
          <6> QED
            BY <3>2, <3>4, <3>6, <5>3, <6>1, <6>2
        <5> QED
          BY <5>1, <5>2, <5>3
      <4> QED
        BY <4>1, <4>2
    <3>10. C \in SUBSET Nat
      BY <3>1
    <3> HIDE DEF C
    <3>14. Lists(q, HistoryLimit, G, C)
      BY <3>7, <3>8, <3>9 DEF Lists
    <3>11. /\ Len(history') <= HistoryLimit
           /\ \A i \in 1 .. Len(history') : history'[i] \in G
           /\ \A i, j \in 1 .. Len(history') : i < j => history'[i].n < history'[j].n
           /\ \A n \in C :
                \/ \E i \in 1 .. Len(history') : history'[i].n = n
                \/ Len(history') = HistoryLimit /\ \A i \in 1 .. Len(history') : n < history'[i].n
      BY <1>0, <3>4, <3>5, <3>10, <3>14, NewestListed
    <3>12. Consumed' = C
      BY <2>3, <2>5 DEF C
    <3>13. \A x \in G : x.n \in Consumed' /\ x.kind = log'[x.n].kind
      BY <2>1, <3>12 DEF G
    <3> QED
      BY <3>11, <3>12, <3>13 DEF HistoryFaithful, IsNewest
  <2> QED
    BY <1>4, <2>0, <2>4, <2>5 DEF Record, recordVars, Chat
<1> QED
  BY <1>2, <1>3, <1>4, RecorderSteps

(* What chat_history answers is the end of the history. *)
LEMMA HistoryAnswered ==
  ASSUME TypeOK, Positions, HistoryFaithful
  PROVE  HistoryAnswer
<1> SUFFICES ASSUME NEW limit \in 0 .. HistoryLimit + 1
             PROVE  IsNewest(ChatHistory(limit), IF limit > HistoryLimit THEN HistoryLimit ELSE limit)
  BY DEF HistoryAnswer
<1>0. PICK l \in Nat : l = (IF limit > HistoryLimit THEN HistoryLimit ELSE limit) /\ l <= HistoryLimit
  BY EventsAssumption
<1> DEFINE S == [kind : Chat, n : Position]
           G == {x \in S : x.n \in Consumed /\ x.kind = log[x.n].kind}
           r == ChatHistory(limit)
<1>1. /\ history \in Seq(S) /\ Len(history) \in Nat
      /\ \A i \in 1 .. Len(history) : history[i].n \in Nat /\ history[i] \in S
      /\ Consumed \in SUBSET Nat
  BY HistoryShape, ElementOfSeq
<1>2. /\ \A i \in 1 .. Len(history) : history[i].n \in Consumed /\ history[i].kind = log[history[i].n].kind
      /\ \A i, j \in 1 .. Len(history) : i < j => history[i].n < history[j].n
      /\ \A n \in Consumed : \/ \E i \in 1 .. Len(history) : history[i].n = n
                             \/ Len(history) = HistoryLimit /\ \A i \in 1 .. Len(history) : n < history[i].n
  BY DEF HistoryFaithful, IsNewest
<1>3. r = Newest(l, history)
  BY <1>0 DEF ChatHistory
<1> HIDE DEF r, S
<1>4. /\ \A i \in 1 .. Len(history) : history[i] \in G /\ history[i].n \in Nat
      /\ \A n \in Consumed : \/ \E i \in 1 .. Len(history) : history[i].n = n
                             \/ Len(history) >= l /\ \A i \in 1 .. Len(history) : n < history[i].n
  BY <1>0, <1>1, <1>2, EventsAssumption
<1>8. Lists(history, l, G, Consumed)
  BY <1>2, <1>4 DEF Lists
<1>9. history \in Seq(S) /\ l \in Nat /\ Consumed \in SUBSET Nat
  BY <1>0, <1>1
<1> HIDE DEF G
<1>5. /\ Len(r) <= l
      /\ \A i \in 1 .. Len(r) : r[i] \in G
      /\ \A i, j \in 1 .. Len(r) : i < j => r[i].n < r[j].n
      /\ \A n \in Consumed : \/ \E i \in 1 .. Len(r) : r[i].n = n
                             \/ Len(r) = l /\ \A i \in 1 .. Len(r) : n < r[i].n
  BY <1>3, <1>8, <1>9, NewestListed
<1>6. \A x \in G : x.n \in Consumed /\ x.kind = log[x.n].kind
  BY DEF G
<1>7. IsNewest(r, l)
  BY <1>5, <1>6 DEF IsNewest
<1> QED
  BY <1>0, <1>7 DEF r

-----------------------------------------------------------------------------
(* One stream: what Streams says of it. *)
StreamInv(s) ==
  /\ task[s] # "spawned"
  /\ conn[s] \in {"none", "registered", "primary"} => Unopened(s)
  /\ conn[s] = "open" => Unbroken(s)

LEMMA StreamsSplit == Streams <=> \A s \in Session : StreamInv(s)
BY DEF Streams, StreamInv, NotificationsUnbroken

StreamSame(s) ==
  UNCHANGED <<from[s], cursor[s], held[s], task[s], received[s], chan[s], conn[s]>>

LEMMA StreamKept ==
  ASSUME NEW s \in Session, StreamInv(s), StreamSame(s)
  PROVE  StreamInv(s)'
BY DEF StreamInv, StreamSame, Unopened, Unbroken, Notes, NextRead, NextSent

(* The numbers of a stream. *)
LEMMA StreamNumbers ==
  ASSUME TypeOK, NEW s \in Session
  PROVE  /\ s \in Receiver /\ s # Recorder /\ s # AutoReply
         /\ from[s] \in Nat /\ cursor[s] \in Nat /\ held[s] \in Nat
         /\ received[s] \in Seq(Position) /\ Len(received[s]) \in Nat
         /\ chan[s] \in Seq(Message) /\ Len(chan[s]) \in Nat
         /\ \A k \in 1 .. Len(chan[s]) : chan[s][k] \in Message
         /\ \A k \in Notes(s) : chan[s][k].event \in Nat /\ k \in 1 .. Len(chan[s])
<1>1. s \in Receiver /\ s # Recorder /\ s # AutoReply
  BY EventsAssumption DEF Receiver
<1>2. from[s] \in Nat /\ cursor[s] \in Nat /\ held[s] \in Nat
  BY <1>1, PositionNat DEF TypeOK
<1>3. /\ received[s] \in Seq(Position) /\ Len(received[s]) \in Nat
      /\ chan[s] \in Seq(Message) /\ Len(chan[s]) \in Nat
  BY LenProperties DEF TypeOK
<1>4. \A k \in 1 .. Len(chan[s]) : chan[s][k] \in Message
  BY <1>3, ElementOfSeq
<1>5. \A k \in Notes(s) : chan[s][k].event \in Nat /\ k \in 1 .. Len(chan[s])
  <2>1. \A n \in 1 .. MaxEvents : n \in Nat
    BY EventsAssumption
  <2> QED
    BY <1>4, <2>1, MessageKinds DEF Notes
<1> QED
  BY <1>1, <1>2, <1>3, <1>4, <1>5

(* A stream that starts has an empty run of events. *)
LEMMA StreamBegins ==
  ASSUME TypeOK, NEW s \in Session, StreamInv(s), StartStream(s), Subscribe(s),
         UNCHANGED <<held, received>>
  PROVE  StreamInv(s)'
<1>1. /\ s \in Receiver /\ Len(log) \in Nat
  BY StreamNumbers, LenProperties DEF TypeOK
<1>2. /\ conn[s] = "primary" /\ conn'[s] = "open" /\ chan' = chan
      /\ from'[s] = Len(log) + 1 /\ cursor'[s] = Len(log) + 1 /\ task'[s] = "running"
      /\ held'[s] = held[s] /\ received'[s] = received[s]
  BY <1>1 DEF StartStream, Subscribe, TypeOK
<1>3. held[s] = 0 /\ received[s] = <<>> /\ Notes(s) = {}
  BY <1>2 DEF StreamInv, Unopened
<1>4. /\ Len(received'[s]) = 0 /\ NextRead(s)' = Len(log) + 1 /\ NextSent(s)' = Len(log) + 1
      /\ Notes(s)' = {}
  BY <1>1, <1>2, <1>3 DEF NextRead, NextSent, Notes
<1>5. (NextRead(s) .. NextSent(s) - 1)' = {}
  BY <1>1, <1>4
<1>6. Unbroken(s)'
  BY <1>1, <1>2, <1>3, <1>4, <1>5 DEF Unbroken
<1> QED
  BY <1>2, <1>6 DEF StreamInv

LEMMA StreamPicks ==
  ASSUME TypeOK, Positions, NEW s \in Session, StreamInv(s), Pick(s)
  PROVE  StreamInv(s)'
<1>0. s \in Receiver /\ from[s] \in Nat /\ cursor[s] \in Nat
  BY StreamNumbers
<1>1. /\ held[s] = 0 /\ task[s] = "running" /\ task' = task /\ from' = from
      /\ cursor'[s] = cursor[s] + 1 /\ held'[s] = cursor[s]
      /\ UNCHANGED <<conn, chan, received>>
  BY <1>0 DEF Pick, Receive, TypeOK, sessionVars
<1>2. cursor[s] # 0
  BY <1>0, <1>1 DEF Positions
<1>3. conn[s] \notin {"none", "registered", "primary"}
  BY <1>1 DEF StreamInv, Unopened
<1>4. NextSent(s)' = NextSent(s) /\ NextRead(s)' = NextRead(s) /\ Notes(s)' = Notes(s)
  BY <1>1, <1>2 DEF NextSent, NextRead, Notes
<1>5. held'[s] = cursor'[s] - 1
  BY <1>0, <1>1
<1> QED
  BY <1>1, <1>3, <1>4, <1>5 DEF StreamInv, Unbroken

(* A message put at the end of the queue. *)
LEMMA EnqueueFacts ==
  ASSUME TypeOK, NEW s \in Session, NEW m \in Message, Enqueue(s, m)
  PROVE  /\ Len(chan'[s]) = Len(chan[s]) + 1
         /\ \A k \in 1 .. Len(chan[s]) : chan'[s][k] = chan[s][k]
         /\ chan'[s][Len(chan[s]) + 1] = m
         /\ Notes(s)' = IF m.kind = "notification" THEN Notes(s) \cup {Len(chan[s]) + 1} ELSE Notes(s)
<1>0. chan[s] \in Seq(Message) /\ Len(chan[s]) \in Nat
  BY StreamNumbers
<1>1. chan'[s] = Append(chan[s], m)
  BY DEF Enqueue, TypeOK
<1>2. /\ Len(chan'[s]) = Len(chan[s]) + 1
      /\ \A k \in 1 .. Len(chan[s]) : chan'[s][k] = chan[s][k]
      /\ chan'[s][Len(chan[s]) + 1] = m
  BY <1>0, <1>1, AppendFacts
<1>3. 1 .. Len(chan'[s]) = 1 .. Len(chan[s]) \cup {Len(chan[s]) + 1}
  BY <1>0, <1>2
<1> QED
  BY <1>2, <1>3 DEF Notes

LEMMA StreamForwards ==
  ASSUME TypeOK, Positions, NEW s \in Session, StreamInv(s), Forward(s)
  PROVE  StreamInv(s)'
<1>0. /\ s \in Receiver /\ from[s] \in Nat /\ cursor[s] \in Nat /\ held[s] \in Nat
      /\ Len(received[s]) \in Nat /\ Len(chan[s]) \in Nat /\ Len(log) \in Nat /\ MaxEvents \in Nat
      /\ Len(log) <= MaxEvents
  BY StreamNumbers, LenProperties, EventsAssumption DEF TypeOK
<1>1. /\ held[s] # 0 /\ held'[s] = 0 /\ UNCHANGED <<from, cursor, conn, received>>
  BY <1>0 DEF Forward, TypeOK
<1>2. conn[s] \notin {"none", "registered", "primary"}
  BY <1>1 DEF StreamInv, Unopened
<1>3. CASE Closed(s) /\ task' = [task EXCEPT ![s] = "stopped"] /\ UNCHANGED chan
  BY <1>0, <1>1, <1>2, <1>3 DEF StreamInv, Closed, TypeOK
<1>4. CASE Enqueue(s, Notification(held[s])) /\ UNCHANGED task
  <2>1. CASE conn[s] # "open"
    BY <1>1, <1>2, <1>4, <2>1 DEF StreamInv
  <2>2. CASE conn[s] = "open"
    <3> DEFINE L == Len(chan[s]) + 1
    <3>1. held[s] = cursor[s] - 1 /\ cursor[s] <= Len(log) + 1
      BY <1>0, <1>1 DEF Positions
    <3>2. held[s] \in 1 .. MaxEvents
      BY <1>0, <1>1, <3>1
    <3>3. /\ Notification(held[s]) \in Message /\ Notification(held[s]).kind = "notification"
          /\ Notification(held[s]).event = held[s]
      BY <3>2, MessageKinds
    <3>4. /\ Len(chan'[s]) = L
          /\ \A k \in 1 .. Len(chan[s]) : chan'[s][k] = chan[s][k]
          /\ chan'[s][L].event = held[s]
          /\ Notes(s)' = Notes(s) \cup {L}
      BY <1>4, <3>3, EnqueueFacts
    <3>5. /\ \A i \in 1 .. Len(received[s]) : received[s][i] = from[s] + i - 1
          /\ NextRead(s) <= held[s]
          /\ {chan[s][k].event : k \in Notes(s)} = NextRead(s) .. held[s] - 1
          /\ \A j, k \in Notes(s) : j < k => chan[s][j].event < chan[s][k].event
      BY <1>1, <2>2 DEF StreamInv, Unbroken, NextSent
    <3>6. /\ NextRead(s)' = NextRead(s) /\ NextRead(s) \in Nat
          /\ NextSent(s)' = cursor[s] /\ cursor[s] = held[s] + 1
      BY <1>0, <1>1, <3>1 DEF NextRead, NextSent
    <3>7. \A k \in Notes(s) : k \in 1 .. Len(chan[s]) /\ k < L /\ chan'[s][k] = chan[s][k]
      <4>1. \A k \in Notes(s) : k \in 1 .. Len(chan[s])
        BY DEF Notes
      <4>2. \A k \in 1 .. Len(chan[s]) : k < L
        BY <1>0
      <4> QED
        BY <3>4, <4>1, <4>2
    <3> HIDE DEF L
    <3>8. {chan'[s][k].event : k \in Notes(s)'} = {chan[s][k].event : k \in Notes(s)} \cup {held[s]}
      BY <3>4, <3>7
    <3>9. (NextRead(s) .. held[s] - 1) \cup {held[s]} = NextRead(s) .. cursor[s] - 1
      BY <1>0, <3>5, <3>6
    <3>10. \A j, k \in Notes(s)' : j < k => chan'[s][j].event < chan'[s][k].event
      <4> SUFFICES ASSUME NEW j \in Notes(s)', NEW k \in Notes(s)', j < k
                   PROVE  chan'[s][j].event < chan'[s][k].event
        OBVIOUS
      <4>0. L \in Nat /\ \A i \in Notes(s) : i \in Nat
        BY <1>0, <3>7 DEF L
      <4>1. j \in Notes(s)
        BY <3>4, <3>7, <4>0
      <4>2. CASE k \in Notes(s)
        BY <3>5, <3>7, <4>1, <4>2
      <4>3. CASE k = L
        <5>1. chan[s][j].event \in NextRead(s) .. held[s] - 1
          BY <3>5, <4>1
        <5>2. chan[s][j].event < held[s]
          BY <1>0, <3>6, <5>1
        <5> QED
          BY <3>4, <3>7, <4>1, <4>3, <5>2
      <4> QED
        BY <3>4, <4>2, <4>3
    <3>11. NextRead(s)' <= NextSent(s)'
      BY <1>0, <3>5, <3>6
    <3>12. Unbroken(s)'
      <4>1. /\ (\A i \in 1 .. Len(received[s]) : received[s][i] = from[s] + i - 1)'
            /\ held'[s] # 0 => held'[s] = cursor'[s] - 1
        BY <1>1, <3>5
      <4>2. {chan'[s][k].event : k \in Notes(s)'} = NextRead(s)' .. NextSent(s)' - 1
        BY <3>5, <3>6, <3>8, <3>9
      <4> QED
        BY <3>10, <3>11, <4>1, <4>2 DEF Unbroken
    <3> QED
      BY <1>1, <1>2, <1>4, <3>12 DEF StreamInv
  <2> QED
    BY <2>1, <2>2
<1> QED
  BY <1>3, <1>4 DEF Forward

LEMMA StreamCarries ==
  ASSUME TypeOK, NEW s \in Session, StreamInv(s), OtherTraffic(s)
  PROVE  StreamInv(s)'
<1>0. Len(chan[s]) \in Nat /\ \A k \in Notes(s) : k \in 1 .. Len(chan[s])
  BY StreamNumbers
<1>1. conn[s] = "open" /\ UNCHANGED <<from, cursor, held, task, received, conn>>
  BY DEF OtherTraffic, eventVars, taskVars
<1>2. /\ \A k \in 1 .. Len(chan[s]) : chan'[s][k] = chan[s][k]
      /\ Notes(s)' = Notes(s)
  BY EnqueueFacts, MessageKinds DEF OtherTraffic
<1>3. \A k \in Notes(s) : chan'[s][k] = chan[s][k]
  BY <1>0, <1>2
<1>4. NextRead(s)' = NextRead(s) /\ NextSent(s)' = NextSent(s)
  BY <1>1 DEF NextRead, NextSent
<1>5. {chan'[s][k].event : k \in Notes(s)'} = {chan[s][k].event : k \in Notes(s)}
  BY <1>2, <1>3
<1>6. Unbroken(s)'
  <2>1. Unbroken(s)
    BY <1>1 DEF StreamInv
  <2> QED
    BY <1>1, <1>2, <1>3, <1>4, <1>5, <2>1 DEF Unbroken
<1> QED
  BY <1>1, <1>6 DEF StreamInv

LEMMA StreamReads ==
  ASSUME TypeOK, NEW s \in Session, StreamInv(s), ReadStream(s)
  PROVE  StreamInv(s)'
<1>0. /\ from[s] \in Nat /\ cursor[s] \in Nat /\ held[s] \in Nat
      /\ received[s] \in Seq(Position) /\ Len(received[s]) \in Nat
      /\ chan[s] \in Seq(Message) /\ Len(chan[s]) \in Nat
      /\ \A k \in Notes(s) : chan[s][k].event \in Nat /\ k \in 1 .. Len(chan[s])
      /\ \A k \in 1 .. Len(chan[s]) : chan[s][k] \in Message
  BY StreamNumbers
<1>1. /\ conn[s] = "open" /\ chan[s] # <<>> /\ chan'[s] = Tail(chan[s])
      /\ UNCHANGED <<from, cursor, held, task, conn>>
  BY DEF ReadStream, ClientRead, taskVars, TypeOK
<1>2. /\ Len(chan'[s]) = Len(chan[s]) - 1 /\ Len(chan[s]) \in Nat \ {0}
      /\ \A k \in 1 .. Len(chan'[s]) : chan'[s][k] = chan[s][k + 1]
      /\ Head(chan[s]) = chan[s][1]
  BY <1>0, <1>1, HeadTailProperties, EmptySeq
<1>3. \A k \in Nat : k \in Notes(s)' <=> k # 0 /\ k + 1 \in Notes(s)
  <2> SUFFICES ASSUME NEW k \in Nat PROVE k \in Notes(s)' <=> k # 0 /\ k + 1 \in Notes(s)
    OBVIOUS
  <2>1. k \in 1 .. Len(chan'[s]) <=> k # 0 /\ k + 1 \in 1 .. Len(chan[s])
    BY <1>2
  <2> QED
    BY <1>2, <2>1 DEF Notes
<1>4. /\ \A k \in Notes(s)' : k \in Nat /\ k + 1 \in Notes(s) /\ chan'[s][k] = chan[s][k + 1]
      /\ \A k \in Notes(s) : k # 1 => k - 1 \in Notes(s)' /\ chan'[s][k - 1] = chan[s][k]
  <2>1. \A k \in Notes(s)' : k \in 1 .. Len(chan'[s]) /\ k \in Nat
    BY <1>2 DEF Notes
  <2>2. \A k \in Notes(s) : k # 1 => k - 1 \in Nat /\ k - 1 # 0 /\ (k - 1) + 1 = k
    BY <1>0
  <2>3. \A k \in Notes(s) : k # 1 => k - 1 \in Notes(s)'
    BY <1>3, <2>2
  <2> QED
    BY <1>2, <1>3, <2>1, <2>2, <2>3
<1>5. /\ \A i \in 1 .. Len(received[s]) : received[s][i] = from[s] + i - 1
      /\ NextRead(s) <= NextSent(s)
      /\ {chan[s][k].event : k \in Notes(s)} = NextRead(s) .. NextSent(s) - 1
      /\ \A j, k \in Notes(s) : j < k => chan[s][j].event < chan[s][k].event
      /\ held[s] # 0 => held[s] = cursor[s] - 1
  BY <1>1 DEF StreamInv, Unbroken
<1>6. NextSent(s)' = NextSent(s) /\ NextSent(s) \in Nat /\ NextRead(s) \in Nat
      /\ NextRead(s) = from[s] + Len(received[s])
  BY <1>0, <1>1 DEF NextSent, NextRead
<1>7. \A j, k \in Notes(s)' : j < k => chan'[s][j].event < chan'[s][k].event
  <2> SUFFICES ASSUME NEW j \in Notes(s)', NEW k \in Notes(s)', j < k
               PROVE  chan'[s][j].event < chan'[s][k].event
    OBVIOUS
  <2>1. j + 1 \in Notes(s) /\ k + 1 \in Notes(s) /\ j + 1 < k + 1
    BY <1>4
  <2> QED
    BY <1>4, <1>5, <2>1
<1>8. CASE Head(chan[s]).kind # "notification"
  <2>1. received' = received
    BY <1>8 DEF ReadStream
  <2>2. 1 \notin Notes(s)
    BY <1>2, <1>8 DEF Notes
  <2>3. {chan'[s][k].event : k \in Notes(s)'} = {chan[s][k].event : k \in Notes(s)}
    BY <1>4, <2>2
  <2>4. NextRead(s)' = NextRead(s)
    BY <1>1, <2>1 DEF NextRead
  <2>5. Unbroken(s)'
    BY <1>1, <1>5, <1>6, <1>7, <2>1, <2>3, <2>4 DEF Unbroken
  <2> QED
    BY <1>1, <2>5 DEF StreamInv
<1>9. CASE Head(chan[s]).kind = "notification"
  <2> DEFINE e == chan[s][1].event
             R == Len(received[s])
  <2>1. 1 \in Notes(s) /\ e \in Nat
    BY <1>0, <1>2, <1>9 DEF Notes
  <2>2. e \in NextRead(s) .. NextSent(s) - 1
    BY <1>5, <2>1
  <2>3. e = NextRead(s)
    <3>1. NextRead(s) \in NextRead(s) .. NextSent(s) - 1
      BY <1>6, <2>2
    <3>2. PICK k \in Notes(s) : chan[s][k].event = NextRead(s)
      BY <1>5, <3>1
    <3>3. k = 1 \/ 1 < k
      BY <1>0
    <3>4. ~ (1 < k)
      <4> SUFFICES ASSUME 1 < k PROVE FALSE
        OBVIOUS
      <4>1. e < NextRead(s)
        BY <1>5, <2>1, <3>2
      <4> QED
        BY <1>6, <2>2, <4>1
    <3> QED
      BY <3>2, <3>3, <3>4
  <2>4. e \in Position
    <3>1. chan[s][1] \in Message /\ chan[s][1].kind = "notification"
      BY <1>0, <1>2, <1>9
    <3>2. \A n \in 1 .. MaxEvents : n \in Position
      BY EventsAssumption DEF Position
    <3> QED
      BY <3>1, <3>2, MessageKinds
  <2>5. received'[s] = Append(received[s], e)
    BY <1>2, <1>9 DEF ReadStream, TypeOK
  <2> HIDE DEF e
  <2>6. /\ Len(received'[s]) = R + 1
        /\ \A i \in 1 .. R : received'[s][i] = received[s][i]
        /\ received'[s][R + 1] = e
    BY <1>0, <2>4, <2>5, AppendFacts
  <2>7. \A i \in 1 .. R + 1 : received'[s][i] = from[s] + i - 1
    <3>1. from[s] + (R + 1) - 1 = e
      BY <1>0, <1>6, <2>3
    <3>2. \A i \in 1 .. R + 1 : i \in 1 .. R \/ i = R + 1
      BY <1>0
    <3> QED
      BY <1>5, <2>6, <3>1, <3>2
  <2>8. NextRead(s)' = NextRead(s) + 1 /\ NextRead(s) + 1 <= NextSent(s)
    BY <1>0, <1>1, <1>6, <2>2, <2>6 DEF NextRead
  <2>9. {chan'[s][k].event : k \in Notes(s)'} = NextRead(s) + 1 .. NextSent(s) - 1
    <3>1. \A k \in Notes(s)' : chan'[s][k].event \in NextRead(s) + 1 .. NextSent(s) - 1
      <4> SUFFICES ASSUME NEW k \in Notes(s)'
                   PROVE  chan'[s][k].event \in NextRead(s) + 1 .. NextSent(s) - 1
        OBVIOUS
      <4>1. k + 1 \in Notes(s) /\ 1 < k + 1 /\ chan'[s][k] = chan[s][k + 1]
        BY <1>3, <1>4
      <4>2. chan[s][k + 1].event \in NextRead(s) .. NextSent(s) - 1
        BY <1>5, <4>1
      <4>3. NextRead(s) < chan[s][k + 1].event
        BY <1>5, <2>1, <2>3, <4>1 DEF e
      <4> QED
        BY <1>6, <4>1, <4>2, <4>3
    <3>2. \A n \in NextRead(s) + 1 .. NextSent(s) - 1 : \E k \in Notes(s)' : chan'[s][k].event = n
      <4> SUFFICES ASSUME NEW n \in NextRead(s) + 1 .. NextSent(s) - 1
                   PROVE  \E k \in Notes(s)' : chan'[s][k].event = n
        OBVIOUS
      <4>1. n \in NextRead(s) .. NextSent(s) - 1 /\ n # e
        BY <1>6, <2>3
      <4>2. PICK k \in Notes(s) : chan[s][k].event = n
        BY <1>5, <4>1
      <4>3. k # 1
        BY <4>1, <4>2 DEF e
      <4> QED
        BY <1>4, <4>2, <4>3
    <3> QED
      BY <3>1, <3>2
  <2>10. Unbroken(s)'
    <3>1. {chan'[s][k].event : k \in Notes(s)'} = NextRead(s)' .. NextSent(s)' - 1
      BY <1>6, <2>8, <2>9
    <3>2. (\A i \in 1 .. Len(received[s]) : received[s][i] = from[s] + i - 1)'
      BY <1>1, <2>6, <2>7
    <3> QED
      BY <1>1, <1>5, <1>6, <1>7, <2>8, <3>1, <3>2 DEF Unbroken
  <2> QED
    BY <1>1, <2>10 DEF StreamInv
<1> QED
  BY <1>8, <1>9

LEMMA StreamsNext ==
  ASSUME TypeOK, Positions, Streams, [Next]_vars
  PROVE  Streams'
<1> SUFFICES ASSUME NEW s \in Session PROVE StreamInv(s)'
  BY DEF Streams, StreamInv, NotificationsUnbroken
<1>0. /\ StreamInv(s) /\ s \in Receiver /\ s # Recorder /\ s # AutoReply
  BY StreamsSplit, StreamNumbers
<1> USE DEF StreamSame
<1>1. CASE UNCHANGED <<taskVars, received, chan, conn>>
  BY <1>0, <1>1, StreamKept DEF taskVars
<1>2. ASSUME NEW v \in PeerStatus, PeerChange(v) PROVE StreamInv(s)'
  BY <1>1, <1>2 DEF PeerChange, sessionVars
<1>3. CASE AnnouncePeer \/ ChatFromDevice \/ HandlerReport \/ AutoFail \/ AutoPush
  BY <1>1, <1>3 DEF AnnouncePeer, ChatFromDevice, HandlerReport, AutoFail, AutoPush, sessionVars
<1>4. CASE Serve
  BY <1>0, <1>4, StreamKept DEF Serve, sessionVars, TypeOK
<1>5. ASSUME NEW r \in Receiver, StartTask(r) PROVE StreamInv(s)'
  BY <1>0, <1>5, StreamKept DEF StartTask, Subscribe, sessionVars, TypeOK
<1>6. ASSUME NEW r \in Receiver, StopLagged(r) PROVE StreamInv(s)'
  <2>1. /\ UNCHANGED <<from, cursor, held, received, chan, conn>> /\ task[r] = "running"
        /\ task' = [task EXCEPT ![r] = "stopped"]
    BY <1>6 DEF StopLagged, sessionVars
  <2>2. CASE r # s
    BY <1>0, <2>1, <2>2, StreamKept DEF TypeOK
  <2>3. CASE r = s
    <3>1. task'[s] = "stopped" /\ conn[s] \notin {"none", "registered", "primary"}
      BY <1>0, <2>1, <2>3 DEF StreamInv, Unopened, TypeOK
    <3> QED
      BY <1>0, <2>1, <3>1 DEF StreamInv, Unbroken, Notes, NextRead, NextSent
  <2> QED
    BY <2>2, <2>3
<1>7. CASE Record \/ AutoReceive
  BY <1>0, <1>7, StreamKept DEF Record, AutoReceive, Receive, sessionVars, TypeOK
<1>8. ASSUME NEW by \in {"tool", "line"}, ClientPush(by) PROVE StreamInv(s)'
  BY <1>1, <1>8 DEF ClientPush, sessionVars
<1>9. ASSUME NEW p \in sent, AnnouncePush(p) \/ ForgetPush(p) PROVE StreamInv(s)'
  BY <1>1, <1>9 DEF AnnouncePush, ForgetPush, sessionVars
<1>10. ASSUME NEW r \in Session, r # s,
              \/ OpenStream(r) \/ LeaveStream(r) \/ Pick(r) \/ Forward(r)
              \/ OtherTraffic(r) \/ ReadStream(r)
       PROVE  StreamInv(s)'
  <2>0. r \in Receiver
    BY DEF Receiver
  <2>1. CASE OpenStream(r)
    BY <1>0, <1>10, <2>0, <2>1, StreamKept
       DEF OpenStream, RegisterSession, MakePrimary, StartStream, Subscribe, TypeOK
  <2>2. CASE LeaveStream(r)
    BY <1>0, <1>10, <2>2, StreamKept DEF LeaveStream, CloseStream, eventVars, taskVars, TypeOK
  <2>3. CASE Pick(r)
    BY <1>0, <1>10, <2>0, <2>3, StreamKept DEF Pick, Receive, sessionVars, TypeOK
  <2>4. CASE Forward(r)
    BY <1>0, <1>10, <2>0, <2>4, StreamKept DEF Forward, Enqueue, TypeOK
  <2>5. CASE OtherTraffic(r)
    BY <1>0, <1>10, <2>5, StreamKept DEF OtherTraffic, Enqueue, eventVars, taskVars, TypeOK
  <2>6. CASE ReadStream(r)
    BY <1>0, <1>10, <2>6, StreamKept DEF ReadStream, ClientRead, taskVars, TypeOK
  <2> QED
    BY <1>10, <2>1, <2>2, <2>3, <2>4, <2>5, <2>6
<1>11. CASE OpenStream(s)
  <2>1. UNCHANGED <<held, received>>
    BY <1>11 DEF OpenStream
  <2>2. CASE RegisterSession(s) /\ UNCHANGED <<from, cursor, task>>
    <3>1. conn[s] = "none" /\ conn'[s] = "registered" /\ chan'[s] = <<Endpoint>>
      BY <2>2 DEF RegisterSession, TypeOK
    <3>2. Notes(s)' = {}
      BY <3>1, MessageKinds DEF Notes
    <3> QED
      BY <1>0, <2>1, <2>2, <3>1, <3>2 DEF StreamInv, Unopened
  <2>3. CASE MakePrimary(s) /\ UNCHANGED <<from, cursor, task>>
    <3>1. conn[s] = "registered" /\ conn'[s] = "primary" /\ chan' = chan
      BY <2>3 DEF MakePrimary, TypeOK
    <3> QED
      BY <1>0, <2>1, <2>3, <3>1 DEF StreamInv, Unopened, Notes
  <2>4. CASE StartStream(s) /\ Subscribe(s)
    BY <1>0, <2>1, <2>4, StreamBegins
  <2> QED
    BY <1>11, <2>2, <2>3, <2>4 DEF OpenStream
<1>12. CASE LeaveStream(s)
  <2>1. conn'[s] = "gone" /\ task' = task
    BY <1>12 DEF LeaveStream, CloseStream, eventVars, taskVars, TypeOK
  <2> QED
    BY <1>0, <2>1 DEF StreamInv
<1>13. CASE Pick(s) \/ Forward(s) \/ OtherTraffic(s) \/ ReadStream(s)
  BY <1>0, <1>13, StreamPicks, StreamForwards, StreamCarries, StreamReads
<1>14. CASE UNCHANGED vars
  BY <1>1, <1>14 DEF vars, eventVars, sessionVars
<1> HIDE DEF StreamSame
<1>15. ASSUME NEW r \in Session,
              \/ OpenStream(r) \/ LeaveStream(r) \/ Pick(r) \/ Forward(r)
              \/ OtherTraffic(r) \/ ReadStream(r)
       PROVE  StreamInv(s)'
  BY <1>10, <1>11, <1>12, <1>13, <1>15
<1> QED
  BY <1>2, <1>3, <1>4, <1>5, <1>6, <1>7, <1>8, <1>9, <1>14, <1>15 DEF Next

-----------------------------------------------------------------------------
LEMMA InvInit == Init => IInv
<1> SUFFICES ASSUME Init PROVE IInv
  OBVIOUS
<1>1. TypeOK
  BY TypeInit
<1>2. /\ log = <<>> /\ device = <<>> /\ history = <<>> /\ Len(<<>>) = 0 /\ sent = {} /\ asked = {}
      /\ asking = 0 /\ status = "None" /\ ~ announcing /\ stage = "pairing"
      /\ from = [r \in Receiver |-> 0] /\ cursor = [r \in Receiver |-> 0]
      /\ task = [r \in Receiver |-> "off"] /\ held = [r \in Receiver |-> 0]
  BY EmptySeq DEF Init, EventsInit
<1>3. {Recorder, AutoReply} \subseteq Receiver /\ Session \subseteq Receiver
  BY DEF Receiver
<1>4. Positions
  BY <1>2, <1>3 DEF Positions
<1>5. Fresh
  BY <1>2, <1>3 DEF Fresh
<1>6. Questions /\ Lines /\ Announced
  BY <1>2 DEF Questions, Lines, Announced
<1>7. Snapshot
  BY <1>2 DEF Snapshot
<1>8. Bounded
  <2>1. ChatsAhead = {} /\ ClientLines = {}
    BY <1>2, <1>3 DEF ChatsAhead, ClientLines
  <2>2. Due = 0
    BY <1>2, <2>1, FS_EmptySet DEF Due
  <2> QED
    BY <1>2, <2>1, <2>2, FS_EmptySet, EventsAssumption DEF Bounded
<1>9. Streams
  <2> SUFFICES ASSUME NEW s \in Session PROVE StreamInv(s)
    BY StreamsSplit
  <2>1. /\ conn[s] = "none" /\ chan[s] = <<>> /\ received[s] = <<>>
        /\ task[s] = "off" /\ held[s] = 0
    BY <1>2, <1>3 DEF Init, SessionsInit, EventsInit
  <2>2. Notes(s) = {}
    BY <2>1, EmptySeq DEF Notes
  <2> QED
    BY <2>1, <2>2 DEF StreamInv, Unopened
<1> QED
  BY <1>1, <1>4, <1>5, <1>6, <1>7, <1>8, <1>9, HistoryInit DEF IInv

LEMMA InvNext == IInv /\ [Next]_vars => IInv'
BY TypeNext, PositionsNext, FreshNext, QuestionsNext, LinesNext, BoundedNext, AnnouncedNext,
   SnapshotNext, StreamsNext, HistoryNext DEF IInv

LEMMA InvHolds == Spec => []IInv
BY InvInit, InvNext, PTL DEF Spec

(***************************************************************************)
(* The model's own types and bounds: in particular no step publishes or    *)
(* pushes more than MaxEvents and MaxPushes leave room for, because each   *)
(* environment step leaves room for what is already due.                   *)
(***************************************************************************)
THEOREM TypeCorrect == Spec => []TypeOK
<1>1. IInv => TypeOK
  BY DEF IInv
<1> QED
  BY <1>1, InvHolds, PTL

(***************************************************************************)
(* record_chat keeps the newest HistoryLimit of the chats the recorder has *)
(* consumed, in order, whatever the rate of events; a new subscription, a  *)
(* lag or another receiver never disturbs it.                              *)
(***************************************************************************)
THEOREM TranscriptFaithful == Spec => []HistoryFaithful
<1>1. IInv => HistoryFaithful
  BY DEF IInv
<1> QED
  BY <1>1, InvHolds, PTL

(* chat_history(limit) answers with the newest of those, for every limit. *)
THEOREM AnswersFaithful == Spec => []HistoryAnswer
<1>1. IInv => HistoryAnswer
  BY HistoryAnswered DEF IInv
<1> QED
  BY <1>1, InvHolds, PTL

(***************************************************************************)
(* session_status: a recorder that has caught up shows the runtime's own   *)
(* state, once it has seen any, and however the status events interleave   *)
(* with the chats.                                                         *)
(***************************************************************************)
THEOREM StatusCurrent == Spec => []StatusOnceSeen
<1>1. IInv => StatusOnceSeen
  <2> SUFFICES ASSUME IInv, status # "None", cursor[Recorder] = Len(log) + 1, ~ announcing
               PROVE  status = peerStatus
    BY DEF StatusOnceSeen
  <2>1. Len(log) \in Nat /\ (Len(log) + 1) - 1 = Len(log)
    BY LenProperties DEF IInv, TypeOK
  <2>2. PICK n \in 1 .. Len(log) : NewestStatus(n, Len(log)) /\ log[n].peer = status
    BY <2>1 DEF IInv, Snapshot
  <2> QED
    BY <2>2 DEF IInv, Snapshot
<1> QED
  BY <1>1, InvHolds, PTL

(***************************************************************************)
(* The auto-reply loop: every automatic line that is announced answers a   *)
(* chat received before it, no chat is answered twice, and the answers     *)
(* come in the order of the questions.                                     *)
(***************************************************************************)
THEOREM RepliesOrdered == Spec => []RepliesInOrder
<1>1. IInv => RepliesInOrder
  BY DEF IInv, Announced, Questions, RepliesInOrder, AutoPushes
<1> QED
  BY <1>1, InvHolds, PTL

(***************************************************************************)
(* ChatPushed events: each is of a line the device was sent before, and no *)
(* line is announced twice, whichever of the tools, the input socket and   *)
(* the loop push at the same time.                                         *)
(***************************************************************************)
THEOREM NothingInvented == Spec => []AnnouncedWasSent
<1>1. IInv => AnnouncedWasSent
  <2> SUFFICES ASSUME IInv, NEW n \in 1 .. Len(log), log[n].kind = "pushed"
               PROVE  /\ \E i \in 1 .. Len(device) : device[i] = log[n].push
                      /\ \A m \in 1 .. n - 1 : log[m] # log[n]
    BY DEF AnnouncedWasSent
  <2>1. \E i \in 1 .. Len(device) : device[i] = log[n].push
    BY DEF IInv, Announced
  <2>2. ASSUME NEW m \in 1 .. n - 1, log[m] = log[n] PROVE FALSE
    <3>1. m \in 1 .. Len(log) /\ m < n
      BY LenProperties DEF IInv, TypeOK
    <3> QED
      BY <2>2, <3>1 DEF IInv, Announced
  <2> QED
    BY <2>1, <2>2
<1> QED
  BY <1>1, InvHolds, PTL

(***************************************************************************)
(* Every open SSE stream, however full its channel and however slow its    *)
(* client, carries an unbroken run of the events since its subscription.   *)
(***************************************************************************)
THEOREM RunsUnbroken == Spec => []NotificationsUnbroken
<1>1. IInv => NotificationsUnbroken
  BY DEF IInv, Streams
<1> QED
  BY <1>1, InvHolds, PTL

================================================================================
