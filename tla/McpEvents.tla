------------------------------- MODULE McpEvents -------------------------------
(***************************************************************************)
(* The backend's event broadcast and those who follow it: the recorder     *)
(* behind chat_history and session_status, the auto-reply loop, and one    *)
(* forwarder per SSE stream (backend/src/mcp.rs, and the emitters in       *)
(* backend/src/lib.rs).                                                    *)
(*                                                                         *)
(* A tokio broadcast channel keeps the last BroadcastCapacity events.  The *)
(* model keeps all of them in `log`; a receiver is a cursor into it, and   *)
(* has lagged when the event at its cursor is no longer among those kept.  *)
(* An event is named by its position in the log.                           *)
(***************************************************************************)
EXTENDS SseSessions, FiniteSets

CONSTANTS
  Recorder, AutoReply,  \* the two background tasks
  PeerStatus,           \* the states of the session, as the runtime reports them
  BroadcastCapacity,    \* 256 in the code
  HistoryLimit,         \* CHAT_HISTORY_LIMIT, 512 in the code
  AutoReplyOn,          \* the --auto-reply flag
  MaxEvents,            \* bound: events published in a behaviour
  MaxPushes             \* bound: chat lines pushed to the device

Receiver == Session \cup {Recorder, AutoReply}

ASSUME EventsAssumption ==
  /\ Recorder # AutoReply /\ {Recorder, AutoReply} \cap Session = {}
  /\ {BroadcastCapacity, HistoryLimit} \subseteq Nat \ {0}
  /\ {"Disconnected", "Connected"} \subseteq PeerStatus /\ "None" \notin PeerStatus
  /\ AutoReplyOn \in BOOLEAN
  /\ {MaxEvents, MaxPushes} \subseteq Nat

VARIABLES
  log,         \* every event published, oldest first
  from,        \* the position at which each receiver subscribed
  cursor,      \* the position it will receive next
  task,        \* how far the task of each receiver has gone
  held,        \* the event a forwarder has received and not yet sent on
  history,     \* the rolling chat history
  status,      \* the status snapshot
  asking,      \* the chat the auto-reply loop is asking the model about
  asked,       \* ghost: the chats it has asked about
  device,      \* ghost: the chat lines the device was sent, in order
  sent,        \* lines handed to the device whose sender has not resumed
  peerStatus,  \* the runtime's view of the session
  announcing,  \* handle_peer_status has told main but not yet the broadcast
  stage,       \* main: awaiting the session, or established, or serving
  received     \* ghost: the notifications each client has read

taskVars   == <<from, cursor, task, held>>
recordVars == <<history, status>>
autoVars   == <<asking, asked>>
pushVars   == <<device, sent>>
peerVars   == <<peerStatus, announcing, stage>>
eventVars  == <<log, taskVars, recordVars, autoVars, pushVars, peerVars, received>>
vars       == <<sessionVars, eventVars>>

Chat == {"received", "pushed"}

(* A chat line for the device, by whom, and which; a reply names its question. *)
Push == [by : {"tool", "line", "auto"}, n : 1 .. MaxEvents + MaxPushes]

Received   == [kind |-> "received"]
Pushed(p)  == [kind |-> "pushed", push |-> p]
Changed(v) == [kind |-> "status", peer |-> v]
Other      == [kind |-> "other"]     \* echo, benchmark, download

EventsInit ==
  /\ log = <<>>
  /\ from = [r \in Receiver |-> 0]
  /\ cursor = [r \in Receiver |-> 0]
  /\ task = [r \in Receiver |-> "off"]
  /\ held = [r \in Receiver |-> 0]
  /\ history = <<>>
  /\ status = "None"
  /\ asking = 0
  /\ asked = {}
  /\ device = <<>>
  /\ sent = {}
  /\ peerStatus = "Disconnected"
  /\ announcing = FALSE
  /\ stage = "pairing"
  /\ received = [s \in Session |-> <<>>]

Init == SessionsInit /\ EventsInit

-----------------------------------------------------------------------------
(* events_tx.send never waits: the oldest event kept makes room. *)
Publish(e) == log' = Append(log, e)

Newest(n, q) == IF Len(q) > n THEN SubSeq(q, Len(q) - n + 1, Len(q)) ELSE q

(* Environment steps leave room for the events that are already due. *)
ChatsAhead ==
  IF task[AutoReply] = "running"
  THEN {n \in cursor[AutoReply] .. Len(log) : log[n] = Received} ELSE {}

Due == Cardinality(sent) + Cardinality(ChatsAhead)
         + (IF announcing THEN 1 ELSE 0)
         + (IF asking # 0 /\ [by |-> "auto", n |-> asking] \notin sent THEN 1 ELSE 0)

Room(k) == Len(log) + Due + k <= MaxEvents

-----------------------------------------------------------------------------
(* handle_peer_status: main's queue first, then the broadcast. *)
PeerChange(v) ==
  /\ ~ announcing /\ v # peerStatus /\ Room(1)
  /\ peerStatus' = v
  /\ announcing' = TRUE
  /\ stage' = IF stage = "pairing" /\ v = "Connected" THEN "established" ELSE stage
  /\ UNCHANGED <<log, taskVars, recordVars, autoVars, pushVars, received, sessionVars>>

AnnouncePeer ==
  /\ announcing
  /\ announcing' = FALSE
  /\ Publish(Changed(peerStatus))
  /\ UNCHANGED <<peerStatus, stage, taskVars, recordVars, autoVars, pushVars, received>>
  /\ UNCHANGED sessionVars

(* run() in serve mode: with --auto-reply the second task is spawned too. *)
Serve ==
  /\ stage = "established"
  /\ stage' = "serving"
  /\ LET loops == {Recorder} \cup {r \in {AutoReply} : AutoReplyOn}
     IN  task' = [r \in Receiver |-> IF r \in loops THEN "spawned" ELSE task[r]]
  /\ UNCHANGED <<log, from, cursor, held, recordVars, autoVars, pushVars>>
  /\ UNCHANGED <<peerStatus, announcing, received, sessionVars>>

(* ChatSend: the event is emitted before the device gets its ack. *)
ChatFromDevice ==
  /\ stage = "serving" /\ Room(2)
  /\ Publish(Received)
  /\ UNCHANGED <<taskVars, recordVars, autoVars, pushVars, peerVars, received>>
  /\ UNCHANGED sessionVars

(* Another handler has answered the device and reports it. *)
HandlerReport ==
  /\ stage = "serving" /\ Room(1)
  /\ Publish(Other)
  /\ UNCHANGED <<taskVars, recordVars, autoVars, pushVars, peerVars, received>>
  /\ UNCHANGED sessionVars

-----------------------------------------------------------------------------
(* A receiver subscribes at the end of the log. *)
Subscribe(r) ==
  /\ from' = [from EXCEPT ![r] = Len(log) + 1]
  /\ cursor' = [cursor EXCEPT ![r] = Len(log) + 1]
  /\ task' = [task EXCEPT ![r] = "running"]

(* The background tasks subscribe when they first run, not when spawned. *)
StartTask(r) ==
  /\ r \in {Recorder, AutoReply} /\ task[r] = "spawned"
  /\ Subscribe(r)
  /\ UNCHANGED <<log, held, recordVars, autoVars, pushVars, peerVars, received>>
  /\ UNCHANGED sessionVars

Unread(r) == Len(log) + 1 - cursor[r]
Lagged(r) == Unread(r) > BroadcastCapacity

(* Mutant: the newest event is not seen before the next one comes. *)
ReceiveLate(r) ==
  /\ task[r] = "running"
  /\ Unread(r) > 1 /\ ~ Lagged(r)
  /\ cursor' = [cursor EXCEPT ![r] = @ + 1]
  /\ UNCHANGED <<from, task>>

(* recv() yields the next event kept; any error ends the receiver's loop. *)
Receive(r) ==
  /\ task[r] = "running"
  /\ Unread(r) > 0 /\ ~ Lagged(r)
  /\ cursor' = [cursor EXCEPT ![r] = @ + 1]
  /\ UNCHANGED <<from, task>>

(* Mutant: a lagged receiver goes on with the oldest event kept. *)
SkipLagged(r) ==
  /\ task[r] = "running" /\ held[r] = 0
  /\ r = AutoReply => asking = 0
  /\ Lagged(r)
  /\ cursor' = [cursor EXCEPT ![r] = Len(log) + 1 - BroadcastCapacity]
  /\ UNCHANGED <<log, from, task, held, recordVars, autoVars, pushVars, peerVars>>
  /\ UNCHANGED <<received, sessionVars>>

StopLagged(r) ==
  /\ task[r] = "running" /\ held[r] = 0
  /\ r = AutoReply => asking = 0
  /\ Lagged(r)
  /\ task' = [task EXCEPT ![r] = "stopped"]
  /\ UNCHANGED <<log, from, cursor, held, recordVars, autoVars, pushVars, peerVars>>
  /\ UNCHANGED <<received, sessionVars>>

-----------------------------------------------------------------------------
(* Mutant: the oldest entries are never dropped. *)
RecordChatUncapped(n) == history' = Append(history, [kind |-> log[n].kind, n |-> n])

(* Mutant: a full history keeps what it has. *)
RecordChatUntilFull(n) ==
  history' = IF Len(history) = HistoryLimit THEN history
             ELSE Append(history, [kind |-> log[n].kind, n |-> n])

(* record_chat: append, then drop what exceeds the limit. *)
RecordChat(n) == history' = Newest(HistoryLimit, Append(history, [kind |-> log[n].kind, n |-> n]))

(* Mutant: a session that goes away does not reach the snapshot. *)
RecordConnected ==
  /\ Receive(Recorder)
  /\ LET n == cursor[Recorder]
     IN  \/ log[n].kind \in Chat /\ RecordChat(n) /\ UNCHANGED status
         \/ log[n] = Changed("Connected") /\ status' = log[n].peer /\ UNCHANGED history
         \/ log[n].kind \notin Chat /\ log[n] # Changed("Connected") /\ UNCHANGED recordVars
  /\ UNCHANGED <<log, held, autoVars, pushVars, peerVars, received, sessionVars>>

Record ==
  /\ Receive(Recorder)
  /\ LET n == cursor[Recorder]
     IN  \/ log[n].kind \in Chat /\ RecordChat(n) /\ UNCHANGED status
         \/ log[n].kind = "status" /\ status' = log[n].peer /\ UNCHANGED history
         \/ log[n].kind = "other" /\ UNCHANGED recordVars
  /\ UNCHANGED <<log, held, autoVars, pushVars, peerVars, received, sessionVars>>

(* Mutant: the slice is taken from the front. *)
ChatHistoryOldest(limit) == SubSeq(history, 1, IF limit > Len(history) THEN Len(history) ELSE limit)

(* The answer of chat_history(limit); 50 by default, 512 at most. *)
ChatHistory(limit) == Newest(IF limit > HistoryLimit THEN HistoryLimit ELSE limit, history)

-----------------------------------------------------------------------------
(* Mutant: the next chat is received while a reply is still under way. *)
AutoReceiveEagerly ==
  /\ Receive(AutoReply)
  /\ LET n == cursor[AutoReply]
     IN  \/ log[n].kind = "received" /\ asking' = n /\ asked' = asked \cup {n}
         \/ log[n].kind # "received" /\ UNCHANGED autoVars
  /\ UNCHANGED <<log, held, recordVars, pushVars, peerVars, received, sessionVars>>

(* The auto-reply loop: only a chat from the device makes it ask. *)
AutoReceive ==
  /\ asking = 0
  /\ Receive(AutoReply)
  /\ LET n == cursor[AutoReply]
     IN  \/ log[n].kind = "received" /\ asking' = n /\ asked' = asked \cup {n}
         \/ log[n].kind # "received" /\ UNCHANGED autoVars
  /\ UNCHANGED <<log, held, recordVars, pushVars, peerVars, received, sessionVars>>

(* sample() fails, or the push does: the loop only logs it. *)
AutoFail ==
  /\ asking # 0 /\ [by |-> "auto", n |-> asking] \notin sent
  /\ asking' = 0
  /\ UNCHANGED <<asked, log, taskVars, recordVars, pushVars, peerVars, received>>
  /\ UNCHANGED sessionVars

(* Mutant: the line is mirrored into the event stream without being pushed. *)
MirrorOnly(p) ==
  /\ device' = device
  /\ sent' = IF p.by = "line" THEN sent ELSE sent \cup {p}

ToDevice(p) ==
  /\ device' = Append(device, p)
  /\ sent' = IF p.by = "line" THEN sent ELSE sent \cup {p}

(* sample() yields a reply, and the runtime hands it to the device. *)
AutoPush ==
  /\ asking # 0 /\ [by |-> "auto", n |-> asking] \notin sent
  /\ ToDevice([by |-> "auto", n |-> asking])
  /\ UNCHANGED <<log, taskVars, recordVars, autoVars, peerVars, received, sessionVars>>

(* chat_send, and a line of the chat input socket. *)
ClientPush(by) ==
  /\ stage = "serving" /\ Room(1)
  /\ Cardinality({i \in 1 .. Len(device) : device[i].by # "auto"}) < MaxPushes
  /\ ToDevice([by |-> by, n |-> Len(device) + 1])
  /\ UNCHANGED <<log, taskVars, recordVars, autoVars, peerVars, received, sessionVars>>

(* The sender resumes and mirrors the line into the event stream. *)
AnnouncePush(p) ==
  /\ p \in sent
  /\ Publish(Pushed(p))
  /\ sent' = sent \ {p}
  /\ asking' = IF p.by = "auto" THEN 0 ELSE asking
  /\ UNCHANGED <<asked, device, taskVars, recordVars, peerVars, received, sessionVars>>

(* The POST handler running chat_send is dropped before it resumes. *)
ForgetPush(p) ==
  /\ p \in sent /\ p.by = "tool"
  /\ sent' = sent \ {p}
  /\ UNCHANGED <<log, device, taskVars, recordVars, autoVars, peerVars, received>>
  /\ UNCHANGED sessionVars

-----------------------------------------------------------------------------
(* GET /sse, once the server is up; the forwarder subscribes at its end. *)
OpenStream(s) ==
  /\ stage = "serving"
  /\ \/ (RegisterSession(s) \/ MakePrimary(s)) /\ UNCHANGED <<from, cursor, task>>
     \/ StartStream(s) /\ Subscribe(s)
  /\ UNCHANGED <<log, held, recordVars, autoVars, pushVars, peerVars, received>>

LeaveStream(s) ==
  /\ CloseStream(s)
  /\ UNCHANGED eventVars

(* The forwarder receives an event ... *)
Pick(s) ==
  /\ held[s] = 0
  /\ Receive(s)
  /\ held' = [held EXCEPT ![s] = cursor[s]]
  /\ UNCHANGED <<log, recordVars, autoVars, pushVars, peerVars, received, sessionVars>>

(* Mutant: a full channel loses the notification. *)
ForwardOrDrop(s) ==
  /\ held[s] # 0
  /\ \/ Enqueue(s, Notification(held[s])) /\ UNCHANGED task
     \/ Len(chan[s]) = SseCapacity /\ UNCHANGED <<chan, task>>
     \/ Closed(s) /\ task' = [task EXCEPT ![s] = "stopped"] /\ UNCHANGED chan
  /\ held' = [held EXCEPT ![s] = 0]
  /\ UNCHANGED <<log, from, cursor, recordVars, autoVars, pushVars, peerVars>>
  /\ UNCHANGED <<received, conn, sessions, primary, greeted>>

(* ... and sends it on when there is room, or ends with the channel. *)
Forward(s) ==
  /\ held[s] # 0
  /\ \/ Enqueue(s, Notification(held[s])) /\ UNCHANGED task
     \/ Closed(s) /\ task' = [task EXCEPT ![s] = "stopped"] /\ UNCHANGED chan
  /\ held' = [held EXCEPT ![s] = 0]
  /\ UNCHANGED <<log, from, cursor, recordVars, autoVars, pushVars, peerVars>>
  /\ UNCHANGED <<received, conn, sessions, primary, greeted>>

(* Requests and responses share the channel (see McpSampling). *)
OtherTraffic(s) ==
  /\ conn[s] = "open"
  /\ Enqueue(s, SamplingRequest(0))
  /\ UNCHANGED <<conn, sessions, primary, greeted, eventVars>>

ReadStream(s) ==
  /\ ClientRead(s)
  /\ received' = IF Head(chan[s]).kind = "notification"
                 THEN [received EXCEPT ![s] = Append(@, Head(chan[s]).event)] ELSE received
  /\ UNCHANGED <<log, taskVars, recordVars, autoVars, pushVars, peerVars>>

-----------------------------------------------------------------------------
Next ==
  \/ \E v \in PeerStatus : PeerChange(v)
  \/ AnnouncePeer \/ Serve \/ ChatFromDevice \/ HandlerReport
  \/ \E r \in Receiver : StartTask(r) \/ StopLagged(r)
  \/ Record \/ AutoReceive \/ AutoFail \/ AutoPush
  \/ \E by \in {"tool", "line"} : ClientPush(by)
  \/ \E p \in sent : AnnouncePush(p) \/ ForgetPush(p)
  \/ \E s \in Session : \/ OpenStream(s) \/ LeaveStream(s) \/ Pick(s) \/ Forward(s)
                        \/ OtherTraffic(s) \/ ReadStream(s)

Spec == Init /\ [][Next]_vars

(***************************************************************************)
(* Fairness.  The runtime polls every task that has something to do, and a *)
(* forwarder waits in line for a free slot of its channel.  The device,    *)
(* the model (AutoPush against AutoFail) and the clients are free.         *)
(***************************************************************************)
AutoStep == \/ AutoReceive \/ AutoFail
            \/ \E p \in sent : p.by = "auto" /\ AnnouncePush(p)

ServerFairness ==
  /\ WF_vars(AnnouncePeer) /\ WF_vars(Record) /\ WF_vars(AutoStep)
  /\ \A r \in Receiver : WF_vars(StartTask(r)) /\ WF_vars(StopLagged(r))
  /\ \A p \in Push : p.by # "auto" => WF_vars(AnnouncePush(p))
  /\ \A s \in Session : WF_vars(Pick(s)) /\ SF_vars(Forward(s))

FairSpec    == Spec /\ ServerFairness
ReadingSpec == FairSpec /\ \A s \in Session : WF_vars(ReadStream(s))

-----------------------------------------------------------------------------
Message == {Endpoint, SamplingRequest(0)} \cup {Notification(n) : n \in 1 .. MaxEvents}
Event == [kind : {"received", "other"}] \cup {Pushed(p) : p \in Push}
                                        \cup {Changed(v) : v \in PeerStatus}
Position == 0 .. MaxEvents + 1

TypeOK ==
  /\ conn \in [Session -> ConnState]
  /\ sessions \subseteq Session /\ greeted \subseteq Session
  /\ primary \in Session \cup {NoSession}
  /\ chan \in [Session -> Seq(Message)]
  /\ \A s \in Session : Len(chan[s]) <= SseCapacity
  /\ log \in Seq(Event) /\ Len(log) <= MaxEvents
  /\ from \in [Receiver -> Position] /\ cursor \in [Receiver -> Position]
  /\ task \in [Receiver -> {"off", "spawned", "running", "stopped"}]
  /\ held \in [Receiver -> Position]
  /\ history \in Seq([kind : Chat, n : Position]) /\ Len(history) <= HistoryLimit
  /\ status \in PeerStatus \cup {"None"}
  /\ asking \in Position /\ asked \subseteq Position
  /\ device \in Seq(Push) /\ sent \subseteq Push
  /\ peerStatus \in PeerStatus /\ announcing \in BOOLEAN
  /\ stage \in {"pairing", "established", "serving"}
  /\ received \in [Session -> Seq(Position)]

(***************************************************************************)
(* The transcript is faithful: the history is the newest HistoryLimit of   *)
(* the chats the recorder has consumed, each with its direction and in the *)
(* order of the broadcast, and chat_history answers with its newest part.  *)
(***************************************************************************)
Consumed == {n \in from[Recorder] .. cursor[Recorder] - 1 : log[n].kind \in Chat}

(* q is the newest of the chats consumed, all of them or as many as limit. *)
IsNewest(q, limit) ==
  /\ Len(q) <= limit
  /\ \A i \in 1 .. Len(q) : q[i].n \in Consumed /\ q[i].kind = log[q[i].n].kind
  /\ \A i, j \in 1 .. Len(q) : i < j => q[i].n < q[j].n
  /\ \A n \in Consumed : \/ \E i \in 1 .. Len(q) : q[i].n = n
                         \/ Len(q) = limit /\ \A i \in 1 .. Len(q) : n < q[i].n

HistoryFaithful == IsNewest(history, HistoryLimit)

HistoryAnswer ==
  \A limit \in 0 .. HistoryLimit + 1 :
    IsNewest(ChatHistory(limit), IF limit > HistoryLimit THEN HistoryLimit ELSE limit)

(***************************************************************************)
(* Once the recorder has seen any status event, session_status is the      *)
(* runtime's own whenever the recorder has caught up with it.  Before that *)
(* it may lack a session that is up: the recorder starts after the         *)
(* handshake, as the README's caveat on initial status events says.        *)
(***************************************************************************)
StatusOnceSeen ==
  status # "None" /\ cursor[Recorder] = Len(log) + 1 /\ ~ announcing
    => status = peerStatus

(***************************************************************************)
(* A client reads an unbroken run of the events since its stream began:    *)
(* what it has read, what is queued and what its forwarder holds are, end  *)
(* to end, the events from its subscription up to its cursor.              *)
(***************************************************************************)
Notes(s)    == {k \in 1 .. Len(chan[s]) : chan[s][k].kind = "notification"}
NextRead(s) == from[s] + Len(received[s])
NextSent(s) == IF held[s] = 0 THEN cursor[s] ELSE held[s]

Unbroken(s) ==
  /\ \A i \in 1 .. Len(received[s]) : received[s][i] = from[s] + i - 1
  /\ NextRead(s) <= NextSent(s)
  /\ {chan[s][k].event : k \in Notes(s)} = NextRead(s) .. NextSent(s) - 1
  /\ \A j, k \in Notes(s) : j < k => chan[s][j].event < chan[s][k].event
  /\ held[s] # 0 => held[s] = cursor[s] - 1

NotificationsUnbroken == \A s \in Session : conn[s] = "open" => Unbroken(s)

(***************************************************************************)
(* The loop answers a chat at most once, only after it was received, and   *)
(* in the order of the questions, so that the transcript stays coherent.   *)
(***************************************************************************)
AutoPushes == {n \in 1 .. Len(log) : log[n].kind = "pushed" /\ log[n].push.by = "auto"}

RepliesInOrder ==
  /\ \A n \in AutoPushes : LET q == log[n].push.n
                           IN  q < n /\ log[q].kind = "received" /\ q \in asked
  /\ \A m, n \in AutoPushes : m < n => log[m].push.n < log[n].push.n

(***************************************************************************)
(* Nothing is announced as pushed that the device was not sent, and no     *)
(* push is announced twice.                                                *)
(***************************************************************************)
AnnouncedWasSent ==
  \A n \in 1 .. Len(log) : log[n].kind = "pushed" =>
    /\ \E i \in 1 .. Len(device) : device[i] = log[n].push
    /\ \A m \in 1 .. n - 1 : log[m] # log[n]

(* What is published while the recorder runs is recorded, or it lagged. *)
Recorded ==
  \A n \in 1 .. MaxEvents :
    n <= Len(log) /\ task[Recorder] = "running" /\ n >= from[Recorder]
      ~> cursor[Recorder] > n \/ task[Recorder] = "stopped"

(***************************************************************************)
(* A client that keeps reading its stream gets every event published since *)
(* it was opened, unless its forwarder lags behind the broadcast.          *)
(***************************************************************************)
Delivered ==
  \A s \in Session : \A n \in 1 .. MaxEvents :
    n <= Len(log) /\ conn[s] = "open" /\ n >= from[s]
      ~> \/ conn[s] = "gone" \/ task[s] = "stopped"
         \/ \E i \in 1 .. Len(received[s]) : received[s][i] = n

(***************************************************************************)
(* mcp.rs says of the auto-reply loop that "each ChatReceived event        *)
(* triggers a sampling/createMessage round-trip".                          *)
(***************************************************************************)
EachChatAsked ==
  \A n \in 1 .. MaxEvents :
    n <= Len(log) /\ log[n] = Received /\ task[AutoReply] = "running" /\ n >= from[AutoReply]
      ~> n \in asked

=============================================================================
