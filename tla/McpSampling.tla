------------------------------ MODULE McpSampling ------------------------------
(***************************************************************************)
(* Server-initiated requests of the MCP server (backend/src/mcp.rs):       *)
(* McpState::sample asks the model behind the primary stream a question    *)
(* and waits for the reply, which arrives as an HTTP POST of its own and   *)
(* is matched to the waiting call by its JSON-RPC id.                      *)
(*                                                                         *)
(* Each element of Call is one invocation of sample(), with the oneshot    *)
(* channel it creates.  The calls of the auto-reply loop come one after    *)
(* another; a tool call runs inside the handler of the POST that carried   *)
(* it, which the HTTP server drops when the poster hangs up.               *)
(***************************************************************************)
EXTENDS SseSessions, FiniteSets

CONSTANTS
  AutoCall,      \* calls made by run_chat_auto_reply
  ToolCall,      \* client requests, each with its POST handler
  Body,          \* what a reply can hold: a usable text, an error, another shape
  StaleSession,  \* a stream of an earlier run of the server
  NoAnswer       \* the oneshot is empty

Call == AutoCall \cup ToolCall
Failure == {"quick", "noClient", "closed", "timedOut", "cancelled"}
Result == {"none"} \cup Failure \cup Body
Reply == [sess : Session \cup {StaleSession}, id : Nat, body : Body]

ASSUME SamplingAssumption ==
  /\ AutoCall \cap ToolCall = {}
  /\ StaleSession \notin Session \cup {NoSession}
  /\ NoAnswer \notin Reply
  /\ Body \cap ({"none"} \cup Failure) = {}

VARIABLES
  nextId,   \* next_request_id
  pending,  \* the in-flight table, as a set of entries id -> oneshot sender
  pc,       \* where each call stands
  reqId,    \* the id the call minted
  target,   \* the stream the call picked
  origin,   \* the stream whose client posted the tool call
  answer,   \* the content of the call's oneshot
  result,   \* what the call returned
  seen,     \* ghost: the questions each client has read
  posts     \* replies on their way to POST /messages

callVars     == <<pc, reqId, target, origin, answer, result>>
samplingVars == <<nextId, pending, callVars, seen, posts>>
vars         == <<sessionVars, samplingVars>>

Pc == {"idle", "device", "called", "picked", "minted", "registered", "waiting",
       "undelivered", "expired", "returned", "done"}

SamplingInit ==
  /\ nextId = 1
  /\ pending = {}
  /\ pc = [c \in Call |-> "idle"]
  /\ reqId = [c \in Call |-> 0]
  /\ target = [c \in Call |-> NoSession]
  /\ origin = [c \in Call |-> NoSession]
  /\ answer = [c \in Call |-> NoAnswer]
  /\ result = [c \in Call |-> "none"]
  /\ seen = {}
  \* A client of the previous run may still be replying to its request 1.
  /\ posts \in {{}} \cup {{[sess |-> StaleSession, id |-> 1, body |-> b]} : b \in Body}

Init == SessionsInit /\ SamplingInit

-----------------------------------------------------------------------------
(* HashMap insert and remove. *)
Insert(table, i, c) == {e \in table : e.id # i} \cup {[id |-> i, call |-> c]}
Remove(table, i)    == {e \in table : e.id # i}

Goto(c, label) == pc' = [pc EXCEPT ![c] = label]

Return(c, r) ==
  /\ Goto(c, "returned")
  /\ result' = [result EXCEPT ![c] = r]

-----------------------------------------------------------------------------
(* A client posts a tools/call of `sample`; its session must be known. *)
ToolRequest(c, s) ==
  /\ c \in ToolCall /\ pc[c] = "idle"
  /\ s \in greeted \cap sessions
  /\ Goto(c, "called")
  /\ origin' = [origin EXCEPT ![c] = s]
  /\ UNCHANGED <<nextId, pending, reqId, target, answer, result, seen, posts>>
  /\ UNCHANGED sessionVars

(* Any other request: it is answered at once, or after a call to the device. *)
QuickRequest(c, s) ==
  /\ c \in ToolCall /\ pc[c] = "idle"
  /\ s \in greeted \cap sessions
  /\ \/ Return(c, "quick")
     \/ Goto(c, "device") /\ UNCHANGED result
  /\ origin' = [origin EXCEPT ![c] = s]
  /\ UNCHANGED <<nextId, pending, reqId, target, answer, seen, posts>>
  /\ UNCHANGED sessionVars

(* chat_send's push or send_echo's request is through, or has failed. *)
DeviceReturn(c) ==
  /\ pc[c] = "device"
  /\ Return(c, "quick")
  /\ UNCHANGED <<nextId, pending, reqId, target, origin, answer, seen, posts>>
  /\ UNCHANGED sessionVars

(* The auto-reply loop awaits each call before it receives the next chat. *)
AutoRequest(c) ==
  /\ c \in AutoCall /\ pc[c] = "idle"
  /\ \A d \in AutoCall : pc[d] \in {"idle", "done"}
  /\ Goto(c, "called")
  /\ UNCHANGED <<nextId, pending, reqId, target, origin, answer, result>>
  /\ UNCHANGED <<seen, posts, sessionVars>>

(* sample(), step 1: clone the primary sender, or fail without a client. *)
PickSession(c) ==
  /\ pc[c] = "called"
  /\ \/ /\ primary = NoSession
        /\ Return(c, "noClient")
        /\ UNCHANGED target
     \/ /\ primary # NoSession
        /\ target' = [target EXCEPT ![c] = primary]
        /\ Goto(c, "picked")
        /\ UNCHANGED result
  /\ UNCHANGED <<nextId, pending, reqId, origin, answer, seen, posts>>
  /\ UNCHANGED sessionVars

(* Mutant: the counter is read without being incremented. *)
MintIdByLoad(c) ==
  /\ pc[c] = "picked"
  /\ reqId' = [reqId EXCEPT ![c] = nextId]
  /\ Goto(c, "minted")
  /\ UNCHANGED <<nextId, pending, target, origin, answer, result, seen, posts>>
  /\ UNCHANGED sessionVars

(* sample(), step 2: fetch_add on the counter ... *)
MintId(c) ==
  /\ pc[c] = "picked"
  /\ reqId' = [reqId EXCEPT ![c] = nextId]
  /\ nextId' = nextId + 1
  /\ Goto(c, "minted")
  /\ UNCHANGED <<pending, target, origin, answer, result, seen, posts>>
  /\ UNCHANGED sessionVars

(* ... and the oneshot enters the table, before anything is sent. *)
RegisterWaiter(c) ==
  /\ pc[c] = "minted"
  /\ pending' = Insert(pending, reqId[c], c)
  /\ Goto(c, "registered")
  /\ UNCHANGED <<nextId, reqId, target, origin, answer, result, seen, posts>>
  /\ UNCHANGED sessionVars

(* sample(), step 3: queue the question; wait while the channel is full. *)
SendRequest(c) ==
  /\ pc[c] = "registered"
  /\ \/ /\ Enqueue(target[c], SamplingRequest(reqId[c]))
        /\ Goto(c, "waiting")
     \/ /\ Closed(target[c])
        /\ Goto(c, "undelivered")
        /\ UNCHANGED chan
  /\ UNCHANGED <<nextId, pending, reqId, target, origin, answer, result>>
  /\ UNCHANGED <<seen, posts, conn, sessions, primary, greeted>>

(* sample(), step 4: the oneshot is polled before the deadline is. *)
TakeAnswer(c) ==
  /\ pc[c] = "waiting"
  /\ answer[c] # NoAnswer
  /\ Return(c, answer[c].body)
  /\ UNCHANGED <<nextId, pending, reqId, target, origin, answer, seen, posts>>
  /\ UNCHANGED sessionVars

(* Mutant: the wait ends with the stream instead of the deadline. *)
TimeoutOnClose(c) ==
  /\ pc[c] = "waiting"
  /\ answer[c] = NoAnswer /\ Closed(target[c])
  /\ Goto(c, "expired")
  /\ UNCHANGED <<nextId, pending, reqId, target, origin, answer, result>>
  /\ UNCHANGED <<seen, posts, sessionVars>>

Timeout(c) ==
  /\ pc[c] = "waiting"
  /\ answer[c] = NoAnswer
  /\ Goto(c, "expired")
  /\ UNCHANGED <<nextId, pending, reqId, target, origin, answer, result>>
  /\ UNCHANGED <<seen, posts, sessionVars>>

(* Mutant: a failed send does not clean up. *)
DropExpiredOnly(c) ==
  /\ pc[c] \in {"undelivered", "expired"}
  /\ pending' = IF pc[c] = "expired" THEN Remove(pending, reqId[c]) ELSE pending
  /\ Return(c, IF pc[c] = "expired" THEN "timedOut" ELSE "closed")
  /\ UNCHANGED <<nextId, reqId, target, origin, answer, seen, posts>>
  /\ UNCHANGED sessionVars

(* Mutant: the id to remove is read off the counter. *)
DropLatest(c) ==
  /\ pc[c] \in {"undelivered", "expired"}
  /\ pending' = Remove(pending, nextId - 1)
  /\ Return(c, IF pc[c] = "expired" THEN "timedOut" ELSE "closed")
  /\ UNCHANGED <<nextId, reqId, target, origin, answer, seen, posts>>
  /\ UNCHANGED sessionVars

(* The two error paths take the entry out again. *)
DropWaiter(c) ==
  /\ pc[c] \in {"undelivered", "expired"}
  /\ pending' = Remove(pending, reqId[c])
  /\ Return(c, IF pc[c] = "expired" THEN "timedOut" ELSE "closed")
  /\ UNCHANGED <<nextId, reqId, target, origin, answer, seen, posts>>
  /\ UNCHANGED sessionVars

(* Mutant: the result goes to the primary stream. *)
RespondToPrimary(c) ==
  /\ c \in ToolCall /\ pc[c] = "returned"
  /\ \/ Enqueue(primary, Response(c))
     \/ Closed(primary) /\ UNCHANGED chan
  /\ Goto(c, "done")
  /\ UNCHANGED <<nextId, pending, reqId, target, origin, answer, result>>
  /\ UNCHANGED <<seen, posts, conn, sessions, primary, greeted>>

(* The POST handler ships the result through the poster's own stream. *)
Respond(c) ==
  /\ c \in ToolCall /\ pc[c] = "returned"
  /\ \/ Enqueue(origin[c], Response(c))
     \/ Closed(origin[c]) /\ UNCHANGED chan
  /\ Goto(c, "done")
  /\ UNCHANGED <<nextId, pending, reqId, target, origin, answer, result>>
  /\ UNCHANGED <<seen, posts, conn, sessions, primary, greeted>>

(* The auto-reply loop takes the result and goes on. *)
AutoReturn(c) ==
  /\ c \in AutoCall /\ pc[c] = "returned"
  /\ Goto(c, "done")
  /\ UNCHANGED <<nextId, pending, reqId, target, origin, answer, result>>
  /\ UNCHANGED <<seen, posts, sessionVars>>

(***************************************************************************)
(* The poster hangs up: the HTTP server drops the handler at the await it  *)
(* is suspended in, and no code of sample() runs any more.                 *)
(***************************************************************************)
Cancel(c) ==
  /\ c \in ToolCall
  /\ pc[c] \in {"device", "registered", "waiting", "returned"}
  /\ Goto(c, "done")
  /\ result' = [result EXCEPT ![c] = "cancelled"]
  /\ UNCHANGED <<nextId, pending, reqId, target, origin, answer, seen, posts>>
  /\ UNCHANGED sessionVars

-----------------------------------------------------------------------------
(* The oneshot's receiver exists until the call stops waiting for it. *)
Listening(c) == pc[c] \in {"registered", "waiting"}

(* Mutant: the session of the reply is not looked up. *)
DeliverUnchecked(p) ==
  /\ p \in posts
  /\ posts' = posts \ {p}
  /\ LET found == {e \in pending : e.id = p.id}
     IN  /\ pending' = pending \ found
         /\ answer' = [c \in Call |->
              IF Listening(c) /\ \E e \in found : e.call = c THEN p ELSE answer[c]]
  /\ UNCHANGED <<nextId, pc, reqId, target, origin, result, seen, sessionVars>>

(* Mutant: the entry stays, and the latest reply overwrites the answer. *)
DeliverLatest(p) ==
  /\ p \in posts
  /\ posts' = posts \ {p}
  /\ LET found == {e \in pending : p.sess \in sessions /\ e.id = p.id}
     IN  answer' = [c \in Call |->
              IF Listening(c) /\ \E e \in found : e.call = c THEN p ELSE answer[c]]
  /\ UNCHANGED <<nextId, pending, pc, reqId, target, origin, result, seen, sessionVars>>

(* Mutant: a reply wakes whoever waits. *)
DeliverToAny(p) ==
  /\ p \in posts
  /\ posts' = posts \ {p}
  /\ LET found == {e \in pending : p.sess \in sessions}
     IN  /\ pending' = pending \ found
         /\ answer' = [c \in Call |->
              IF Listening(c) /\ \E e \in found : e.call = c THEN p ELSE answer[c]]
  /\ UNCHANGED <<nextId, pc, reqId, target, origin, result, seen, sessionVars>>

(***************************************************************************)
(* POST /messages with a reply.  An unknown session gets 404; otherwise    *)
(* the waiter leaves the table and receives the body under one lock.  An   *)
(* id that nobody waits for is only logged.                                *)
(***************************************************************************)
DeliverReply(p) ==
  /\ p \in posts
  /\ posts' = posts \ {p}
  /\ LET found == {e \in pending : p.sess \in sessions /\ e.id = p.id}
     IN  /\ pending' = pending \ found
         /\ answer' = [c \in Call |->
              IF Listening(c) /\ \E e \in found : e.call = c
              THEN p ELSE answer[c]]
  /\ UNCHANGED <<nextId, pc, reqId, target, origin, result, seen, sessionVars>>

(* The client reads its stream, and remembers the questions put to it. *)
ReadStream(s) ==
  /\ ClientRead(s)
  /\ seen' = seen \cup {[sess |-> s, id |-> m.id] :
                        m \in {n \in {Head(chan[s])} : n.kind = "sampling"}}
  /\ UNCHANGED <<nextId, pending, callVars, posts>>

(* It replies to a question it has read, at any time and however often. *)
PostReply(q, b) ==
  /\ q \in seen
  /\ posts' = posts \cup {[sess |-> q.sess, id |-> q.id, body |-> b]}
  /\ UNCHANGED <<nextId, pending, callVars, seen, sessionVars>>

(* Notifications share the channel with the requests (see McpEvents). *)
OtherTraffic(s) ==
  /\ conn[s] = "open"
  /\ Enqueue(s, Notification(0))
  /\ UNCHANGED <<conn, sessions, primary, greeted, samplingVars>>

SessionStep(s) ==
  /\ RegisterSession(s) \/ MakePrimary(s) \/ StartStream(s) \/ CloseStream(s)
  /\ UNCHANGED samplingVars

(* The steps of a running call that the server's scheduler must take. *)
CallStep(c) ==
  \/ PickSession(c) \/ MintId(c) \/ RegisterWaiter(c) \/ SendRequest(c)
  \/ TakeAnswer(c) \/ DropWaiter(c) \/ Respond(c) \/ AutoReturn(c)

Next ==
  \/ \E s \in Session : SessionStep(s) \/ ReadStream(s) \/ OtherTraffic(s)
  \/ \E c \in Call, s \in Session : ToolRequest(c, s) \/ QuickRequest(c, s)
  \/ \E c \in Call :
       AutoRequest(c) \/ DeviceReturn(c) \/ CallStep(c) \/ Timeout(c) \/ Cancel(c)
  \/ \E p \in posts : DeliverReply(p)
  \/ \E q \in seen, b \in Body : PostReply(q, b)

Spec == Init /\ [][Next]_vars

(***************************************************************************)
(* Fairness.  The runtime keeps polling a runnable task and its timers     *)
(* fire.  A channel gives its free slots to waiting senders first come     *)
(* first served, so a sender that again and again finds room gets it: that *)
(* is the strong fairness of SendRequest and Respond.  Nothing makes a     *)
(* client read, reply or hang up, nor the device answer.                   *)
(***************************************************************************)
FairSpec ==
  /\ Spec
  /\ \A c \in Call : /\ WF_vars(CallStep(c)) /\ WF_vars(Timeout(c))
                    /\ SF_vars(SendRequest(c)) /\ SF_vars(Respond(c))

-----------------------------------------------------------------------------
Entry    == [id : Nat, call : Call]
Question == [sess : Session, id : Nat]

Message ==
  {Endpoint} \cup [kind : {"notification"}, event : Nat]
             \cup [kind : {"sampling"}, id : Nat]
             \cup [kind : {"response"}, call : Call]

TypeOK ==
  /\ conn \in [Session -> ConnState]
  /\ sessions \subseteq Session
  /\ primary \in Session \cup {NoSession}
  /\ greeted \subseteq Session
  /\ chan \in [Session -> Seq(Message)]
  /\ \A s \in Session : Len(chan[s]) <= SseCapacity
  /\ nextId \in Nat
  /\ pending \subseteq Entry
  /\ pc \in [Call -> Pc]
  /\ reqId \in [Call -> Nat]
  /\ target \in [Call -> Session \cup {NoSession}]
  /\ origin \in [Call -> Session \cup {NoSession}]
  /\ answer \in [Call -> Reply \cup {NoAnswer}]
  /\ result \in [Call -> Result]
  /\ seen \subseteq Question
  /\ posts \subseteq Reply

(***************************************************************************)
(* The answer in a call's oneshot replies to that call's own question: it  *)
(* comes from the client the question was queued for, that client has read *)
(* it, and the id is the one this call minted.  Concurrent calls, replies  *)
(* that arrive late, twice or from before a restart never cross.           *)
(***************************************************************************)
AnswerMatches ==
  \A c \in Call : answer[c] # NoAnswer =>
    /\ answer[c].sess = target[c]
    /\ answer[c].id = reqId[c]
    /\ [sess |-> target[c], id |-> reqId[c]] \in seen

(***************************************************************************)
(* While a call listens without an answer its sender is in the table: an   *)
(* extremely fast reply cannot come too early, and no other reply, timeout *)
(* or call takes the entry away.  Hence the oneshot is never closed under  *)
(* a waiting call, and "sampling response channel closed" never happens.   *)
(***************************************************************************)
WaiterPresent ==
  \A c \in Call : Listening(c) /\ answer[c] = NoAnswer =>
    [id |-> reqId[c], call |-> c] \in pending

(***************************************************************************)
(* Every way sample() returns by itself, a reply, a timeout or a closed    *)
(* stream, leaves no entry behind; an entry that outlives its call belongs *)
(* to a handler that was dropped.                                          *)
(***************************************************************************)
LeaksOnlyCancelled ==
  \A e \in pending : pc[e.call] \in {"returned", "done"} => result[e.call] = "cancelled"

(***************************************************************************)
(* The inductive invariant behind these three.  Ids are minted once; every *)
(* entry of the table, every question queued or read and every reply from  *)
(* a known stream goes back to the one call that minted its id, and to the *)
(* stream that call picked.                                                *)
(***************************************************************************)
Minted(c) == reqId[c] # 0

IdsFresh ==
  /\ nextId > 0
  /\ \A c \in Call : reqId[c] < nextId
  /\ \A c, d \in Call : Minted(c) /\ reqId[c] = reqId[d] => c = d
  /\ \A c \in Call : pc[c] \in {"idle", "device", "called", "picked"} => ~ Minted(c)
  /\ \A c \in Call : pc[c] \in {"minted", "registered", "waiting", "undelivered", "expired"}
                     => Minted(c)

Asks(c, s, i) == Minted(c) /\ reqId[c] = i /\ target[c] = s

EntriesOwned == \A e \in pending : Minted(e.call) /\ e.id = reqId[e.call]

QueuedAsked ==
  \A s \in Session : \A n \in 1 .. Len(chan[s]) :
    chan[s][n].kind = "sampling" => \E c \in Call : Asks(c, s, chan[s][n].id)

SeenAsked == \A q \in seen : \E c \in Call : Asks(c, q.sess, q.id)

RepliesFounded ==
  \A p \in posts : p.sess = StaleSession \/ [sess |-> p.sess, id |-> p.id] \in seen

AnsweredLeft == \A e \in pending : answer[e.call] = NoAnswer

NotYetAnswered ==
  \A c \in Call : pc[c] \in {"idle", "device", "called", "picked", "minted"}
                  => answer[c] = NoAnswer

IInv ==
  /\ IdsFresh /\ EntriesOwned /\ QueuedAsked /\ SeenAsked /\ RepliesFounded
  /\ AnsweredLeft /\ NotYetAnswered /\ AnswerMatches /\ WaiterPresent /\ LeaksOnlyCancelled

(***************************************************************************)
(* No question is put twice: of each minted id there is at most one copy,  *)
(* queued in one stream or read by one client.                             *)
(***************************************************************************)
Copies(i) == {p \in Session \X (1 .. SseCapacity) :
                p[2] <= Len(chan[p[1]]) /\ chan[p[1]][p[2]] = SamplingRequest(i)}

AskedOnce ==
  \A i \in 1 .. nextId :
    Cardinality(Copies(i)) + Cardinality({q \in seen : q.id = i}) <= 1

(***************************************************************************)
(* The result of a request travels to the client that posted it, once, and *)
(* only after the tool has finished, even when the question it asked went  *)
(* to another client's stream.                                             *)
(***************************************************************************)
ResponseOnOwnStream ==
  \A s \in Session : \A n \in 1 .. Len(chan[s]) : \A c \in Call :
    chan[s][n] = Response(c) =>
      /\ s = origin[c]
      /\ pc[c] = "done" /\ result[c] \notin {"none", "cancelled"}
      /\ \A k \in 1 .. Len(chan[s]) : chan[s][k] = Response(c) => k = n

(***************************************************************************)
(* The first reply wins: a second one with the same id changes neither the *)
(* answer a call holds nor anything of a call that stopped listening.      *)
(***************************************************************************)
FirstReplyWins ==
  [][\A c \in Call : answer'[c] # answer[c] =>
        answer[c] = NoAnswer /\ Listening(c)]_vars

(***************************************************************************)
(* Every call comes to an end, whether or not the model replies and        *)
(* whoever hangs up.  It may wait for ever for two things only.  A stream  *)
(* that stays full: the sends wait for a slot outside the deadline, so a   *)
(* client that stops reading holds up whoever has something to put to it.  *)
(* And the device: chat_send and send_echo set no deadline of their own.   *)
(***************************************************************************)
Full(s) == s \in Session /\ Len(chan[s]) = SseCapacity

Stalled(c) ==
  \/ pc[c] = "device"
  \/ pc[c] = "registered" /\ Full(target[c])
  \/ pc[c] = "returned" /\ Full(origin[c])

CallsEnd ==
  \A c \in Call : [](pc[c] # "idle" => <>(pc[c] = "done") \/ <>[]Stalled(c))

(***************************************************************************)
(* What mcp.rs says of `sessions`, the table of "active SSE sessions": it  *)
(* will "cleanup the session entry when the stream ends".                  *)
(***************************************************************************)
SessionCleanedUp ==
  \A s \in Session : conn[s] = "gone" ~> s \notin sessions

(***************************************************************************)
(* Seen from its callers, sample() is a question that is settled once: the *)
(* implementation of that contract by the tables and channels above.       *)
(***************************************************************************)
Phase == [c \in Call |-> CASE pc[c] = "idle" -> "idle"
                            [] pc[c] = "done" -> "settled"
                            [] OTHER          -> "open"]
Outcome == [c \in Call |-> IF pc[c] = "done" THEN result[c] ELSE "none"]
Heard   == {c \in Call : [sess |-> target[c], id |-> reqId[c]] \in seen}

Contract == INSTANCE SamplingContract WITH
  Answer <- Body, phase <- Phase, outcome <- Outcome, heard <- Heard

ContractSpec == Contract!Spec

=============================================================================
