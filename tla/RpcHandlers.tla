------------------------------- MODULE RpcHandlers -------------------------------
(***************************************************************************)
(* What the backend serves to the device (backend/src/lib.rs): the loop    *)
(* that takes inbound streams off a queue and the handlers of RouterState, *)
(* one task per stream.  Every await of a handler is a step of its own.    *)
(*                                                                         *)
(* The QL runtime is external: a stream takes Window items ahead of its    *)
(* reader, a write to a stream that was reset fails, and a handler that    *)
(* ends without finishing its stream resets it.                            *)
(***************************************************************************)
EXTENDS Naturals, Sequences, FiniteSets

CONSTANTS
  Stream,
  ChunkLen,   \* BENCHMARK_CHUNK_LEN
  MaxLength,  \* bound: the length a device asks for
  Window,     \* items a stream holds unread
  MaxLosses   \* bound: sessions lost

ASSUME HandlerAssumption ==
  {ChunkLen, Window} \subseteq Nat \ {0} /\ {MaxLength, MaxLosses} \subseteq Nat

Request == {"echo", "history", "chat"}
Route   == Request \cup {"bytes", "rate", "download"}
Kind    == Route \cup {"unrouted"}
Sized   == {"bytes", "download"}

VARIABLES
  kind, length, \* of each stream, as the device opened it
  inbox,        \* inbound_streams_rx
  pc,           \* where each stream's handler is
  remaining,    \* bytes it has yet to send
  wrote,        \* what it has written
  unread,       \* how much of that the device has not read
  open,         \* the streams that are neither finished nor reset
  reports,      \* the events it has published
  losses        \* sessions lost so far

vars == <<kind, length, inbox, pc, remaining, wrote, unread, open, reports, losses>>

Waiting  == {"respond", "rate", "chunk", "finish", "header", "part", "body", "endpart", "close"}
Running  == Waiting \cup {"begin"}

Init ==
  /\ kind = [s \in Stream |-> "unrouted"] /\ length = [s \in Stream |-> 0]
  /\ inbox = <<>>
  /\ pc = [s \in Stream |-> "new"]
  /\ remaining = [s \in Stream |-> 0]
  /\ wrote = [s \in Stream |-> <<>>] /\ unread = [s \in Stream |-> 0]
  /\ open = {} /\ reports = [s \in Stream |-> <<>>]
  /\ losses = 0

-----------------------------------------------------------------------------
(***************************************************************************)
(* External: the device opens a stream.  Its launcher wants one rate       *)
(* subscription, and opens another as soon as it has none.                 *)
(***************************************************************************)
Open(s) ==
  /\ pc[s] = "new"
  /\ \E k \in Kind, n \in 0 .. MaxLength :
       /\ k = "rate" => \A r \in open : kind[r] # "rate"
       /\ k \notin Sized => n = 0
       /\ kind' = [kind EXCEPT ![s] = k] /\ length' = [length EXCEPT ![s] = n]
  /\ pc' = [pc EXCEPT ![s] = "queued"]
  /\ inbox' = Append(inbox, s) /\ open' = open \cup {s}
  /\ UNCHANGED <<remaining, wrote, unread, reports, losses>>

DeviceReads(s) ==
  /\ unread[s] > 0 /\ unread' = [unread EXCEPT ![s] = @ - 1]
  /\ UNCHANGED <<kind, length, inbox, pc, remaining, wrote, open, reports, losses>>

(* The device gives up a stream, or all are lost with the session. *)
Reset(gone) ==
  /\ open' = open \ gone
  /\ unread' = [s \in Stream |-> IF s \in gone THEN 0 ELSE unread[s]]
  /\ UNCHANGED <<kind, length, inbox, pc, remaining, wrote, reports>>

DeviceResets(s) == s \in open /\ kind[s] # "rate" /\ Reset({s}) /\ UNCHANGED losses
SessionLost     == losses < MaxLosses /\ Reset(open) /\ losses' = losses + 1

-----------------------------------------------------------------------------
First(k) ==
  CASE k \in Request -> "begin" [] k = "bytes" -> "chunk"
    [] k = "rate" -> "rate" [] k = "download" -> "header" [] k = "unrouted" -> "done"

(* Mutant: the loop awaits the handler instead of spawning it. *)
ServeInline ==
  /\ inbox # <<>> /\ \A r \in Stream : pc[r] \notin Running
  /\ LET s == Head(inbox)
     IN  /\ inbox' = Tail(inbox)
         /\ pc' = [pc EXCEPT ![s] = First(kind[s])]
         /\ remaining' = [remaining EXCEPT ![s] = length[s]]
         /\ open' = IF kind[s] = "unrouted" THEN open \ {s} ELSE open
  /\ UNCHANGED <<kind, length, wrote, unread, reports, losses>>

(* The serve loop: a routed stream gets a task, any other is dropped. *)
Serve ==
  /\ inbox # <<>>
  /\ LET s == Head(inbox)
     IN  /\ inbox' = Tail(inbox)
         /\ pc' = [pc EXCEPT ![s] = First(kind[s])]
         /\ remaining' = [remaining EXCEPT ![s] = length[s]]
         /\ open' = IF kind[s] = "unrouted" THEN open \ {s} ELSE open
  /\ UNCHANGED <<kind, length, wrote, unread, reports, losses>>

Written(s, item) ==
  /\ s \in open /\ unread[s] < Window
  /\ wrote' = [wrote EXCEPT ![s] = Append(@, item)]
  /\ unread' = [unread EXCEPT ![s] = @ + 1]

Go(s, to)       == pc' = [pc EXCEPT ![s] = to]
Report(s, what) == reports' = [reports EXCEPT ![s] = Append(@, what)]
Asked           == <<kind, length, inbox, losses>>

(* A chat is published before it is answered; the others just go on. *)
Begin(s) ==
  /\ pc[s] = "begin" /\ Go(s, "respond")
  /\ IF kind[s] = "chat" THEN Report(s, "chat") ELSE UNCHANGED reports
  /\ UNCHANGED <<Asked, remaining, wrote, unread, open>>

(* respond: the reply, which ends the stream; an echo is then reported. *)
Respond(s) ==
  /\ pc[s] = "respond" /\ Written(s, "reply") /\ Go(s, "done")
  /\ IF kind[s] = "echo" THEN Report(s, "echo") ELSE UNCHANGED reports
  /\ open' = open \ {s}
  /\ UNCHANGED <<Asked, remaining>>

(* Mutant: the subscription ends with its first rate. *)
SendRateAndEnd(s) ==
  /\ pc[s] = "rate" /\ Written(s, "rate") /\ Go(s, "done")
  /\ open' = open \ {s}
  /\ UNCHANGED <<Asked, remaining, reports>>

(* One rate, sent or not, and the handler waits for ever. *)
SendRate(s) ==
  /\ pc[s] = "rate" /\ Written(s, "rate") /\ Go(s, "parked")
  /\ UNCHANGED <<Asked, remaining, open, reports>>

(* Mutant: every chunk is a full one. *)
FullSize(s) == ChunkLen

NextSize(s) == IF remaining[s] < ChunkLen THEN remaining[s] ELSE ChunkLen

(* The bodies of both benchmarks: chunks for as long as bytes remain. *)
SendChunk(s) ==
  /\ pc[s] \in {"chunk", "body"} /\ remaining[s] > 0
  /\ Written(s, NextSize(s))
  /\ remaining' = [remaining EXCEPT ![s] = @ - NextSize(s)]
  /\ UNCHANGED <<Asked, pc, open, reports>>

(* Mutant: the report does not wait for the end to be sent. *)
LastChunkReports(s) ==
  /\ pc[s] \in {"chunk", "body"} /\ remaining[s] = 0
  /\ Go(s, IF pc[s] = "chunk" THEN "finish" ELSE "endpart")
  /\ Report(s, length[s])
  /\ UNCHANGED <<Asked, remaining, wrote, unread, open>>

LastChunk(s) ==
  /\ pc[s] \in {"chunk", "body"} /\ remaining[s] = 0
  /\ Go(s, IF pc[s] = "chunk" THEN "finish" ELSE "endpart")
  /\ UNCHANGED <<Asked, remaining, wrote, unread, open, reports>>

(* finish: the end of the stream, then the report with the bytes sent. *)
Finish(s) ==
  /\ pc[s] \in {"finish", "close"} /\ Written(s, "end") /\ Go(s, "done")
  /\ open' = open \ {s} /\ Report(s, length[s])
  /\ UNCHANGED <<Asked, remaining>>

(* The frame around the body of a download: its header, one part, its end. *)
Frame(s) ==
  \/ pc[s] = "header" /\ Written(s, "header") /\ Go(s, "part")
  \/ pc[s] = "part" /\ Written(s, "part") /\ Go(s, "body")
  \/ pc[s] = "endpart" /\ Written(s, "endpart") /\ Go(s, "close")

SendFrame(s) == Frame(s) /\ UNCHANGED <<Asked, remaining, open, reports>>

(* A write to a reset stream fails and ends the handler; a rate's is ignored. *)
Fail(s) ==
  /\ pc[s] \in Waiting /\ s \notin open
  /\ Go(s, IF pc[s] = "rate" THEN "parked" ELSE "done")
  /\ UNCHANGED <<Asked, remaining, wrote, unread, open, reports>>

HandlerStep(s) ==
  Begin(s) \/ Respond(s) \/ SendRate(s) \/ SendChunk(s) \/ LastChunk(s) \/ Finish(s)
    \/ SendFrame(s) \/ Fail(s)

Next ==
  \/ Serve \/ SessionLost
  \/ \E s \in Stream : Open(s) \/ DeviceReads(s) \/ DeviceResets(s) \/ HandlerStep(s)

Spec == Init /\ [][Next]_vars

(***************************************************************************)
(* Fairness: tokio polls the loop and every task that can go on.  The      *)
(* device need not read.                                                   *)
(***************************************************************************)
FairSpec == Spec /\ WF_vars(Serve) /\ \A s \in Stream : WF_vars(HandlerStep(s))

-----------------------------------------------------------------------------
TypeOK ==
  /\ kind \in [Stream -> Kind] /\ length \in [Stream -> 0 .. MaxLength]
  /\ inbox \in Seq(Stream)
  /\ pc \in [Stream -> Running \cup {"new", "queued", "parked", "done"}]
  /\ remaining \in [Stream -> 0 .. MaxLength]
  /\ unread \in [Stream -> 0 .. Window]
  /\ open \subseteq Stream /\ losses \in 0 .. MaxLosses

(* What each route answers, from the route's definition. *)
Chunks(n) ==
  [k \in 1 .. (n + ChunkLen - 1) \div ChunkLen |->
     IF k * ChunkLen <= n THEN ChunkLen ELSE n % ChunkLen]

Answer(k, n) ==
  CASE k \in Request  -> <<"reply">>
    [] k = "rate"     -> <<"rate">>
    [] k = "bytes"    -> Chunks(n) \o <<"end">>
    [] k = "download" -> <<"header", "part">> \o Chunks(n) \o <<"endpart", "end">>
    [] k = "unrouted" -> <<>>

IsPrefixOf(p, q) == Len(p) <= Len(q) /\ p = SubSeq(q, 1, Len(p))

(***************************************************************************)
(* What the device gets on a stream is the answer to its request, or the   *)
(* beginning of it: every requested byte once, in chunks, also when none   *)
(* is asked for or the last chunk is full.                                 *)
(***************************************************************************)
AnswersInOrder == \A s \in Stream : IsPrefixOf(wrote[s], Answer(kind[s], length[s]))

(***************************************************************************)
(* A completion is published once, and only for an answer that was sent to *)
(* its end; a handler that ends with less has met a reset stream.  A chat  *)
(* is published by the time it is acknowledged.                            *)
(***************************************************************************)
ReportsTrue ==
  \A s \in Stream :
    /\ Len(reports[s]) <= 1
    /\ reports[s] # <<>> /\ kind[s] # "chat" => wrote[s] = Answer(kind[s], length[s])
    /\ wrote[s] # <<>> /\ kind[s] = "chat" => reports[s] = <<"chat">>

(***************************************************************************)
(* The launcher, which opens a rate subscription whenever it has none,     *)
(* opens a second one only when a session was lost: the handler never ends *)
(* the stream of its own accord ("the launcher stops storming").           *)
(***************************************************************************)
NoStorm == Cardinality({s \in Stream : kind[s] = "rate"}) <= losses + 1

(***************************************************************************)
(* A stream in the queue is answered to the end, or parked, unless its own *)
(* reader on the device stops: what the handlers of other streams wait for *)
(* does not hold it up, and neither does a reset.                          *)
(***************************************************************************)
HandlersEnd ==
  \A s \in Stream :
    [](pc[s] \in Running \cup {"queued"} => <>(pc[s] \in {"parked", "done"}) \/ <>[](unread[s] = Window))

=============================================================================
