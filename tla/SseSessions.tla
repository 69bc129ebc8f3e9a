------------------------------ MODULE SseSessions ------------------------------
(***************************************************************************)
(* The SSE streams of the MCP server (backend/src/mcp.rs).                 *)
(*                                                                         *)
(* A stream is a bounded channel from the server's tasks to one HTTP       *)
(* client.  GET /sse creates it in three visible steps, each under a lock  *)
(* of its own: the sender enters the table of sessions, then becomes the   *)
(* primary session, then the handler returns and the client reads.         *)
(*                                                                         *)
(* This module declares the state that the sampling requests               *)
(* (McpSampling) and the event notifications (McpEvents) share, and the    *)
(* steps that belong to neither.                                           *)
(***************************************************************************)
EXTENDS Naturals, Sequences

CONSTANTS
  Session,      \* the streams the server may open; a Uuid each, never reused
  NoSession,    \* primary_session = None
  SseCapacity   \* capacity of a stream's channel (64 in the code)

ASSUME SessionAssumption ==
  /\ NoSession \notin Session
  /\ SseCapacity \in Nat \ {0}

VARIABLES
  conn,      \* how far the life of each stream has gone
  sessions,  \* the table POST /messages looks its session up in
  primary,   \* the stream that server-initiated requests target
  chan,      \* the messages queued in each stream's channel
  greeted    \* the clients that have read their POST address

sessionVars == <<conn, sessions, primary, chan, greeted>>

(***************************************************************************)
(* The messages of a stream.  Every payload is JSON text in the code; here *)
(* only what tells two of them apart is kept.                              *)
(***************************************************************************)
Endpoint           == [kind |-> "endpoint"]
Notification(n)    == [kind |-> "notification", event |-> n]
SamplingRequest(i) == [kind |-> "sampling", id |-> i]
Response(c)        == [kind |-> "response", call |-> c]

ConnState == {"none", "registered", "primary", "open", "gone"}

SessionsInit ==
  /\ conn = [s \in Session |-> "none"]
  /\ sessions = {}
  /\ primary = NoSession
  /\ chan = [s \in Session |-> <<>>]
  /\ greeted = {}

-----------------------------------------------------------------------------
(* The receiving half of a channel is dropped with the client's connection. *)
Closed(s) == conn[s] = "gone"

(* Mutant: the channel is unbounded. *)
EnqueueUnbounded(s, m) ==
  /\ ~ Closed(s)
  /\ chan' = [chan EXCEPT ![s] = Append(@, m)]

(* A send on a bounded channel waits for room, and fails once it is closed. *)
Enqueue(s, m) ==
  /\ ~ Closed(s)
  /\ Len(chan[s]) < SseCapacity
  /\ chan' = [chan EXCEPT ![s] = Append(@, m)]

(* GET /sse: the channel holds the endpoint event before anyone can see it. *)
RegisterSession(s) ==
  /\ conn[s] = "none"
  /\ conn' = [conn EXCEPT ![s] = "registered"]
  /\ chan' = [chan EXCEPT ![s] = <<Endpoint>>]
  /\ sessions' = sessions \cup {s}
  /\ UNCHANGED <<primary, greeted>>

(* The last handler to get here owns the server-initiated requests. *)
MakePrimary(s) ==
  /\ conn[s] = "registered"
  /\ conn' = [conn EXCEPT ![s] = "primary"]
  /\ primary' = s
  /\ UNCHANGED <<sessions, chan, greeted>>

(* The handler returns the stream to the HTTP server. *)
StartStream(s) ==
  /\ conn[s] = "primary"
  /\ conn' = [conn EXCEPT ![s] = "open"]
  /\ UNCHANGED <<sessions, primary, chan, greeted>>

(* The client reads the next message. *)
ClientRead(s) ==
  /\ conn[s] = "open"
  /\ chan[s] # <<>>
  /\ chan' = [chan EXCEPT ![s] = Tail(@)]
  /\ greeted' = greeted \cup (IF Head(chan[s]).kind = "endpoint" THEN {s} ELSE {})
  /\ UNCHANGED <<conn, sessions, primary>>

(***************************************************************************)
(* The client goes away: the HTTP server drops the stream and with it the  *)
(* receiver and whatever was queued.  The table and the primary reference  *)
(* keep their senders: the closure chained after the stream to remove the  *)
(* entry is mapped over an empty iterator, so it never runs.               *)
(***************************************************************************)
CloseStream(s) ==
  /\ conn[s] = "open"
  /\ conn' = [conn EXCEPT ![s] = "gone"]
  /\ chan' = [chan EXCEPT ![s] = <<>>]
  /\ UNCHANGED <<sessions, primary, greeted>>

=============================================================================
