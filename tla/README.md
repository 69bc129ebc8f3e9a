# A verification project for foundation-lab

TLA+ models of foundation-lab's own logic, TLC runs over small instances, and
TLAPS proofs of the properties that matter most.  Paths such as
`backend/src/mcp.rs` are relative to the repository.  `PROJECT.json` lists the
runs, the mutants, the source lines of every definition, the hazards and the
theorems.

## 1. The system

foundation-lab talks to a KeyOS device (or its simulator) over the QL v2
protocol.  `fl` is its command line; `fl backend` is the QL2 initiator, `fl
relay` the byte forwarder between backend and device, the other subcommands are
one-shot device harnesses.

```
 device (sim) ──TCP── relay ──TCP── backend ──HTTP/SSE── MCP clients (models)
                                      └────TCP 9999──── chat input lines
```

### Components

| Component | Source | State it keeps | Operations |
| --- | --- | --- | --- |
| MCP streams | `mcp.rs` 189-225, 507-568 | `sessions`, `primary_session`, one bounded channel (64) per stream | GET /sse, client reads, client leaves |
| MCP sampling | `mcp.rs` 290-369, 604-662 | `next_request_id`, `pending` (id → oneshot), the running calls | `sample()`, POST of requests and of replies, 60 s deadline, dropped handlers |
| MCP events | `mcp.rs` 87-118, 267-276, 386-473, 533-554; emitters in `lib.rs` | broadcast channel (256), `history` (512), `status`, one cursor per receiver | recorder, auto-reply loop, one forwarder per stream, `chat_history` |
| MCP tools | `mcp.rs` 670-895 | none of their own | `initialize`, `tools/list`, five tools |
| Lifecycle | `lib.rs` 364-587, 946-986 | the state file, the process's mode and identity, the callbacks' queues | mode selection, pairing, reconnect, save/load, serve, crash |
| RPC router and handlers | `lib.rs` 130-360, 537-547 | the queue of inbound streams, one task per stream | Echo, History, BytesBenchmark, ExchangeRate, ChatSend, DownloadBenchmark; the serve loop |
| Transport bridge | `lib.rs` 693-773, 926-937 | queued records, partial frames and records | chunk, frame, write, read, reassemble |
| Client-mode RPCs | `lib.rs` 589-655 | one running request | echo, benchmark, then exit |
| Platform adapter | `lib.rs` 788-986 | the senders of the callbacks' queues | status, peer, inbound stream, write |
| Chat input | `lib.rs` 992-1030 | none | a line is a push |
| Relay | `relay/src/lib.rs` | the accept loop, one task per link | accept, dial, copy both ways |
| `fl fido` | `fl/src/fido.rs` | the reassembly of a reply, the presence deadline | CTAPHID exchange, the four U2F commands, the poll |
| `fl logs` | `fl/src/logs.rs` | a frame, a record, the count printed | transfers, frames, records, reconnect, limit, deadline |
| `fl piv` | `fl/src/piv.rs` | the data of a chained response | 61xx chaining, TLV parsing, the four commands |
| `fl ccid-inspect` | `fl/src/ccid_inspect.rs` | none | descriptor dump |
| v1 client | `v1-client/src` | a dechunker and a replay cache | pair, one message, exit |

### How they interact

* The QL runtime (a library) calls back into `BackendPlatform`:
  `handle_peer_status` fills `status_rx`, which `await_status` reads, and then
  the broadcast; `persist_peer` fills `peer_rx`; `handle_inbound` fills the
  queue of the serve loop.
* The serve loop hands each device stream to a task of its own; handlers publish
  events on the broadcast.
* The recorder, the auto-reply loop and the forwarders each hold a receiver of
  the broadcast.  A receiver that falls more than 256 events behind gets an
  error, and every one of these loops is `while let Ok(..)`.
* Forwarders, `sample()` and the POST handlers share a stream's bounded channel.
* The bridge is two tasks between the runtime's queues and a TCP connection, which
  share nothing: one may end while the other goes on, and neither tells anybody.
* `sample()` leaves a oneshot in `pending` and waits; a later POST takes it out.
  A `sample` *tool* call runs inside the handler of another POST, which the HTTP
  server drops when that client hangs up.

### What is hard about it

Concurrent calls on one table; replies late, twice, or never; a deadline against
a reply; handlers that vanish at an await; slow clients against a bounded
channel and a bounded broadcast; subscription that begins later than the state
it is to follow; a state file written in place; half-closed links; records cut
into frames of which some do not decode, on a link that breaks at any point; a
reader that stops while others wait; reassembly with keepalives, foreign reports
and disconnects in between; lengths exactly at the size of a chunk, a transfer or
a sequence number.  The `hazards` of `PROJECT.json` name each at its line, with
the properties that watch it.

### What makes each part correct

* *Streams*: a client reads an unbroken run of the events since it connected; a
  response goes to the stream of its request, once.
* *Sampling*: an answer belongs to the question of the call that gets it; a
  waiting call can always be woken; no ordinary return leaves an entry behind;
  every call ends.
* *Events*: the history is the newest part of what happened, in order; the
  snapshot is the runtime's status; auto-replies follow their questions in
  order; nothing is announced that was not sent.
* *Lifecycle*: the file only ever names an identity the device has accepted; a
  complete pairing is lost only on request.
* *Relay*: no byte is lost before an orderly end; links end if both sides read;
  nobody waits for another's link.
* *Handlers*: an answer is the whole of what was asked or a beginning of it; a
  report of a completion is true; no stream holds up another.
* *Bridge and v1 client*: records come out in order, whole and once; only a
  record with a frame that did not decode is missing; what is written arrives.
* *Harnesses*: unless reports of other channels come in between, a reply is the
  reply to this request, whole, and a pass was confirmed; unless a transfer is cut
  by its timeout, what is printed is what was logged; a value is the card's; a run
  ends.

## 2. The modules

| Module | Models |
| --- | --- |
| `SseSessions` | the streams: channel, table, primary, and the steps of GET /sse |
| `McpSampling` | `sample()`, POST /messages, deadline, cancellation; extends `SseSessions` |
| `SamplingContract` | what a call of `sample()` promises, without ids, tables or timers |
| `McpSamplingProofs` | the invariants of `McpSampling` and what travels in its streams, proved |
| `McpSamplingRefines` | that `McpSampling` implements `SamplingContract`, proved |
| `McpEvents` | broadcast, recorder, auto-reply, forwarders; extends `SseSessions` |
| `McpEventsProofs` | its safety properties, proved |
| `Lifecycle` | many runs of one backend on one machine, and the device's memory of it |
| `LifecycleProofs` | its safety properties, proved |
| `Relay` | the relay's accept loop and links |
| `RelayProofs` | its safety properties, proved |
| `RpcHandlers` | the serve loop and the handlers of `RouterState`, one task per stream |
| `RpcHandlersProofs` | its safety properties, proved |
| `RecordPipe` | what one direction of the framed transport promises |
| `FramedLink` | records, chunks, frames and reassembly on a TCP connection: the steps both programs below share |
| `Bridge` | the backend's two transport tasks, the runtime's end and the serve loop; extends `FramedLink` |
| `V1Client` | the v1 client, one thread on such a link; extends `FramedLink` |
| `Transports` | the two side by side, one of them running |
| `TransportsProofs` | why a framed link is a pipe of records, that `Transports` implements `RecordPipe` twice, and what its v1 client answers |
| `Ctaphid` | `fl fido`: one exchange after the other, and the device and its queue |
| `DebugLog` | `fl logs`: transfers, frames, records, disconnects, deadline |
| `PivChain` | `fl piv`: chained responses and the TLVs in them, byte by byte |
| `LabCli` | the three harnesses side by side, one of them running |
| `LabCliProofs` | the safety properties of the three, proved |
| `MC*` | the small instances, with their symmetry |

### From code to model

*Steps.*  A step ends where the code awaits, or releases a lock that another task
can take.  `sample()` is `PickSession` (lock `primary_session`), `MintId`
(`fetch_add`), `RegisterWaiter` (lock `pending`), `SendRequest` (await the
channel), `TakeAnswer` / `Timeout` (await the oneshot with its deadline) and
`DropWaiter` (lock `pending` on the two error paths).  GET /sse is three steps
for its two locks and its return.  A request that does not sample is one step
(`QuickRequest`), or two if its tool awaits the device (`DeviceReturn`).

*Data.*  Messages carry what tells two of them apart: which event, which id,
which call.  A reply is its session, its id and a body out of `Body`, which
stands for a usable text, an error object and any other shape.  An event is
named by its position in `log`; bytes of the relay are counted.

*Relay.*  For each direction of a link `sent` counts what its side has written,
`passed` what the copy has written to the other side and `taken` what that one
has read.  The copy is never more than `Window` ahead of the reader: `Window`
is the buffers of the copy and of the two sockets, and nothing makes a side
read (`Take`).

*Streams.*  `conn[s]` goes from `none` through `registered`, `primary` and
`open` to `gone`.  `CloseStream` leaves `sessions` and `primary` as they are:
that is what the code does (see the findings).

*Broadcast.*  tokio's ring buffer is `log` plus one `cursor` per receiver; a
receiver has lagged when more than `BroadcastCapacity` events are unread.

*Cancellation.*  `Cancel` and `ForgetPush` are the HTTP server dropping a
handler at an await.  Nothing of the handler runs afterwards.

*Handlers.*  A handler is a `pc` that moves at each await: the response, each
chunk, the end, and for a download the header and the parts around the body.  A
write waits for room (`Window`) and fails when the stream was reset; a handler
that fails ends there, and reports only after the end was sent.

*Links.*  TCP keeps the order, so frames are numbered; `written` and `read` say
what is in flight, `Plan` to which record each frame belongs.  `partial` is what
the dechunker holds.  `bad` are frames that do not decode.  Two records of two
frames each are enough for a record to be begun, damaged and followed by another.

*Harnesses.*  A CTAPHID report is the message it is of and its index in it; a
piece of data is its message and place, so that padding and pieces of another
reply are seen as such.  The debug log is numbered piece by piece, three to a
record; a byte of a transfer is one piece.  Card data are bytes, because the
lengths in them are what is parsed.

*Crashes.*  In `Lifecycle`, `Stop` may happen in every stage, so between the
truncation (`OpenFile`) and the content (`FillFile`) of the state file too.

### What is external, and what is assumed of it

* tokio's bounded mpsc, oneshot and broadcast channels, and HashMap, behave as
  documented; a full mpsc channel serves its senders first come, first served.
* The HTTP server drops a handler or a stream when its connection closes.
* A client answers only questions it has read on its own stream, as JSON-RPC
  asks, at any time and any number of times.  The one reply from elsewhere is
  that of a client of an earlier process (`StaleSession`).
* The device: an XX handshake can complete with whoever knows the token; an IK
  handshake only with the identity the device remembers; `Connected` is reported
  after the device accepted.
* The QL runtime: a stream takes a bounded number of items ahead of its reader; a
  handler that ends without finishing its stream resets it; the runtime ends only
  when a write was refused.  A push or request to the device may never return.
* The dechunker (btp): a record is known by its message id, comes out with its
  last missing chunk, and when all slots are taken another one is given up.
* TCP keeps order, ends in order or is reset at any point; the exit of a process
  with unread data resets it.
* HID: every reader gets every report, also of other channels.  A device answers
  a request once it has all of it.
* rusb returns what a transfer had got when it timed out; a full transfer that
  ends a frame is followed by an empty one.
* PCSC: a card answers a command or the call fails.
* A first pairing is a fresh identity (`generate_identity` never repeats).

## 3. The runs

| Run | Instance | What it shows |
| --- | --- | --- |
| `sampling` | 2 streams, 1 auto-reply and 1 tool call, channels of 1, two kinds of body | type, `AnswerMatches`, `WaiterPresent`, `LeaksOnlyCancelled`, `ResponseOnOwnStream`, `FirstReplyWins` |
| `one_stream` | 1 stream, both kinds of call, channel of 2 | `AskedOnce`, refinement of `SamplingContract`, every call's end but for those section 3 names |
| `events` | no stream, auto-reply on, 5 events, 2 pushes | transcript, snapshot, reply order, announcements |
| `streams` | 1 stream, 4 events, a client that reads | unbroken notifications; nothing published is missed without a lag |
| `lifecycle` | 2 identities | the state file and the session |
| `relay` | 2 backends, 2 bytes over a link in either direction, buffers for 1 | bytes, ends, readers that stop, and waiting |
| `transports` | bridge or v1 client; 2 records each way of 1 or 2 frames, 3 frames in flight, 1 slot, 1 bad frame | refinement of `RecordPipe` in both directions; what is written arrives; the v1 client answers the response and ends |
| `handlers` | 2 streams of any route, lengths 0 to 3 with chunks of 2, window of 1, 1 lost session | answers, reports, subscriptions, no stream held up by another |
| `lab_cli` | `fido` with replies of up to 3 reports and 1 foreign report, `logs` with 3 records in frames of up to 3 transfers and 1 disconnect, `piv` with values of 0, 1, 3 and 260 bytes, lengths of every form, alone or beside another TLV, parts of 2 and 120 | whole exchanges, true passes, what is printed, what is found, and that runs end |

Three more runs find a counterexample each; section 5 lists them.

*Bounds.*  Calls and streams are finite sets, each used once, so a behaviour is
finite but for repeated replies.  Two streams are needed for a request to arrive
on one and its question to leave on another; two calls for replies to cross; one
slot for a channel to be full.  A broadcast of two and a history of two overflow
within five events.  `MaxEvents` and `MaxPushes` are guards of the environment
only (`Room`): events that are already due always fit.  `MaxQueue` bounds the
statuses and streams of one run in `Lifecycle`, `MaxBytes` the bytes of a link
in `Relay`, both directions together: with two bytes and room for one, a copy
waits for its reader, and the other direction has bytes before, between and after
that.  `MaxLength` of `RpcHandlers` reaches no chunk, a short one, a full one
and one of each.  One slot in `FramedLink` is full with the first record in
part, so the second displaces it; `MaxBad` damages either record in either frame.
`SeqLimit` of 2 lets a reply of `Ctaphid` use every sequence number there is.
`MaxForeign`, `MaxFrames` and `MaxUnplugs` bound what devices do unasked, not what
the programs do.  One TLV beside the wanted one, with the tags that are sought in
its value, is a trap for a reader that does not step over it in one go.  `Chunk` of two with payloads of zero to four makes frames that
end within a transfer and exactly with one.

*Deadlock.*  `Lifecycle` is checked for it: a run can always be started or
stopped.  The other modules may stop: their calls, events and links are finite
and all of them may be over, so their configurations say `CHECK_DEADLOCK FALSE`.
That nothing stops too early is what the liveness properties say.  (A client in
`V1Client` and a harness in `LabCli` exit; a backend whose link is gone may wait
for ever, which is a finding.)

*Fairness.*  The runtime polls runnable tasks and fires timers: weak fairness of
the server's own steps.  A sender that is again and again passed by others still
gets its slot, because tokio queues waiting senders: strong fairness of
`SendRequest`, `Respond` and `Forward`.  The relay's listener is a queue too:
strong fairness of `Accept`; that a dial comes to an outcome is what TCP gives.
The bridge's two tasks, the runtime's end after a refused write and the serve
loop's exit are weakly fair, and so are the serve loop and each handler of
`RpcHandlers`, the thread of the v1 client and that of each harness, with its
timeouts and clocks.  Clients, the model and the device are never fair, except
that `ReadingSpec` of `McpEvents` adds a client that goes on reading, for what it
gets to read.

*Exceptions.*  What may keep each part waiting for ever is in its liveness
property, and nothing else is:

* `CallsEnd`: a client that stops reading with its stream full, because
  `sample()`'s send lies outside its 60 s deadline; and a device that does not
  answer `chat_send` or `send_echo`, which set no deadline.
* `LinksEnd`: a side of a relay's link that stops reading with bytes still on
  their way to it.  `copy_bidirectional` has no timeout, so the link stays even
  when both sides have shut down their writing halves.
* `HandlersEnd`, `Transferred`, `WaitEnds`: a reader that has stopped with a full
  window.  `Transferred` also ends with the link or the runtime.  A rate
  subscription is parked for ever, which `HandlersEnd` counts as its end; a
  PairingResponse with a frame that does not decode never comes, and the client,
  which has no timeout, waits until the connection ends.
* `Recorded`, `Delivered`: a receiver that has lagged, whose loop ends; and for
  `Delivered` a client that does not read.  Both speak of what is published
  after the subscription: earlier events are lost to a recorder or stream by
  the design of the broadcast.
* `HarnessEnds`: a HID device that says for ever that it is at work, a card that
  announces more for ever, `fl logs` without `--timeout`.  A report of another
  channel has `fl fido` wait anew too; the model has `MaxForeign` of them, so what
  endless ones would do is not covered.

*Mutants.*  Every property of a passing run is violated by a mutant of the code
it is about: an unbounded channel, a reply that is not looked up, an error path
that does not clean up, a counter that is read and not incremented, a receiver
that skips what it lost.  They stand before the definition they mutate.

## 4. The proofs

Each holds for every value of the constants that the named assumption of the
component's module allows, and of nothing else.

| Module | Theorem | States |
| --- | --- | --- |
| `McpSamplingProofs` | `TypeCorrect` | `Spec => []TypeOK`, channel bounds included |
| | `AnswersMatch` | `Spec => []AnswerMatches` |
| | `WaitersPresent` | `Spec => []WaiterPresent` |
| | `LeaksAreCancelled` | `Spec => []LeaksOnlyCancelled` |
| | `FirstReplyKept` | `Spec => FirstReplyWins` |
| | `ResponsesComeHome` | `Spec => []ResponseOnOwnStream` |
| | `QuestionsAskedOnce` | `Spec => []AskedOnce` |
| `McpSamplingRefines` | `Implements` | `Spec => ContractSpec` |
| `McpEventsProofs` | `TypeCorrect` | `Spec => []TypeOK`, every bound included |
| | `TranscriptFaithful` | `Spec => []HistoryFaithful` |
| | `AnswersFaithful` | `Spec => []HistoryAnswer` |
| | `StatusCurrent` | `Spec => []StatusOnceSeen` |
| | `RepliesOrdered` | `Spec => []RepliesInOrder` |
| | `NothingInvented` | `Spec => []AnnouncedWasSent` |
| | `RunsUnbroken` | `Spec => []NotificationsUnbroken` |
| `RpcHandlersProofs` | `TypeCorrect` | `Spec => []TypeOK` |
| | `AnswersOrdered` | `Spec => []AnswersInOrder` |
| | `ReportsHold` | `Spec => []ReportsTrue` |
| | `StormBounded` | `Spec => []NoStorm` |
| `LifecycleProofs` | `TypeCorrect` | `Spec => []TypeOK` |
| | `SavedPaired` | `Spec => []SavedWasPaired` |
| | `SessionPaired` | `Spec => []SessionIsPaired` |
| | `PairingStays` | `Spec => PairingKept` |
| `RelayProofs` | `TypeCorrect` | `Spec => []TypeOK` |
| | `NoneLost` | `Spec => []NothingLost` |
| `TransportsProofs` | `TypeCorrect` | `Spec => []TypeOK` |
| | `IsPipe` | `Spec => PipeSpec` |
| | `StatusIsAnswer` | `Spec => []StatusAnswersResponse` |
| `LabCliProofs` | `TypeCorrect` | `Spec => []TypeOK` |
| | `ExchangesWhole` | `Spec => []ExchangeWhole` |
| | `PassesConfirmed` | `Spec => []PassedMeansConfirmed` |
| | `PrintsAreWanted` | `Spec => []PrintsWanted` |
| | `ValuesFound` | `Spec => []ValueFound` |

### Sampling

None of `AnswerMatches`, `WaiterPresent` and `LeaksOnlyCancelled` is inductive.
That an answer matches its question depends on where the reply came from: a reply on its way was written by
a client that had read the question (`RepliesFounded`), a question that is read
was queued (`SeenAsked`), and a question that is queued was put by the one call
that minted its id, on the stream that call picked (`QueuedAsked`).  That the
call is *one* needs fresh ids (`IdsFresh`), and that the reply reaches *it* needs
that the table maps an id to the call that minted it (`EntriesOwned`).  That no
waiter is lost needs the same two facts in the other direction, and that an
entry is gone once its call is answered (`AnsweredLeft`, `NotYetAnswered`).
`IInv` is the conjunction; `InvInit` and `InvNext` prove it inductive relative to
`TypeOK`, with one step for each action.

`FirstReplyWins` follows in one step: only a delivery writes an answer, and the
call it writes to still has its entry, so by `AnsweredLeft` it has no answer yet.

What is queued in the streams needs more than `IInv`.  Every step but a send at
most shifts what is queued (`Shifted`), so a response, whose call is done and
stays so (`DoneStays`), never moves to another stream nor doubles.  `AskedOnce`
counts copies; it follows from two facts that do not: a queued question is
neither read nor queued twice (`QuestionOnce`), and a call that has not sent its
question finds it nowhere (`NotYetAsked`).  That two copies cannot be in two
streams is `QueuedAsked` and `IdsFresh` again.

`Implements` maps a call to what its caller sees: idle, open or settled; its
result once it is settled; and whether a client has read its question.  A step
of the code is then one of the contract's three, or a stutter.  Two facts carry
it beyond `IInv`: a reply that is returned was given to a question some client
has read (`ResultsFounded`, from `AnswerMatches`), and reading a question makes
exactly one call heard (`Hears`, from `QueuedAsked` and `IdsFresh`).

### Events

No property of `McpEvents` is inductive; one `IInv` carries all six.
`Positions` says where each receiver stands: it subscribed before what it has
read, it has read at most the log, and a loop that runs has subscribed.  `Fresh`
is what the loops have before they run.  With these `HistoryFaithful` is
inductive: the recorder appends the event at its cursor, and drops the oldest
when the history is full.  `HistoryAnswer` follows, for `Newest` of a newest part
is a newest part.

That auto-replies are in order is `Questions` and `Lines`: a chat is asked about
when the loop's cursor passes it, so the one under way is the newest of those
asked about; an automatic line answers one of these, and comes after the lines of
earlier ones.  `Announced` says of every push in the log that it was handed to
the device and is not in hand any more, so it is not announced twice.
`StatusOnceSeen` needs `Snapshot`, which relates three views of the status: the
newest status event of the log is the runtime's state, unless one is being
announced, and the snapshot is that of the newest status event the recorder has
consumed.  `Streams` has the same for a forwarder from the registration of its
stream on: what its client has read, what is in the channel, and what the
forwarder holds are consecutive, in this order.

`Bounded` is for the type invariant: what is due (`Due`) still fits the bounds of
the log.  It holds because the guards of the environment reserve the room
(`Room`), and the lemmas `DueNext` and `ClientLinesNext` follow the reservation
through every action.

### Handlers

`Progress` says for every value of a handler's `pc`, so for every await, how much
of the answer has been written and what `remaining` is: after `j` chunks of `n`
bytes, `n - j * ChunkLen`, or 0 (`Left`).  The arithmetic is in four lemmas: the
chunks cover the bytes with less than a chunk to spare (`SizeBounds`), the next
chunk is what the code computes as long as something is left (`NextChunk`), and
nothing is left after the last chunk only (`LastOne`, `LeftStart`).  `Begun` says
that what was written is a beginning of the answer; with `Progress` a finished
handler has written all of it, and `Reported` says that only a finished one has
reported, except a chat, which reports first.  `AnswersInOrder` and `ReportsTrue`
are read off these.  `Queue` is needed for the serve loop: the streams it has not
taken are distinct and have no handler, so starting one disturbs no other.

`NoStorm` counts.  `Subscriptions` bounds the subscriptions by the sessions lost
and one more if one is open: a subscription ends with its session only, and the
app subscribes again only when it has none.

### Lifecycle

`SavedWasPaired` is not inductive either.  An identity gets to the file from the
process that runs, which believes in it because of a status it took from a queue,
which holds a `Connected` only if the device had accepted that identity
(`StatusesTrue`, `IdentityKnown`).  That a complete pairing is never overwritten
needs what the mode says of the file: an XX run found none, writes it once, and
nothing else writes (`FileByMode`).

### Relay

`NothingLost` is inductive with `TypeOK`: the end of a direction is passed on
when nothing is left to pass, and after its end nothing more is written.  The
size of the buffers does not matter for it, nor whether anybody reads.

### Framed links

`IsPipe` needs an invariant of its own, `DirInv`, for each direction.  The chunks
of a record are neighbours on the wire (`LinkAssumption`).  Of the record that is
being read every good chunk so far is in the dechunker (`PartialKept`), for the
records that a full dechunker gives up are earlier ones, which have a bad frame;
a record that was read to its end without one has come out (`WholeCame`), and one
that came out had none (`CameWhole`).  So when a record completes, those between
it and the one before are lost, and nothing came out of order.  `TransportsProofs`
has one lemma for each step of a link, which proves the invariant and says which
step of `RecordPipe` it is, and then shows that the two programs move
the link by these steps only.  `RecordPipe` does not depend on the number of
slots: the code's ten are not needed for order, nor for the loss of a record to
stay its own.

`StatusIsAnswer` relates what the client has heard to the place it has come to
(`ClientInv`): messages other than a response leave it waiting, the response is
the last it takes, and a status follows that one only.  That the device had the
request first is a fact of the other direction: a response is only made up once
the request has come out there, and what has come out of a link was handed to it
before (`CameWasEmitted`).

### Harnesses

The three share no state, so each has an invariant of its own, and the steps of
one leave those of the others alone.

*`fl fido`.*  `Requested` and `Replied` say what the device has: the reports of
the request are those of `fragment`, one after the other, and a reply is to the
whole of it.  `Reassembly` is the heart.  As long as no foreign report was read,
the reports that are of this exchange are a keepalive and the reply's, with
rising indexes (`OnTheWay`); before the initial one is read it is in front of the
others (`NotBegun`), and afterwards what was put together is the reply's first
`Base(expectedSeq + 1)` bytes and the others on their way come later (`Begun`).
Foreign reports may stand anywhere among them, so these facts are about the
positions that are not foreign (`Own`), and the lemmas on reading and inserting
say how positions shift.  The arithmetic is that a message has exactly the
reports that begin before its end (`IndexFacts`), so the sequence numbers run to
`SeqLimit` and not beyond.  `Confirming` says which commands were confirmed when
the next one begins.

With foreign reports read, `Reassembly` says nothing.  What is left is `Ordered`:
an initial report begins the data anew, a continuation is taken only with the
expected sequence number, and so the data are places 1, 2, 3 and on of *some*
message, as many as the initial report promised.  Whose pieces they are is not
known, and `ExchangeWhole` claims no more (`InOrder`).

*`fl logs`.*  The limits a user may give are a constant.  `Transfers` says that what is in the frame is what the device has
sent of the one on the bus, so a short transfer ends that frame.  `Followed` is
about the connection: the lines printed are those of the wanted spans of what
was heard, up to the place where the unsplit rest begins.  A span lies between
two terminators that are neighbours.  Spans are related to lines by counting, so
the proof needs that to hear more adds no span up to that place, that
taking a record adds exactly one span, which is after all others, and
that its count is one more, which is the next line's number.

*`fl piv`.*  `Fetched` says that what was received and what the card has left are
the card's response, so with status 9000 all of it came.  The rest is about
`read_tlv` and `find_tlv`.  A TLV with its length in any form reads as what it
was made of, with anything behind it (`TlvReads`), and does not read when its
last byte is missing (`TlvFacts`).  What may stand beside it is a constant,
`Neighbour`: any tag but the one sought, any value (`BesideFacts`).
`ValueAssumption` says that a value in its TLV, with a neighbour, has a length of
two bytes.  `FindTlv` is a recursive function on sequences of any length; that
there is such a function follows from what is left being shorter: there is one on
all shorter data, and of two on bounded data each agrees with the other (`FindersBelowExist`, `FindersAgree`, both by the
least counterexample).  With its unfolding (`FindTlvIs`) the value is found
alone, past another TLV and before one.

### Only model-checked

Liveness (`CallsEnd`, `Recorded`, `Delivered`, `LinksEnd`, `NobodyWaitsForever`,
`HandlersEnd`, `Transferred`, `WaitEnds`, `HarnessEnds`): fairness and ENABLED
are beyond the prover.  Every invariant and every safety action
property of a passing run has a theorem.

## 5. What the runs found

Each of these runs checks what a comment or a message of the code says, and finds
a behaviour of the code that does otherwise.

| Run | Says | Does |
| --- | --- | --- |
| `session_cleanup` | the session entry is cleaned up when the stream ends (`mcp.rs` 556) | the closure is mapped over an empty iterator and never runs |
| `each_chat` | each chat triggers a sampling call (`mcp.rs` 376) | the loop ends for good when it lags |
| `link_loss` | "inbound stream channel closed — session gone, exiting" (`lib.rs` 546) | when the device closes the connection the reader just returns; the runtime keeps the channel open and the loop waits until something is written |

Smaller disagreements need no run to see:

* `pending` is said to hold in-flight requests (`mcp.rs` 221); the entry of a
  dropped handler stays.  `LeaksOnlyCancelled` has exactly this exception.
* The file's presence is taken for a saved pairing (`lib.rs` 413); a write that
  was cut short leaves a truncated file (`lib.rs` 569) that panics every later run
  (`StartFails`).  `--fresh` removes the old pairing before it dials (`lib.rs` 410).
* One pairing at a time (`relay/src/lib.rs` 54-56); links run concurrently (57).
* Notifications are said to go to every active stream (README 139), but a
  forwarder that lags ends while its client is connected (`StopLagged`,
  `Delivered`).  Every chat in or out is said to be notified (`mcp.rs` 38), but a
  line of the chat input socket is not (`lib.rs` 1024, `ToDevice`).
* A device stream is said to be dropped when no one serves (`lib.rs` 965), but it
  stays in an unbounded queue (`InboundStream`).  In serve mode every status after
  the first `Connected` stays queued too (`lib.rs` 953).
* `run()` of `fl piv` is said to retry (`piv.rs` 55), but does not (`Refused`);
  the outer TLV is said to span the whole buffer (`piv.rs` 166), which is not
  checked (`Unwrap`); a first length byte of 0x80 or above 0x82 is taken for a
  short length (`piv.rs` 193, `ReadTlv`).
* `--limit 0` prints one record (`logs.rs` 31, 110); `PrintsWanted` allows for it.
* A HID report shorter than its header panics `fl fido` (`fido.rs` 194,
  `HidFails`), and a report of another channel is taken for one's own: that is
  the exception (`mixed`) in the properties of `Ctaphid`, and only `InOrder` is
  claimed then.
* A log transfer that times out within a frame is taken for the whole of it
  (`logs.rs` 74): the exception (`torn`) in `PrintsWanted`.
* `run_benchmark` prints the length it received and does not compare it with the
  one it asked for (`lib.rs` 632).

The README's own caveats are not findings: `session_status` may lack a session
that was up before the recorder started, and `primary_session` is the last
stream opened, even when it is closed.  `StatusOnceSeen` and `CallsEnd` say what
holds all the same.

## 6. Not modelled

* Cryptography, QL records, ql-rpc framing, the btp chunk format: libraries, not
  in the repository; the models have what the code relies on (section 2).
* Argument parsing, printing, JSON layout: no property is about them.
* `fl ccid-inspect`: prints the descriptors it is given in one pass.
* `run_echo` and `run_benchmark`, the client mode's RPCs: one request and one
  loop over what comes, checking nothing, then the end of the process; they are
  the `client` stage of `Lifecycle`.
* The allocation of the length a peer names (`lib.rs` 738, 312): memory is not in
  the models.

## 7. Plan

1. *Done*: a module for every component with state; the contracts
   `SamplingContract` and `RecordPipe`, both proved to be implemented; a theorem
   for each safety property that a run checks.
2. *Theorems next*: a transcript as the abstract specification of the recorder,
   and that `McpEvents` implements it.
3. *Modules next*: `McpServer`, `McpSampling` and `McpEvents` over one set of
   streams, so that sampling requests and notifications compete for a slot.
