------------------------------- MODULE FramedLink -------------------------------
(***************************************************************************)
(* A TCP connection that carries records: each record goes out as btp      *)
(* chunks, each chunk as one length-prefixed frame, and the other side     *)
(* puts the records together again.  The backend's bridge                  *)
(* (backend/src/lib.rs, spawn_tcp_btp_bridge) and the v1 client's          *)
(* Transport (v1-client/src/transport.rs) are both built this way; this    *)
(* module has the state and the steps they share.                          *)
(*                                                                         *)
(* TCP keeps the order, so the frames of a direction are numbered, and a   *)
(* count of those written and of those read says what is in flight.  The   *)
(* far end of a direction is the device, which does the same (external).   *)
(***************************************************************************)
EXTENDS Naturals, Sequences, FiniteSets

CONSTANTS
  Plan,     \* the record that each frame of a direction belongs to
  Slots,    \* records the dechunker can hold in part (10 in the code)
  Window,   \* frames that fit between the writer and the reader
  MaxBad    \* bound: frames of the device that do not decode

Direction == {"out", "in"}     \* from this program to the device, and back

ASSUME LinkAssumption ==
  /\ Plan \in [Direction -> Seq(Nat \ {0})]
  /\ \A d \in Direction : \A j, k \in 1 .. Len(Plan[d]) : j <= k => Plan[d][j] <= Plan[d][k]
  /\ {Slots, Window} \subseteq Nat \ {0} /\ MaxBad \in Nat

VARIABLES
  emitted,    \* records handed to the writer
  written,    \* frames written
  bad,        \* those of them that do not decode as a chunk
  read,       \* frames read
  partial,    \* the chunks in the dechunker
  delivered,  \* the records put together, in order
  writer,     \* whether each direction is still written to
  reader,     \* whether each direction is still read
  broken      \* the connection has been reset

endVars  == <<writer, reader, broken>>
linkVars == <<emitted, written, bad, read, partial, delivered, endVars>>

FramesOf(d, r) == {k \in 1 .. Len(Plan[d]) : Plan[d][k] = r}
Damaged(d, r)  == FramesOf(d, r) \cap bad[d] # {}

LinkInit ==
  /\ emitted = [d \in Direction |-> 0]
  /\ written = [d \in Direction |-> 0]
  /\ bad = [d \in Direction |-> {}]
  /\ read = [d \in Direction |-> 0]
  /\ partial = [d \in Direction |-> {}]
  /\ delivered = [d \in Direction |-> <<>>]
  /\ writer = [d \in Direction |-> "running"]
  /\ reader = [d \in Direction |-> "running"]
  /\ broken = FALSE

-----------------------------------------------------------------------------
(* A record is handed over; the queue of the writer has no bound. *)
Emit(d) ==
  /\ writer[d] = "running"
  /\ FramesOf(d, emitted[d] + 1) # {}
  /\ emitted' = [emitted EXCEPT ![d] = @ + 1]
  /\ UNCHANGED <<written, bad, read, partial, delivered, endVars>>

HasFrame(d) ==
  /\ written[d] < Len(Plan[d])
  /\ Plan[d][written[d] + 1] <= emitted[d]

(***************************************************************************)
(* The next frame is written: its length, then the chunk.  A frame that a  *)
(* reset leaves incomplete ends the reader just as the reset itself does.  *)
(* What the device's side of the bridge puts in a frame need not decode.   *)
(***************************************************************************)
WriteFrame(d) ==
  /\ writer[d] = "running" /\ ~ broken
  /\ HasFrame(d)
  /\ written[d] - read[d] < Window
  /\ written' = [written EXCEPT ![d] = @ + 1]
  /\ \/ UNCHANGED bad
     \/ /\ d = "in" /\ Cardinality(bad[d]) < MaxBad
        /\ bad' = [bad EXCEPT ![d] = @ \cup {written[d] + 1}]
  /\ UNCHANGED <<emitted, read, partial, delivered, endVars>>

(* A write fails, and with it the writer: records still queued are lost. *)
WriteFails(d) ==
  /\ writer[d] = "running" /\ broken
  /\ HasFrame(d)
  /\ writer' = [writer EXCEPT ![d] = "ended"]
  /\ UNCHANGED <<emitted, written, bad, read, partial, delivered, reader, broken>>

-----------------------------------------------------------------------------
(* Mutant: the reader takes what has come, not a whole frame. *)
ReadableInPart(d) == reader[d] = "running" /\ read[d] <= written[d]

(* read_exact: a frame is taken when all of it is there. *)
Readable(d) == reader[d] = "running" /\ read[d] < written[d]

(* Mutant: a frame that does not decode ends the reader. *)
StopAtBadFrame(d) ==
  /\ Readable(d) /\ read[d] + 1 \in bad[d]
  /\ reader' = [reader EXCEPT ![d] = "ended"]
  /\ UNCHANGED <<emitted, written, bad, read, partial, delivered, writer, broken>>

(* A frame that does not decode is skipped. *)
SkipFrame(d) ==
  /\ Readable(d) /\ read[d] + 1 \in bad[d]
  /\ read' = [read EXCEPT ![d] = @ + 1]
  /\ UNCHANGED <<emitted, written, bad, partial, delivered, endVars>>

Frame(d)    == read[d] + 1
RecordOf(d) == Plan[d][Frame(d)]

(* Mutant: the last chunk completes its record, whatever came before. *)
CompletesLast(d) == Frame(d) + 1 \notin FramesOf(d, RecordOf(d))

(* The chunk in the next frame is the one its record still waits for. *)
Completes(d) == FramesOf(d, RecordOf(d)) \subseteq partial[d] \cup {Frame(d)}

Decoded(d) == Readable(d) /\ Frame(d) \notin bad[d]

(***************************************************************************)
(* insert_chunk (external): the record is returned with its last missing   *)
(* chunk, else the chunk is kept.  When all slots are taken by other       *)
(* records, one of those is given up.                                      *)
(***************************************************************************)
Complete(d) ==
  /\ Decoded(d) /\ Completes(d)
  /\ read' = [read EXCEPT ![d] = @ + 1]
  /\ partial' = [partial EXCEPT ![d] = @ \ FramesOf(d, RecordOf(d))]
  /\ delivered' = [delivered EXCEPT ![d] = Append(@, RecordOf(d))]
  /\ UNCHANGED <<emitted, written, bad, endVars>>

Others(d) == {Plan[d][k] : k \in partial[d]} \ {RecordOf(d)}

(* Mutant: a full dechunker takes no new record. *)
KeepIfRoom(d) ==
  /\ Decoded(d) /\ ~ Completes(d)
  /\ read' = [read EXCEPT ![d] = @ + 1]
  /\ partial' = IF Cardinality(Others(d)) < Slots
                THEN [partial EXCEPT ![d] = @ \cup {Frame(d)}] ELSE partial
  /\ UNCHANGED <<emitted, written, bad, delivered, endVars>>

Keep(d) ==
  /\ Decoded(d) /\ ~ Completes(d)
  /\ read' = [read EXCEPT ![d] = @ + 1]
  /\ \/ /\ Cardinality(Others(d)) < Slots
        /\ partial' = [partial EXCEPT ![d] = @ \cup {Frame(d)}]
     \/ /\ Cardinality(Others(d)) >= Slots
        /\ \E v \in Others(d) :
             partial' = [partial EXCEPT ![d] = (@ \ FramesOf(d, v)) \cup {Frame(d)}]
  /\ UNCHANGED <<emitted, written, bad, delivered, endVars>>

(* The reader finds the end: of what was written, or of the connection. *)
ReadEnds(d) ==
  /\ reader[d] = "running"
  /\ broken \/ (writer[d] = "ended" /\ read[d] = written[d])
  /\ reader' = [reader EXCEPT ![d] = "ended"]
  /\ UNCHANGED <<emitted, written, bad, read, partial, delivered, writer, broken>>

(* External: the device's side closes the connection in order ... *)
PeerLeaves ==
  /\ writer["in"] = "running"
  /\ writer' = [writer EXCEPT !["in"] = "ended"]
  /\ reader' = [reader EXCEPT !["out"] = "ended"]
  /\ UNCHANGED <<emitted, written, bad, read, partial, delivered, broken>>

(* ... or it is reset, because the link is gone or nobody reads any more. *)
Break ==
  /\ ~ broken /\ broken' = TRUE
  /\ UNCHANGED <<emitted, written, bad, read, partial, delivered, writer, reader>>

LinkStep ==
  \/ \E d \in Direction : \/ WriteFrame(d) \/ WriteFails(d)
                          \/ SkipFrame(d) \/ Complete(d) \/ Keep(d) \/ ReadEnds(d)
  \/ PeerLeaves \/ Break

-----------------------------------------------------------------------------
LinkTypeOK ==
  /\ emitted \in [Direction -> Nat]
  /\ written \in [Direction -> Nat] /\ read \in [Direction -> Nat]
  /\ \A d \in Direction : read[d] <= written[d] /\ written[d] <= Len(Plan[d])
  /\ bad \in [Direction -> SUBSET (Nat \ {0})]
  /\ partial \in [Direction -> SUBSET (Nat \ {0})]
  /\ delivered \in [Direction -> Seq(Nat \ {0})]
  /\ writer \in [Direction -> {"running", "ended"}]
  /\ reader \in [Direction -> {"running", "ended"}]
  /\ broken \in BOOLEAN

Came(d, r) == \E i \in 1 .. Len(delivered[d]) : delivered[d][i] = r

(***************************************************************************)
(* Each direction is a pipe of records: chunking, framing and reassembly   *)
(* lose no record but one with a frame that did not decode, and neither    *)
(* mix nor reorder them, whatever is given up when the slots are full.     *)
(***************************************************************************)
Lost(d) == {r \in 1 .. emitted[d] : Damaged(d, r)}

OutPipe == INSTANCE RecordPipe WITH
  sent <- emitted["out"], lost <- Lost("out"), got <- delivered["out"]
InPipe  == INSTANCE RecordPipe WITH
  sent <- emitted["in"], lost <- Lost("in"), got <- delivered["in"]

PipeSpec == OutPipe!Spec /\ InPipe!Spec

(* Every frame of a record has been written. *)
AllWritten(d, r) == \A k \in FramesOf(d, r) : k <= written[d]

=============================================================================
