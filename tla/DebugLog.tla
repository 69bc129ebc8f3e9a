-------------------------------- MODULE DebugLog --------------------------------
(***************************************************************************)
(* fl logs (fl/src/logs.rs): the device's debug log, read from a bulk      *)
(* endpoint in transfers of at most Chunk bytes, put together to frames,   *)
(* cut into records and printed, over disconnects, until a limit or a      *)
(* deadline.                                                               *)
(*                                                                         *)
(* The log is numbered piece by piece, three to a record, the third being  *)
(* its terminator; a frame is a type byte and a run of pieces.  A byte of  *)
(* the model is a packet of the bus: it is the unit of a transfer.         *)
(***************************************************************************)
EXTENDS Naturals, Sequences, FiniteSets

CONSTANTS
  Chunk,       \* the size of a transfer (64 KiB in the code)
  Kind,        \* of each record: "match" (the filter), "plain" or "blank"
  Limits,      \* the values of --limit
  MaxPayload,  \* bound: pieces in a frame
  MaxFrames,   \* bound: frames on the bus
  MaxUnplugs   \* bound: disconnects

LogAssumption ==
  /\ {Chunk, MaxFrames} \subseteq Nat \ {0} /\ {MaxPayload, MaxUnplugs} \subseteq Nat
  /\ Kind \in Seq({"match", "plain", "blank"})
  /\ Limits \subseteq Nat

Pieces    == 1 .. 3 * Len(Kind)
TypeLog   == 0                       \* FRAME_LOG
TypeOther == 3 * Len(Kind) + 1
KindOf(p) == Kind[(p + 2) \div 3]
Ends(p)   == p % 3 = 0               \* RECORD_TERMINATOR
NoLimit   == 3 * Len(Kind) + 1       \* without --limit: more records than there are

Options == [filter : BOOLEAN, limit : Limits \cup {NoLimit}, deadline : BOOLEAN]

VARIABLES
  options,   \* the filter, the limit and whether there is a deadline (--timeout)
  due,       \* the deadline has passed
  doing,     \* "connecting", "reading", "splitting" or "done"
  frame, records, printed,   \* as in the code
  plugged, unplugs,          \* the device is there
  live,      \* the handle is of the device that is there
  made,      \* pieces of the log the device has made
  bus,       \* the frames it has to send
  sent,      \* bytes of the first of them already read
  since,     \* records printed before this connection
  heard,     \* the pieces of the frames read in this connection
  torn       \* a transfer of it timed out with part of a frame

host    == <<options, due>>
usb     == <<plugged, unplugs, made>>
reader  == <<frame, records, printed>>
seen    == <<since, heard, torn>>
vars    == <<host, doing, reader, usb, live, bus, sent, seen>>

Init ==
  /\ options \in Options
  /\ due = FALSE /\ doing = "connecting"
  /\ frame = <<>> /\ records = <<>> /\ printed = <<>>
  /\ plugged = TRUE /\ unplugs = 0 /\ live = FALSE /\ made = 0 /\ bus = <<>> /\ sent = 0
  /\ since = 0 /\ heard = <<>> /\ torn = FALSE

Run(from, n) == [j \in 1 .. n |-> from + j]
Bytes(f)     == IF f.log THEN <<TypeLog>> \o Run(f.after, f.size)
                ELSE [j \in 1 .. 1 + f.size |-> TypeOther]

-----------------------------------------------------------------------------
(* External: the device logs, in frames of any length (a connection with *)
(* a torn frame is not followed further) ...                              *)
DeviceSends ==
  /\ doing # "done" /\ plugged /\ ~ torn /\ Len(bus) < MaxFrames
  /\ \E n \in 0 .. MaxPayload, log \in BOOLEAN :
       /\ log => made + n <= 3 * Len(Kind)
       /\ ~ log => n = Chunk - 1
       /\ bus' = Append(bus, [log |-> log, after |-> IF log THEN made ELSE 0, size |-> n])
       /\ made' = IF log THEN made + n ELSE made
  /\ UNCHANGED <<host, doing, reader, sent, plugged, unplugs, live, seen>>

(* ... goes away, with what it had not sent, and returns later in its log. *)
Unplug ==
  /\ doing # "done" /\ plugged /\ unplugs < MaxUnplugs
  /\ plugged' = FALSE /\ unplugs' = unplugs + 1
  /\ live' = FALSE /\ bus' = <<>> /\ sent' = 0
  /\ UNCHANGED <<host, doing, reader, made, seen>>

Plug ==
  /\ doing # "done" /\ ~ plugged /\ plugged' = TRUE
  /\ \E p \in {made, made + 1} \cap 0 .. 3 * Len(Kind) : made' = p
  /\ UNCHANGED <<host, doing, reader, unplugs, live, bus, sent, seen>>

TimePasses ==
  /\ doing # "done" /\ options.deadline /\ ~ due /\ due' = TRUE
  /\ UNCHANGED <<options, doing, reader, usb, live, bus, sent, seen>>

-----------------------------------------------------------------------------
(* The two places where the deadline is looked at. *)
Looks == doing \in {"connecting", "reading"}

StopAtDeadline ==
  /\ Looks /\ due
  /\ doing' = "done"
  /\ UNCHANGED <<host, reader, usb, live, bus, sent, seen>>

(* Mutant: what is left of a record outlives the connection. *)
ConnectAgain ==
  /\ doing = "connecting" /\ ~ due /\ plugged
  /\ doing' = "reading" /\ live' = TRUE /\ frame' = <<>>
  /\ since' = Len(printed) /\ heard' = <<>> /\ torn' = FALSE
  /\ UNCHANGED <<host, records, printed, usb, bus, sent>>

(* While connect() fails the program sleeps and tries again. *)
Connect ==
  /\ doing = "connecting" /\ ~ due /\ plugged
  /\ doing' = "reading" /\ live' = TRUE /\ frame' = <<>> /\ records' = <<>>
  /\ since' = Len(printed) /\ heard' = <<>> /\ torn' = FALSE
  /\ UNCHANGED <<host, printed, usb, bus, sent>>

Disconnected ==
  /\ doing = "reading" /\ ~ due /\ ~ live
  /\ doing' = "connecting"
  /\ UNCHANGED <<host, reader, usb, live, bus, sent, seen>>

-----------------------------------------------------------------------------
Left == Len(Bytes(bus[1])) - sent

(* read_bulk returns n bytes of the frame on the bus. *)
Got(n) == frame \o SubSeq(Bytes(bus[1]), sent + 1, sent + n)

(* Only Log frames carry records; an empty transfer may follow nothing. *)
EndOfFrame(f) ==
  IF f # <<>> /\ f[1] = TypeLog
  THEN doing' = "splitting" /\ frame' = f /\ records' = records \o Tail(f)
  ELSE doing' = "reading" /\ frame' = <<>> /\ UNCHANGED records

Reading == doing = "reading" /\ ~ due /\ live /\ bus # <<>>

(* A full transfer: the frame goes on. *)
ReadFull ==
  /\ Reading /\ Left >= Chunk
  /\ frame' = Got(Chunk) /\ sent' = sent + Chunk
  /\ UNCHANGED <<host, doing, records, printed, usb, live, bus, seen>>

(* A short or empty one: the frame ends here. *)
ReadShort ==
  /\ Reading /\ Left < Chunk
  /\ EndOfFrame(Got(Left))
  /\ bus' = Tail(bus) /\ sent' = 0
  /\ heard' = IF bus[1].log THEN heard \o Run(bus[1].after, bus[1].size) ELSE heard
  /\ UNCHANGED <<host, printed, usb, live, since, torn>>

(* External: rusb gives what has come when the transfer times out. *)
ReadPart ==
  /\ Reading
  /\ \E n \in 1 .. Chunk - 1 :
       /\ n < Left
       /\ EndOfFrame(Got(n)) /\ sent' = sent + n
  /\ torn' = TRUE
  /\ UNCHANGED <<host, printed, usb, live, bus, since, heard>>

-----------------------------------------------------------------------------
Terminators(s) == {i \in 1 .. Len(s) : Ends(s[i])}
Text(line)     == {p \in {line[i] : i \in 1 .. Len(line)} : KindOf(p) # "blank"}

(* The word looked for is in the first piece of a record that has it. *)
Wanted(line) ==
  /\ Text(line) # {}
  /\ options.filter => \E p \in Text(line) : KindOf(p) = "match" /\ p % 3 = 1

(* The next record is cut off and, if it is wanted, printed. *)
NextRecord ==
  /\ doing = "splitting" /\ Terminators(records) # {}
  /\ LET pos  == CHOOSE i \in Terminators(records) : \A j \in Terminators(records) : i <= j
         line == SubSeq(records, 1, pos - 1)
     IN  /\ records' = SubSeq(records, pos + 1, Len(records))
         /\ printed' = IF Wanted(line) THEN Append(printed, line) ELSE printed
         /\ doing' = IF Wanted(line) /\ Len(printed) + 1 >= options.limit
                    THEN "done" ELSE "splitting"
  /\ UNCHANGED <<host, frame, usb, live, bus, sent, seen>>

FrameDone ==
  /\ doing = "splitting" /\ Terminators(records) = {}
  /\ doing' = "reading" /\ frame' = <<>>
  /\ UNCHANGED <<host, records, printed, usb, live, bus, sent, seen>>

HostStep ==
  \/ StopAtDeadline \/ Connect \/ Disconnected
  \/ ReadFull \/ ReadShort \/ NextRecord \/ FrameDone

Next == HostStep \/ ReadPart \/ DeviceSends \/ Unplug \/ Plug \/ TimePasses

Spec == Init /\ [][Next]_vars

-----------------------------------------------------------------------------
TypeOK ==
  /\ options \in Options /\ due \in BOOLEAN
  /\ doing \in {"connecting", "reading", "splitting", "done"}
  /\ \A s \in {frame, records, heard} : \A i \in 1 .. Len(s) : s[i] \in Pieces \cup {TypeLog, TypeOther}
  /\ {plugged, live, torn} \subseteq BOOLEAN /\ unplugs \in 0 .. MaxUnplugs
  /\ made \in 0 .. 3 * Len(Kind) /\ Len(bus) <= MaxFrames
  /\ bus # <<>> => sent \in 0 .. 1 + MaxPayload
  /\ since \in 0 .. Len(printed)

(* The records of a run of pieces: from a terminator, or the start, to the next. *)
Spans(s) ==
  {w \in (Terminators(s) \cup {0}) \X Terminators(s) :
     w[1] < w[2] /\ \A t \in Terminators(s) : t <= w[1] \/ t >= w[2]}

Line(s, w) == SubSeq(s, w[1] + 1, w[2] - 1)

(* The lines of the wanted records of s up to a place, each once and in order. *)
AreWanted(lines, s, upTo) ==
  LET wanted == {w \in Spans(s) : w[2] <= upTo /\ Wanted(Line(s, w))}
  IN  /\ Len(lines) = Cardinality(wanted)
      /\ \A w \in wanted : lines[Cardinality({v \in wanted : v[2] <= w[2]})] = Line(s, w)

(***************************************************************************)
(* Of the log frames that came in a connection, the wanted records up to   *)
(* some record's end are printed, each once and in order, and the rest is  *)
(* still to be cut off, however the transfers cut the frames; no whole     *)
(* record is left over when a frame is done.  Neither is said of a         *)
(* connection in which a transfer has timed out with part of a frame: the  *)
(* code takes that part for the whole (see torn).  In every connection the *)
(* limit ends the program with the record that reaches it.                 *)
(***************************************************************************)
PrintsWanted ==
  /\ ~ torn =>
       LET cut == Len(heard) - Len(records)
       IN  /\ cut \in Terminators(heard) \cup {0}
           /\ records = SubSeq(heard, cut + 1, Len(heard))
           /\ AreWanted(SubSeq(printed, since + 1, Len(printed)), heard, cut)
  /\ ~ torn /\ doing = "reading" => Terminators(records) = {}
  /\ Len(printed) <= IF options.limit = 0 THEN 1 ELSE options.limit
  /\ printed # <<>> /\ Len(printed) >= options.limit => doing = "done"

(* A run with a deadline ends, whatever the device does. *)
DeadlineEnds == options.deadline ~> doing = "done"

=============================================================================
