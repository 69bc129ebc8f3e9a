-------------------------------- MODULE Ctaphid --------------------------------
(***************************************************************************)
(* fl fido (fl/src/fido.rs): CTAPHID transactions over HID reports, and    *)
(* the four U2F commands of a run, two of which are repeated until the     *)
(* user confirms.  A message goes out and comes back as one initial report *)
(* and numbered continuations, padded to the size of a report; a piece of  *)
(* a reply is named by the reply and its place, past the size for padding. *)
(*                                                                         *)
(* The HID queue is shared: a reader gets every report of the device, also *)
(* those for other channels, and those meant for an earlier run.  The code *)
(* does not look at the channel of a report.                               *)
(***************************************************************************)
EXTENDS Naturals, Sequences

CONSTANTS
  InitRoom,     \* data that fits in an initial report (57 in the code)
  ContRoom,     \* data that fits in a continuation (59)
  SeqLimit,     \* sequence numbers below the bit of an initial report (128)
  RequestSize,  \* the size of each turn's request
  CidEnd,       \* the size of a reply that names a channel (12)
  MaxForeign    \* bound: reports of other channels

Turn == {"init", "version", "register", "authenticate"}

RoomAssumption ==
  /\ {InitRoom, ContRoom, SeqLimit, CidEnd} \subseteq Nat \ {0}
  /\ MaxForeign \in Nat
  /\ RequestSize \in [Turn -> 0 .. InitRoom + SeqLimit * ContRoom]

SwLen   == 2
MaxSize == InitRoom + SeqLimit * ContRoom     \* the most CTAPHID can carry
Command == {"none", "init", "msg", "keepalive", "error", "other"}
Status  == {"ok", "presence", "refused"}      \* 9000, 6985, anything else
Source  == {"even", "odd", "foreign"}         \* which exchange a reply is for
Message == [from : Source, cmd : Command, size : 0 .. MaxSize, sw : Status]

NoReply == [from |-> "foreign", cmd |-> "none", size |-> 0, sw |-> "refused"]

VARIABLES
  turn,      \* the command under way
  phase,     \* "write", "read", "judge" the data returned, or "over"
  outcome,   \* of the run: "", "passed", "failed" or "panicked"
  request,   \* the reports of this request that the device has
  wire,      \* the reports on their way to the host
  acc, remaining, expectedSeq, responseCmd,  \* the reassembly
  expired,   \* the presence prompt's deadline has passed
  exchangeNo,\* "even" or "odd"
  reply,     \* the device's reply in this exchange
  confirmed, \* the turns the device has carried out
  foreign,   \* reports of other channels so far
  mixed      \* the host has read one of them

reading == <<acc, remaining, expectedSeq, responseCmd>>
device  == <<reply, confirmed, foreign>>
vars    == <<turn, phase, outcome, request, wire, reading, expired, exchangeNo, device, mixed>>

Smaller(a, b) == IF a < b THEN a ELSE b

(* A report: 0 is the initial one, i the continuation with number i - 1. *)
Base(i) == IF i = 0 THEN 0 ELSE InitRoom + (i - 1) * ContRoom
Room(i) == IF i = 0 THEN InitRoom ELSE ContRoom

(* External: a message takes as many continuations as its data fills. *)
LastIndex(n) == IF n <= InitRoom THEN 0 ELSE (n - InitRoom + ContRoom - 1) \div ContRoom

Reports(m)    == [k \in 1 .. LastIndex(m.size) + 1 |-> [of |-> m, index |-> k - 1]]
Pieces(r, n)  == [j \in 1 .. n |-> [of |-> r.of, at |-> Base(r.index) + j]]
Whole(m)      == [j \in 1 .. m.size |-> [of |-> m, at |-> j]]

Init ==
  /\ turn = "init" /\ phase = "write" /\ outcome = ""
  /\ request = <<>> /\ wire = <<>>
  /\ acc = <<>> /\ remaining = 0 /\ expectedSeq = 0 /\ responseCmd = "none"
  /\ expired = FALSE /\ exchangeNo = "even"
  /\ reply = NoReply /\ confirmed = {} /\ foreign = 0 /\ mixed = FALSE

-----------------------------------------------------------------------------
(* exchange(): the request is written, report by report, each from where *)
(* the one before it ended ...                                           *)
Offset == IF request = <<>> THEN 0 ELSE request[Len(request)].upTo

Write ==
  /\ phase = "write"
  /\ LET size == RequestSize[turn]
         upTo == Offset + Smaller(size - Offset, Room(Len(request)))
     IN  /\ request' = Append(request, [total |-> size, after |-> Offset, upTo |-> upTo])
         /\ phase' = IF upTo < size THEN "write" ELSE "read"
  /\ acc' = <<>> /\ remaining' = 0 /\ expectedSeq' = 0 /\ responseCmd' = "none"
  /\ UNCHANGED <<turn, outcome, wire, expired, exchangeNo, device, mixed>>

Over(how) ==
  /\ phase' = "over" /\ outcome' = how
  /\ UNCHANGED <<turn, request, expired, exchangeNo, device>>

(* ... the reply read, and a report that leaves nothing outstanding ends it. *)
Collected(cmd, data, left) ==
  /\ acc' = data /\ remaining' = left /\ responseCmd' = cmd
  /\ IF left = 0 /\ cmd = "error" THEN Over("failed")
     ELSE /\ phase' = IF left = 0 /\ cmd # "keepalive" THEN "judge" ELSE "read"
          /\ UNCHANGED <<turn, outcome, request, expired, exchangeNo, device>>

Take == wire' = Tail(wire) /\ mixed' = (mixed \/ Head(wire).of.from = "foreign")

(* Mutant: what an earlier initial report left behind is not cleared. *)
ReadInitialOnto(r) ==
  LET take == Smaller(InitRoom, r.of.size)
  IN  /\ r.index = 0
      /\ expectedSeq' = 0
      /\ Collected(r.of.cmd, acc \o Pieces(r, take), r.of.size - take)

ReadInitial(r) ==
  LET take == Smaller(InitRoom, r.of.size)
  IN  /\ r.index = 0
      /\ expectedSeq' = 0
      /\ Collected(r.of.cmd, Pieces(r, take), r.of.size - take)

(* Mutant: a continuation is taken to its end. *)
ReadContinuationPadded(r) ==
  /\ r.index > 0 /\ r.index - 1 = expectedSeq
  /\ expectedSeq' = expectedSeq + 1
  /\ Collected(responseCmd, acc \o Pieces(r, ContRoom), remaining - ContRoom)

ReadContinuation(r) ==
  LET take == Smaller(ContRoom, remaining)
  IN  /\ r.index > 0 /\ r.index - 1 = expectedSeq
      /\ expectedSeq' = expectedSeq + 1
      /\ Collected(responseCmd, acc \o Pieces(r, take), remaining - take)

ReadOutOfSequence(r) ==
  /\ r.index > 0 /\ r.index - 1 # expectedSeq
  /\ UNCHANGED reading /\ Over("failed")

Read ==
  /\ phase = "read" /\ wire # <<>> /\ Take
  /\ LET r == Head(wire)
     IN  ReadInitial(r) \/ ReadContinuation(r) \/ ReadOutOfSequence(r)

(* Nothing comes within TIMEOUT_MS. *)
ReadTimeout ==
  /\ phase = "read" /\ wire = <<>>
  /\ Over("failed") /\ UNCHANGED <<wire, reading, mixed>>

(* A report or a write fails, or a report is too short to have a header. *)
HidFails ==
  /\ phase \in {"write", "read"}
  /\ \/ Over("failed")
     \/ phase = "read" /\ Over("panicked")
  /\ UNCHANGED <<wire, reading, mixed>>

-----------------------------------------------------------------------------
(* The next exchange: of this turn again, or of the next turn. *)
Exchange(t) ==
  /\ turn' = t /\ phase' = "write" /\ request' = <<>>
  /\ exchangeNo' = IF exchangeNo = "even" THEN "odd" ELSE "even"
  /\ reply' = NoReply
  /\ UNCHANGED <<outcome, wire, reading, confirmed, foreign, mixed>>

Fail == Over("failed") /\ UNCHANGED <<wire, reading, mixed>>

(* The status word is the last two pieces, whatever they are. *)
StatusOf(data) ==
  LET last == data[Len(data)]
  IN  IF last.at = last.of.size THEN {last.of.sw} ELSE Status

JudgeInit ==
  /\ phase = "judge" /\ turn = "init"
  /\ \/ Len(acc) < CidEnd /\ Fail
     \/ Len(acc) >= CidEnd /\ Exchange("version") /\ UNCHANGED expired

NotU2f == responseCmd # "msg" \/ Len(acc) < SwLen

JudgeVersion ==
  /\ phase = "judge" /\ turn = "version"
  /\ \/ NotU2f /\ Fail
     \/ /\ ~ NotU2f
        /\ \/ StatusOf(acc) # {"ok"} /\ Fail
           \/ "ok" \in StatusOf(acc) /\ Exchange("register") /\ expired' = FALSE

(* A reply of the wanted form is parsed; the signature is checked. *)
Accept ==
  \/ Fail
  \/ turn = "register" /\ Exchange("authenticate") /\ expired' = FALSE
  \/ turn = "authenticate" /\ Over("passed") /\ UNCHANGED <<wire, reading, mixed>>

(* Mutant: once the deadline has passed any answer will do. *)
OnStatusGivingUp(sw) ==
  \/ (sw = "ok" \/ expired) /\ Accept
  \/ sw = "presence" /\ ~ expired /\ Exchange(turn) /\ UNCHANGED expired
  \/ sw = "refused" /\ Fail

OnStatus(sw) ==
  \/ sw = "ok" /\ Accept
  \/ sw = "presence" /\ ~ expired /\ Exchange(turn) /\ UNCHANGED expired
  \/ sw = "presence" /\ expired /\ Fail
  \/ sw = "refused" /\ Fail

(* u2f_await_presence: until 9000; the deadline counts only after a 6985. *)
Poll ==
  /\ phase = "judge" /\ turn \in {"register", "authenticate"}
  /\ \/ NotU2f /\ Fail
     \/ ~ NotU2f /\ \E sw \in StatusOf(acc) : OnStatus(sw)

DeadlinePasses ==
  /\ phase # "over" /\ turn \in {"register", "authenticate"}
  /\ ~ expired /\ expired' = TRUE
  /\ UNCHANGED <<turn, phase, outcome, request, wire, reading, exchangeNo, device, mixed>>

-----------------------------------------------------------------------------
(* External: the device has the whole request, by the CTAPHID rules. *)
RequestHeard ==
  /\ request # <<>>
  /\ LastIndex(request[1].total) = Len(request) - 1

Unchanged == UNCHANGED <<turn, phase, outcome, request, reading, expired, exchangeNo, mixed>>

(* It says that it is at work ... *)
DeviceKeepsAlive ==
  /\ RequestHeard /\ reply = NoReply /\ wire = <<>>
  /\ wire' = Reports([from |-> exchangeNo, cmd |-> "keepalive", size |-> 1, sw |-> "refused"])
  /\ UNCHANGED device /\ Unchanged

(* ... and answers once; a turn is carried out when it says so. *)
Replies ==
  IF turn = "init" THEN {m \in Message : m.cmd \in {"init", "error"} /\ m.size \in {1, CidEnd} /\ m.sw = "refused"}
  ELSE {m \in Message : m.cmd = "msg" /\ m.size >= SwLen}
       \cup {m \in Message : m.cmd \in {"error", "other"} /\ m.size = 1 /\ m.sw = "refused"}

DeviceReplies ==
  /\ RequestHeard /\ reply = NoReply
  /\ \E m \in Replies :
       /\ m.from = exchangeNo
       /\ reply' = m
       /\ wire' = wire \o Reports(m)
       /\ confirmed' = IF m.cmd = "msg" /\ m.sw = "ok" THEN confirmed \cup {turn} ELSE confirmed
  /\ UNCHANGED foreign /\ Unchanged

(* A report of another channel comes in between, or one for an earlier run. *)
Strays ==
  {[of |-> m, index |-> i] :
     m \in {n \in Message : n.from = "foreign" /\ n.cmd \in {"msg", "keepalive"}
                            /\ n.size \in {1, InitRoom + 1} /\ n.sw = "ok"},
     i \in 0 .. 1}

ForeignReport ==
  /\ foreign < MaxForeign /\ foreign' = foreign + 1
  /\ \E r \in Strays, i \in 0 .. Len(wire) :
       wire' = SubSeq(wire, 1, i) \o <<r>> \o SubSeq(wire, i + 1, Len(wire))
  /\ UNCHANGED <<reply, confirmed>> /\ Unchanged

HostStep == Write \/ Read \/ JudgeInit \/ JudgeVersion \/ Poll

Next ==
  \/ HostStep \/ ReadTimeout \/ HidFails \/ DeadlinePasses
  \/ DeviceKeepsAlive \/ DeviceReplies \/ ForeignReport

Spec == Init /\ [][Next]_vars

-----------------------------------------------------------------------------
TypeOK ==
  /\ turn \in Turn /\ phase \in {"write", "read", "judge", "over"}
  /\ outcome \in {"", "passed", "failed", "panicked"}
  /\ (outcome = "") = (phase # "over")
  /\ Len(request) <= SeqLimit + 1
  /\ \A k \in 1 .. Len(request) : request[k].upTo \in 0 .. RequestSize[turn]
  /\ \A k \in 1 .. Len(wire) : wire[k].of \in Message /\ wire[k].index \in 0 .. SeqLimit
  /\ remaining \in 0 .. MaxSize /\ expectedSeq \in 0 .. SeqLimit
  /\ responseCmd \in Command
  /\ expired \in BOOLEAN /\ mixed \in BOOLEAN /\ exchangeNo \in {"even", "odd"}
  /\ reply \in Message /\ confirmed \subseteq Turn /\ foreign \in 0 .. MaxForeign

(***************************************************************************)
(* The device gets the request whole, each report going on where the one   *)
(* before it ended.  What exchange() returns is put together without gap   *)
(* or overlap and is as long as the initial report it begins with said,    *)
(* whatever else was on the HID queue.  It is the reply to this very       *)
(* request, whole and without padding, keepalives or not, if the run has   *)
(* read no report of another channel: of those the code takes a            *)
(* continuation for its own (see mixed).                                   *)
(***************************************************************************)
RequestWhole ==
  /\ Len(request) = LastIndex(RequestSize[turn]) + 1
  /\ \A k \in 1 .. Len(request) : request[k].after = Base(k - 1)
  /\ request[Len(request)].upTo = RequestSize[turn]

InOrder ==
  /\ \A j \in 1 .. Len(acc) : acc[j].at = j
  /\ acc # <<>> => Len(acc) = acc[1].of.size /\ responseCmd = acc[1].of.cmd

ExchangeWhole ==
  phase = "judge" =>
    /\ RequestWhole
    /\ InOrder
    /\ ~ mixed => acc = Whole(reply) /\ responseCmd = reply.cmd

(***************************************************************************)
(* "all checks passed" only when the user has confirmed both prompts, also *)
(* when the last answer comes after the deadline.  Nothing is said of a    *)
(* run that has read a report of another channel: it may be the answer of  *)
(* another device or run (see mixed).                                      *)
(***************************************************************************)
PassedMeansConfirmed ==
  outcome = "passed" /\ ~ mixed => {"version", "register", "authenticate"} \subseteq confirmed

(***************************************************************************)
(* A run ends whatever the user does, unless the device says for ever that *)
(* it is at work: each keepalive starts the wait anew.  So would a report  *)
(* of another channel, but of those there are MaxForeign at most.          *)
(***************************************************************************)
Ends == <>(phase = "over") \/ <>[](phase = "read" /\ responseCmd = "keepalive")

=============================================================================
