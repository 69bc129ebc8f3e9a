------------------------------ MODULE LabCliProofs ------------------------------
(***************************************************************************)
(* What holds of LabCli for any sizes of reports, requests and replies,    *)
(* any log in any transfers, and any values on a card.                     *)
(*                                                                         *)
(* fl fido: FidoInv says what the device has of the request (Requested),   *)
(* what it has answered (Replied), what is on its way and what of it has   *)
(* been put together (Reassembly, and Ordered where reports of other       *)
(* channels were read), and which turns were confirmed when the next one   *)
(* began (Confirming).                                                     *)
(*                                                                         *)
(* fl logs: LogsInv relates what is in a transfer and in a frame to what   *)
(* the device wrote (Transfers), and the lines printed to the spans of     *)
(* records heard since the connection was made (Followed).                 *)
(*                                                                         *)
(* fl piv: PivInv keeps what was received and what the card has left equal *)
(* to its response (Fetched); find_tlv of such a response is its value, by *)
(* what read_tlv makes of a TLV with its length in any of its forms.       *)
(***************************************************************************)
EXTENDS LabCli, TLAPS, SequenceTheorems, FiniteSetTheorems, WellFoundedInduction

-----------------------------------------------------------------------------
(* The reports of a request that the device has, each the next one's start. *)
Size == RequestSize[turn]

RequestReport(k) ==
  [total |-> Size, after |-> Fido!Base(k - 1),
   upTo |-> IF k = Fido!LastIndex(Size) + 1 THEN Size ELSE Fido!Base(k)]

Requested ==
  /\ Len(request) <= Fido!LastIndex(Size) + 1
  /\ \A k \in 1 .. Len(request) : request[k] = RequestReport(k)
  /\ phase = "write" => Len(request) <= Fido!LastIndex(Size)
  /\ phase \in {"read", "judge"} => Len(request) = Fido!LastIndex(Size) + 1

(* A reply is to the whole request, and a turn it says is done is confirmed. *)
Replied ==
  /\ reply # Fido!NoReply =>
       /\ Len(request) = Fido!LastIndex(Size) + 1
       /\ reply.from = exchangeNo /\ reply.cmd \in {"init", "msg", "error", "other"}
  /\ reply.cmd = "msg" /\ reply.sw = "ok" => turn \in confirmed

(* The reports on their way that are of this exchange. *)
Own == {k \in 1 .. Len(wire) : wire[k].of.from # "foreign"}

KeepAlive ==
  [of |-> [from |-> exchangeNo, cmd |-> "keepalive", size |-> 1, sw |-> "refused"], index |-> 0]

OfReply(k) == reply # Fido!NoReply /\ wire[k].of = reply

(* They are a keepalive and the reply's reports, in order. *)
OnTheWay ==
  /\ \A k \in Own :
       wire[k] = KeepAlive \/ (OfReply(k) /\ wire[k].index \in 0 .. Fido!LastIndex(reply.size))
  /\ \A j, k \in Own : j < k => OfReply(k) /\ (OfReply(j) => wire[j].index < wire[k].index)

(* Nothing of the reply has been read: its initial report comes first. *)
NotBegun ==
  \A k \in Own : OfReply(k) /\ wire[k].index > 0 =>
    \E j \in Own : j < k /\ OfReply(j) /\ wire[j].index = 0

(* Its reports have been read up to the last sequence number. *)
Begun ==
  /\ reply # Fido!NoReply /\ responseCmd = reply.cmd
  /\ acc = [j \in 1 .. Fido!Base(expectedSeq + 1) |-> [of |-> reply, at |-> j]]
  /\ remaining = reply.size - Fido!Base(expectedSeq + 1) /\ remaining > 0
  /\ \A k \in Own : OfReply(k) /\ wire[k].index > expectedSeq

Reassembly ==
  ~ mixed /\ phase # "over" =>
    /\ OnTheWay
    /\ phase \in {"write", "judge"} => Own = {}
    /\ phase = "read" => IF responseCmd \in {"none", "keepalive"} THEN NotBegun ELSE Begun
    /\ phase = "judge" =>
         reply # Fido!NoReply /\ acc = Fido!Whole(reply) /\ responseCmd = reply.cmd

(* A turn comes after those before it were confirmed. *)
Confirming ==
  ~ mixed =>
    /\ turn \in {"register", "authenticate"} => "version" \in confirmed
    /\ turn = "authenticate" => "register" \in confirmed
    /\ outcome = "passed" => turn = "authenticate" /\ "authenticate" \in confirmed

(***************************************************************************)
(* What is put together of whatever was read, reports of other channels or *)
(* not: the pieces 1, 2, ... of as many as the initial report announced.   *)
(***************************************************************************)
Piece == [of : Fido!Message, at : Nat]

Ordered ==
  /\ acc \in Seq(Piece)
  /\ \A j \in 1 .. Len(acc) : acc[j].at = j
  /\ acc # <<>> => acc[1].of.size = Len(acc) + remaining /\ responseCmd = acc[1].of.cmd
  /\ acc = <<>> => remaining = 0
  /\ remaining > 0 => Len(acc) = Fido!Base(expectedSeq + 1)
  /\ phase = "judge" => remaining = 0

Report == [of : Fido!Message, index : 0 .. SeqLimit]

FidoTyped ==
  /\ Fido!TypeOK
  /\ request \in Seq([total : Nat, after : Nat, upTo : Nat])
  /\ wire \in Seq(Report)

FidoInv == FidoTyped /\ Requested /\ Replied /\ Reassembly /\ Ordered /\ Confirming

-----------------------------------------------------------------------------
(* The arithmetic of reports. *)
LEMMA RoomFacts ==
  /\ InitRoom \in Nat /\ InitRoom > 0 /\ ContRoom \in Nat /\ ContRoom > 0
  /\ SeqLimit \in Nat /\ SeqLimit > 0 /\ MaxForeign \in Nat
  /\ SeqLimit * ContRoom \in Nat
  /\ Fido!MaxSize \in Nat /\ Fido!MaxSize = InitRoom + SeqLimit * ContRoom
  /\ InitRoom + 1 <= Fido!MaxSize
  /\ \A t \in Fido!Turn : RequestSize[t] \in 0 .. Fido!MaxSize
<1>1. /\ InitRoom \in Nat /\ InitRoom > 0 /\ ContRoom \in Nat /\ ContRoom > 0
      /\ SeqLimit \in Nat /\ SeqLimit > 0 /\ MaxForeign \in Nat
  BY LabAssumption DEF Fido!RoomAssumption
<1>2. SeqLimit * ContRoom \in Nat /\ SeqLimit * ContRoom >= 1
  BY <1>1
<1> QED
  BY <1>1, <1>2, LabAssumption DEF Fido!RoomAssumption, Fido!MaxSize

(* Reports go on where the one before ended. *)
LEMMA BaseFacts ==
  ASSUME NEW i \in Nat
  PROVE  /\ Fido!Base(i) \in Nat /\ Fido!Room(i) \in Nat /\ Fido!Room(i) > 0
         /\ Fido!Base(i + 1) = Fido!Base(i) + Fido!Room(i)
         /\ Fido!Base(0) = 0 /\ Fido!Base(1) = InitRoom
         /\ i > 0 => Fido!Base(i) = InitRoom + (i - 1) * ContRoom /\ Fido!Room(i) = ContRoom
<1>1. i > 0 => (i - 1) * ContRoom \in Nat /\ i * ContRoom = (i - 1) * ContRoom + ContRoom
  BY RoomFacts
<1>2. i + 1 - 1 = i /\ 1 - 1 = 0 /\ 0 * ContRoom = 0
  BY RoomFacts
<1> QED
  BY <1>1, <1>2, RoomFacts DEF Fido!Base, Fido!Room

(* A message has the reports that begin before its end, and an initial one. *)
LEMMA IndexFacts ==
  ASSUME NEW n \in Nat
  PROVE  /\ Fido!LastIndex(n) \in Nat
         /\ \A i \in Nat : i <= Fido!LastIndex(n) <=> (i = 0 \/ Fido!Base(i) < n)
         /\ n <= Fido!MaxSize => Fido!LastIndex(n) <= SeqLimit
<1>1. CASE n <= InitRoom
  <2>1. Fido!LastIndex(n) = 0
    BY <1>1 DEF Fido!LastIndex
  <2>2. \A i \in Nat : i > 0 => ~ (Fido!Base(i) < n)
    <3> SUFFICES ASSUME NEW i \in Nat, i > 0 PROVE ~ (Fido!Base(i) < n)
      OBVIOUS
    <3>1. (i - 1) * ContRoom \in Nat
      BY RoomFacts
    <3>2. Fido!Base(i) = InitRoom + (i - 1) * ContRoom
      BY BaseFacts
    <3> QED
      BY <1>1, <3>1, <3>2, RoomFacts
  <2> QED
    BY <2>1, <2>2, RoomFacts
<1>2. CASE n > InitRoom
  <2> DEFINE c == ContRoom
             m == n - InitRoom + c - 1
             q == m \div c
  <2>1. Fido!LastIndex(n) = q
    BY <1>2, RoomFacts DEF Fido!LastIndex
  <2>2. c \in Nat /\ c > 0 /\ m \in Nat
    BY <1>2, RoomFacts
  <2>m. m = n - InitRoom + c - 1
    OBVIOUS
  <2> HIDE DEF m
  <2>3. q \in Nat /\ q * c <= m /\ m < q * c + c
    BY <2>2
  <2> HIDE DEF q
  <2>4. ASSUME NEW i \in Nat, i > 0 PROVE i <= q <=> Fido!Base(i) < n
    <3>1. Fido!Base(i) = InitRoom + (i - 1) * c
      BY <2>4, BaseFacts
    <3>2. (i - 1) * c \in Nat /\ i * c = (i - 1) * c + c /\ q * c \in Nat /\ i * c \in Nat
      BY <2>2, <2>3, <2>4
    <3> HIDE DEF c
    <3>3. ASSUME i <= q PROVE i * c <= q * c
      BY <2>2, <2>3, <3>3
    <3>4. ASSUME ~ (i <= q) PROVE q * c + c <= i * c
      <4>1. (q + 1) * c <= i * c /\ (q + 1) * c = q * c + c
        BY <2>2, <2>3, <3>4
      <4> QED
        BY <4>1
    <3>5. Fido!Base(i) < n <=> i * c <= m
      BY <2>m, <2>2, <3>1, <3>2, RoomFacts
    <3> QED
      BY <2>2, <2>3, <3>2, <3>3, <3>4, <3>5
  <2>5. n <= Fido!MaxSize => q <= SeqLimit
    <3> SUFFICES ASSUME n <= Fido!MaxSize, ~ (q <= SeqLimit) PROVE FALSE
      OBVIOUS
    <3>1. SeqLimit + 1 \in Nat /\ SeqLimit + 1 > 0 /\ SeqLimit + 1 <= q
      BY <2>3, RoomFacts
    <3>2. Fido!Base(SeqLimit + 1) < n
      BY <2>4, <3>1
    <3>3. Fido!Base(SeqLimit + 1) = InitRoom + SeqLimit * ContRoom
      BY <3>1, BaseFacts, RoomFacts
    <3> QED
      BY <3>2, <3>3, RoomFacts
  <2> QED
    BY <2>1, <2>3, <2>4, <2>5
<1> QED
  BY <1>1, <1>2, RoomFacts

(* The reports of a message. *)
LEMMA ReportsFacts ==
  ASSUME NEW m \in Fido!Message
  PROVE  /\ Fido!Reports(m) \in Seq(Report)
         /\ Len(Fido!Reports(m)) = Fido!LastIndex(m.size) + 1
         /\ \A k \in 1 .. Fido!LastIndex(m.size) + 1 :
              Fido!Reports(m)[k] = [of |-> m, index |-> k - 1]
         /\ Fido!LastIndex(m.size) \in 0 .. SeqLimit
<1>1. m.size \in Nat /\ m.size <= Fido!MaxSize
  BY RoomFacts DEF Fido!Message
<1>2. Fido!LastIndex(m.size) \in Nat /\ Fido!LastIndex(m.size) <= SeqLimit
  BY <1>1, IndexFacts
<1> PICK n \in Nat : n = Fido!LastIndex(m.size) + 1
  BY <1>2
<1>3. \A k \in 1 .. n : k - 1 \in 0 .. SeqLimit
  BY <1>2, RoomFacts
<1>4. Fido!Reports(m) = [k \in 1 .. n |-> [of |-> m, index |-> k - 1]]
  BY DEF Fido!Reports
<1> DEFINE report(k) == [of |-> m, index |-> k - 1]
<1>5. \A k \in 1 .. n : report(k) \in Report
  BY <1>3 DEF Report
<1>r. Fido!Reports(m) = [k \in 1 .. n |-> report(k)]
  BY <1>4
<1> HIDE DEF report
<1>6. Fido!Reports(m) \in Seq(Report) /\ Len(Fido!Reports(m)) = n
  BY <1>r, <1>5
<1> QED
  BY <1>2, <1>4, <1>6, RoomFacts

-----------------------------------------------------------------------------
(***************************************************************************)
(* What each step does to the request and the reply: it writes, begins the *)
(* next exchange, brings the reply, or leaves both alone.                  *)
(***************************************************************************)
Quiet ==
  /\ UNCHANGED <<turn, request, exchangeNo, reply, confirmed>>
  /\ phase' = phase \/ phase' = "over" \/ (phase = "read" /\ phase' \in {"read", "judge"})

(* The reading of a report. *)
LEMMA CollectedFacts ==
  ASSUME NEW cmd, NEW data, NEW rest, Fido!Collected(cmd, data, rest)
  PROVE  /\ acc' = data /\ remaining' = rest /\ responseCmd' = cmd
         /\ UNCHANGED <<turn, request, expired, exchangeNo, reply, confirmed, foreign>>
         /\ \/ phase' = "over" /\ outcome' = "failed"
            \/ /\ phase' = IF rest = 0 /\ cmd # "keepalive" THEN "judge" ELSE "read"
               /\ outcome' = outcome
BY DEF Fido!Collected, Fido!Over, Fido!device

LEMMA ReadFacts ==
  ASSUME Fido!Read
  PROVE  /\ phase = "read" /\ phase' \in {"read", "judge", "over"}
         /\ UNCHANGED <<turn, request, expired, exchangeNo, reply, confirmed, foreign>>
         /\ \/ phase' = "over" /\ outcome' = "failed"
            \/ phase' # "over" /\ outcome' = outcome
         /\ wire # <<>> /\ wire' = Tail(wire)
         /\ mixed' = (mixed \/ Head(wire).of.from = "foreign")
<1> DEFINE r == Head(wire)
<1>1. phase = "read" /\ wire # <<>> /\ Fido!Take
  BY DEF Fido!Read
<1>2. CASE Fido!ReadInitial(r)
  BY <1>1, <1>2, CollectedFacts DEF Fido!ReadInitial, Fido!Take
<1>3. CASE Fido!ReadContinuation(r)
  BY <1>1, <1>3, CollectedFacts DEF Fido!ReadContinuation, Fido!Take
<1>4. CASE Fido!ReadOutOfSequence(r)
  BY <1>1, <1>4 DEF Fido!ReadOutOfSequence, Fido!Over, Fido!Take, Fido!device
<1> QED
  BY <1>2, <1>3, <1>4 DEF Fido!Read

(* What follows a complete reply: the run fails or passes, or goes on. *)
Stops(how) ==
  /\ phase' = "over" /\ outcome' = how
  /\ UNCHANGED <<turn, request, wire, acc, remaining, expectedSeq, responseCmd, expired,
                 exchangeNo, reply, confirmed, foreign, mixed>>

GoesOn(t) == Fido!Exchange(t) /\ expired' \in BOOLEAN

LEMMA JudgeFacts ==
  ASSUME Fido!TypeOK, Fido!JudgeInit \/ Fido!JudgeVersion \/ Fido!Poll
  PROVE  /\ phase = "judge"
         /\ \/ Stops("failed")
            \/ turn = "init" /\ GoesOn("version")
            \/ turn = "version" /\ GoesOn("register")
               /\ ~ Fido!NotU2f /\ "ok" \in Fido!StatusOf(acc)
            \/ turn \in {"register", "authenticate"} /\ GoesOn(turn)
            \/ turn = "register" /\ GoesOn("authenticate")
               /\ ~ Fido!NotU2f /\ "ok" \in Fido!StatusOf(acc)
            \/ turn = "authenticate" /\ Stops("passed")
               /\ ~ Fido!NotU2f /\ "ok" \in Fido!StatusOf(acc)
<1>1. expired \in BOOLEAN
  BY DEF Fido!TypeOK
<1>2. Fido!Fail => Stops("failed")
  BY DEF Fido!Fail, Fido!Over, Fido!reading, Fido!device, Stops
<1>3. CASE Fido!JudgeInit
  BY <1>1, <1>2, <1>3 DEF Fido!JudgeInit, GoesOn
<1>4. CASE Fido!JudgeVersion
  BY <1>1, <1>2, <1>4 DEF Fido!JudgeVersion, GoesOn
<1>5. CASE Fido!Poll
  <2>1. CASE Fido!NotU2f /\ Fido!Fail
    BY <1>2, <1>5, <2>1 DEF Fido!Poll
  <2>2. ASSUME NEW sw_1 \in Fido!StatusOf(acc), ~ Fido!NotU2f, Fido!OnStatus(sw_1)
        PROVE  \/ Stops("failed")
               \/ turn \in {"register", "authenticate"} /\ GoesOn(turn)
               \/ sw_1 = "ok" /\ turn = "register" /\ GoesOn("authenticate")
               \/ sw_1 = "ok" /\ turn = "authenticate" /\ Stops("passed")
    BY <1>1, <1>2, <1>5, <2>2
    DEF Fido!Poll, Fido!OnStatus, Fido!Accept, GoesOn, Stops, Fido!Over, Fido!reading, Fido!device
  <2> QED
    BY <1>5, <2>1, <2>2 DEF Fido!Poll
<1> QED
  BY <1>3, <1>4, <1>5

LEMMA FidoSteps ==
  ASSUME Fido!TypeOK, Fido!Next
  PROVE  \/ Fido!Write \/ Quiet \/ Fido!DeviceReplies
         \/ phase = "judge" /\ \E t \in Fido!Turn : GoesOn(t)
<1>1. CASE Fido!Read
  BY <1>1, ReadFacts DEF Quiet
<1>2. CASE Fido!JudgeInit \/ Fido!JudgeVersion \/ Fido!Poll
  BY <1>2, JudgeFacts DEF Quiet, Stops, Fido!Turn
<1>3. CASE Fido!ReadTimeout \/ Fido!HidFails \/ Fido!DeadlinePasses
  BY <1>3 DEF Quiet, Fido!ReadTimeout, Fido!HidFails, Fido!DeadlinePasses, Fido!Over, Fido!device
<1>4. CASE Fido!DeviceKeepsAlive \/ Fido!ForeignReport
  BY <1>4 DEF Quiet, Fido!DeviceKeepsAlive, Fido!ForeignReport, Fido!Unchanged, Fido!device
<1> QED
  BY <1>1, <1>2, <1>3, <1>4 DEF Fido!Next, Fido!HostStep

(* The sizes of the request under way. *)
LEMMA SizeFacts ==
  ASSUME Fido!TypeOK
  PROVE  /\ Size \in Nat /\ Fido!LastIndex(Size) \in 0 .. SeqLimit
         /\ \A i \in Nat : i <= Fido!LastIndex(Size) <=> (i = 0 \/ Fido!Base(i) < Size)
<1>0. turn \in Fido!Turn
  BY DEF Fido!TypeOK
<1>1. Size \in Nat /\ Size <= Fido!MaxSize
  <2>1. RequestSize[turn] \in 0 .. Fido!MaxSize
    BY <1>0, RoomFacts
  <2> QED
    BY <2>1, RoomFacts DEF Size
<1>2. Fido!LastIndex(Size) \in Nat /\ Fido!LastIndex(Size) <= SeqLimit
  BY <1>1, IndexFacts
<1>3. \A i \in Nat : i <= Fido!LastIndex(Size) <=> (i = 0 \/ Fido!Base(i) < Size)
  BY <1>1, IndexFacts
<1> QED
  BY <1>1, <1>2, <1>3, RoomFacts

(* A report of the request begins where the one before it ended. *)
LEMMA WriteFacts ==
  ASSUME FidoTyped, Requested, Fido!Write
  PROVE  /\ request' = Append(request, RequestReport(Len(request) + 1))
         /\ RequestReport(Len(request) + 1) \in [total : Nat, after : Nat, upTo : Nat]
         /\ RequestReport(Len(request) + 1).upTo \in 0 .. Size
         /\ phase = "write" /\ Len(request) \in 0 .. Fido!LastIndex(Size)
         /\ phase' = IF Len(request) < Fido!LastIndex(Size) THEN "write" ELSE "read"
<1> PICK k \in Nat : k = Len(request)
  BY DEF FidoTyped
<1> PICK n \in Nat : n = Size
  BY SizeFacts DEF FidoTyped
<1> PICK l \in Nat : l = Fido!LastIndex(Size)
  BY SizeFacts, RoomFacts DEF FidoTyped
<1>1. phase = "write" /\ k <= l
  BY DEF Fido!Write, Requested
<1>2. /\ Fido!Base(k) \in Nat /\ Fido!Room(k) \in Nat /\ Fido!Room(k) > 0
      /\ Fido!Base(k + 1) = Fido!Base(k) + Fido!Room(k) /\ Fido!Base(0) = 0
  BY BaseFacts
<1>3. (k = 0 \/ Fido!Base(k) < n) /\ (k + 1 <= l <=> Fido!Base(k + 1) < n)
  BY <1>1, SizeFacts DEF FidoTyped
<1>4. Fido!Offset = Fido!Base(k)
  <2>1. CASE k = 0
    <3>1. request = <<>>
      BY <2>1, EmptySeq DEF FidoTyped
    <3> QED
      BY <2>1, <3>1, <1>2 DEF Fido!Offset
  <2>2. CASE k > 0
    <3>1. request # <<>> /\ request[k] = RequestReport(k) /\ k # l + 1
      BY <1>1, <2>2 DEF Requested, FidoTyped
    <3> QED
      BY <3>1 DEF Fido!Offset, RequestReport
  <2> QED
    BY <2>1, <2>2
<1> DEFINE upTo == Fido!Base(k) + Fido!Smaller(n - Fido!Base(k), Fido!Room(k))
<1>5. /\ request' = Append(request, [total |-> n, after |-> Fido!Base(k), upTo |-> upTo])
      /\ phase' = IF upTo < n THEN "write" ELSE "read"
  BY <1>4 DEF Fido!Write, Size
<1>6. /\ upTo = IF k + 1 = l + 1 THEN n ELSE Fido!Base(k + 1)
      /\ upTo < n <=> k < l
      /\ upTo \in 0 .. n
  <2>1. n - Fido!Base(k) \in Nat
    BY <1>2, <1>3
  <2>2. CASE k < l
    <3>1. Fido!Base(k) + Fido!Room(k) < n
      BY <1>2, <1>3, <2>2
    <3>2. upTo = Fido!Base(k + 1)
      BY <1>2, <3>1, <2>1 DEF Fido!Smaller
    <3> QED
      BY <1>2, <2>2, <3>1, <3>2
  <2>3. CASE k = l
    <3>1. ~ (Fido!Base(k) + Fido!Room(k) < n)
      BY <1>2, <1>3, <2>3
    <3>2. upTo = n
      BY <1>2, <3>1, <2>1 DEF Fido!Smaller
    <3> QED
      BY <2>3, <3>2
  <2> QED
    BY <1>1, <2>2, <2>3
<1> HIDE DEF upTo
<1>7. RequestReport(k + 1) = [total |-> n, after |-> Fido!Base(k), upTo |-> upTo]
  <2>1. k + 1 - 1 = k
    OBVIOUS
  <2> QED
    BY <1>6, <2>1 DEF RequestReport
<1> QED
  BY <1>1, <1>2, <1>5, <1>6, <1>7

LEMMA RequestedNext ==
  ASSUME FidoTyped, Requested, Fido!Next
  PROVE  /\ Requested' /\ Len(request') <= SeqLimit + 1
         /\ request' \in Seq([total : Nat, after : Nat, upTo : Nat])
         /\ \A k \in 1 .. Len(request') : request'[k].upTo \in 0 .. RequestSize[turn]'
<1> PICK l \in Nat : l = Fido!LastIndex(Size)
  BY SizeFacts, RoomFacts DEF FidoTyped
<1>l. l <= SeqLimit
  BY SizeFacts, RoomFacts DEF FidoTyped
<1>1. CASE Fido!Write
  <2> DEFINE new == RequestReport(Len(request) + 1)
  <2>1. turn' = turn /\ Size' = Size
    BY <1>1 DEF Fido!Write, Size
  <2>2. \A k : RequestReport(k)' = RequestReport(k)
    BY <2>1 DEF RequestReport
  <2>3. /\ request' = Append(request, new) /\ new \in [total : Nat, after : Nat, upTo : Nat]
        /\ new.upTo \in 0 .. Size /\ Len(request) <= l /\ Len(request) \in Nat
        /\ phase' = IF Len(request) < l THEN "write" ELSE "read"
    BY <1>1, WriteFacts
  <2>n. new = RequestReport(Len(request) + 1)
    OBVIOUS
  <2> HIDE DEF new
  <2>4. /\ request' \in Seq([total : Nat, after : Nat, upTo : Nat])
        /\ Len(request') = Len(request) + 1 /\ request'[Len(request) + 1] = new
        /\ \A k \in 1 .. Len(request) : request'[k] = request[k]
    BY <2>3, AppendProperties DEF FidoTyped
  <2>5. \A k \in 1 .. Len(request') : k \in 1 .. Len(request) \/ k = Len(request) + 1
    BY <2>3, <2>4
  <2>6. \A k \in 1 .. Len(request') : request'[k] = RequestReport(k)'
    BY <2>2, <2>n, <2>4, <2>5 DEF Requested
  <2>7. \A k \in 1 .. Len(request') : request'[k].upTo \in 0 .. Size
    BY <2>3, <2>4, <2>5 DEF FidoTyped, Fido!TypeOK, Size
  <2>8. Len(request') <= l + 1 /\ Len(request') <= SeqLimit + 1
        /\ (phase' = "write" => Len(request') <= l)
        /\ (phase' \in {"read", "judge"} => Len(request') = l + 1)
    <3> PICK r \in Nat, r2 \in Nat : r = Len(request) /\ r2 = Len(request')
      BY <2>3, <2>4
    <3>1. r2 = r + 1 /\ r <= l
      BY <2>3, <2>4
    <3>2. phase' = IF r < l THEN "write" ELSE "read"
      BY <2>3
    <3>3. SeqLimit \in Nat
      BY RoomFacts
    <3>4. r2 <= l + 1 /\ r2 <= SeqLimit + 1
      BY <1>l, <3>1, <3>3
    <3>5. (phase' = "write" => r2 <= l) /\ (phase' \in {"read", "judge"} => r2 = l + 1)
      BY <3>1, <3>2
    <3> QED
      BY <3>4, <3>5
  <2> QED
    BY <2>1, <2>4, <2>6, <2>7, <2>8 DEF Requested, Size
<1>2. ASSUME NEW t \in Fido!Turn, GoesOn(t) PROVE
        /\ Requested' /\ Len(request') <= SeqLimit + 1
        /\ request' \in Seq([total : Nat, after : Nat, upTo : Nat])
        /\ \A k \in 1 .. Len(request') : request'[k].upTo \in 0 .. RequestSize[turn]'
  <2>1. turn' = t /\ request' = <<>> /\ phase' = "write"
    BY <1>2 DEF GoesOn, Fido!Exchange
  <2>2. Size' \in Nat /\ Size' <= Fido!MaxSize
    BY <2>1, RoomFacts DEF Size
  <2>3. Fido!LastIndex(Size') \in Nat
    BY <2>2, IndexFacts
  <2>4. Fido!LastIndex(Size)' = Fido!LastIndex(Size')
    BY DEF Fido!LastIndex
  <2> QED
    BY <2>1, <2>3, <2>4, RoomFacts DEF Requested
<1>3. CASE Quiet \/ Fido!DeviceReplies
  <2>1. /\ turn' = turn /\ request' = request
        /\ phase' = phase \/ phase' = "over" \/ (phase = "read" /\ phase' \in {"read", "judge"})
    BY <1>3 DEF Quiet, Fido!DeviceReplies, Fido!Unchanged
  <2>2. Size' = Size /\ \A k : RequestReport(k)' = RequestReport(k)
    BY <2>1 DEF Size, RequestReport
  <2> QED
    BY <2>1, <2>2 DEF Requested, FidoTyped, Fido!TypeOK
<1> QED
  BY <1>1, <1>2, <1>3, FidoSteps DEF FidoTyped

(* The device replies to the whole of a request, once. *)
LEMMA HeardFacts ==
  ASSUME FidoTyped, Requested, Fido!RequestHeard
  PROVE  Len(request) = Fido!LastIndex(Size) + 1
<1>1. request # <<>> /\ 1 \in 1 .. Len(request) /\ Len(request) \in Nat
  BY DEF FidoTyped, Fido!RequestHeard
<1>2. request[1].total = Size
  <2>1. request[1] = RequestReport(1)
    BY <1>1 DEF Requested
  <2> QED
    BY <2>1 DEF RequestReport
<1> QED
  BY <1>1, <1>2, SizeFacts, RoomFacts DEF Fido!RequestHeard, FidoTyped

LEMMA RepliesFacts ==
  ASSUME NEW m \in Fido!Replies
  PROVE  m \in Fido!Message /\ m.cmd \in {"init", "msg", "error", "other"}
BY DEF Fido!Replies

LEMMA RepliedNext ==
  ASSUME FidoTyped, Requested, Replied, Fido!Next
  PROVE  Replied' /\ reply' \in Fido!Message /\ confirmed' \subseteq Fido!Turn
<1>0. reply \in Fido!Message /\ confirmed \subseteq Fido!Turn /\ turn \in Fido!Turn
  BY DEF FidoTyped, Fido!TypeOK
<1>n. Fido!NoReply \in Fido!Message /\ Fido!NoReply.cmd = "none"
  BY RoomFacts DEF Fido!NoReply, Fido!Message, Fido!Source, Fido!Command, Fido!Status
<1>1. CASE Fido!Write
  <2>1. reply = Fido!NoReply
    <3>1. Len(request) <= Fido!LastIndex(Size) /\ Fido!LastIndex(Size) \in Nat
      BY <1>1, WriteFacts, SizeFacts, RoomFacts DEF FidoTyped
    <3> QED
      BY <3>1 DEF Replied
  <2> QED
    BY <1>0, <1>1, <1>n, <2>1 DEF Replied, Fido!Write, Fido!device
<1>2. ASSUME NEW t \in Fido!Turn, GoesOn(t)
      PROVE  Replied' /\ reply' \in Fido!Message /\ confirmed' \subseteq Fido!Turn
  <2>1. reply' = Fido!NoReply /\ confirmed' = confirmed
    BY <1>2 DEF GoesOn, Fido!Exchange
  <2> QED
    BY <1>0, <1>n, <2>1 DEF Replied
<1>3. CASE Quiet
  <2>1. Size' = Size
    BY <1>3 DEF Quiet, Size
  <2> QED
    BY <1>0, <1>3, <2>1 DEF Quiet, Replied
<1>4. CASE Fido!DeviceReplies
  <2> PICK m \in Fido!Replies :
         /\ m.from = exchangeNo /\ reply' = m
         /\ confirmed' = IF m.cmd = "msg" /\ m.sw = "ok" THEN confirmed \cup {turn} ELSE confirmed
    BY <1>4 DEF Fido!DeviceReplies
  <2>1. m \in Fido!Message /\ m.cmd \in {"init", "msg", "error", "other"}
    BY RepliesFacts
  <2>2. Len(request) = Fido!LastIndex(Size) + 1
    BY <1>4, HeardFacts DEF Fido!DeviceReplies
  <2>3. UNCHANGED <<turn, request, exchangeNo>> /\ Size' = Size
    BY <1>4 DEF Fido!DeviceReplies, Fido!Unchanged, Size
  <2> QED
    BY <1>0, <2>1, <2>2, <2>3 DEF Replied
<1> QED
  BY <1>1, <1>2, <1>3, <1>4, FidoSteps DEF FidoTyped

-----------------------------------------------------------------------------
(***************************************************************************)
(* What the reassembled reply says was confirmed.                          *)
(***************************************************************************)
LEMMA JudgedConfirmed ==
  ASSUME FidoInv, phase = "judge", ~ mixed, ~ Fido!NotU2f, "ok" \in Fido!StatusOf(acc)
  PROVE  turn \in confirmed
<1>1. reply \in Fido!Message /\ acc = Fido!Whole(reply) /\ responseCmd = reply.cmd
  BY DEF FidoInv, FidoTyped, Fido!TypeOK, Reassembly
<1> PICK n \in Nat : n = reply.size
  BY <1>1, RoomFacts DEF Fido!Message
<1>2. acc = [j \in 1 .. n |-> [of |-> reply, at |-> j]]
  BY <1>1 DEF Fido!Whole
<1>3. Len(acc) = n
  BY <1>2
<1>4. responseCmd = "msg" /\ n >= 2
  BY <1>3 DEF Fido!NotU2f, Fido!SwLen
<1>5. acc[n] = [of |-> reply, at |-> n]
  BY <1>2, <1>4
<1>6. Fido!StatusOf(acc) = {reply.sw}
  BY <1>3, <1>5 DEF Fido!StatusOf
<1> QED
  BY <1>1, <1>4, <1>6 DEF FidoInv, Replied

LEMMA ConfirmingNext ==
  ASSUME FidoInv, Fido!Next
  PROVE  Confirming'
<1>0. Fido!TypeOK /\ Confirming
  BY DEF FidoInv, FidoTyped
<1>1. CASE Fido!Read
  BY <1>0, <1>1, ReadFacts DEF Confirming
<1>2. CASE Fido!JudgeInit \/ Fido!JudgeVersion \/ Fido!Poll
  <2>1. phase = "judge"
    BY <1>0, <1>2, JudgeFacts
  <2>2. ~ mixed /\ ~ Fido!NotU2f /\ "ok" \in Fido!StatusOf(acc) => turn \in confirmed
    BY <2>1, JudgedConfirmed
  <2>3. outcome # "passed"
    BY <1>0, <2>1 DEF Fido!TypeOK
  <2>4. CASE Stops("failed")
    BY <1>0, <2>4 DEF Stops, Confirming
  <2>5. CASE turn = "init" /\ GoesOn("version")
    BY <2>3, <2>5 DEF GoesOn, Fido!Exchange, Confirming
  <2>6. CASE turn = "version" /\ GoesOn("register") /\ ~ Fido!NotU2f /\ "ok" \in Fido!StatusOf(acc)
    BY <2>2, <2>3, <2>6 DEF GoesOn, Fido!Exchange, Confirming
  <2>7. CASE turn \in {"register", "authenticate"} /\ GoesOn(turn)
    BY <1>0, <2>3, <2>7 DEF GoesOn, Fido!Exchange, Confirming
  <2>8. CASE turn = "register" /\ GoesOn("authenticate") /\ ~ Fido!NotU2f /\ "ok" \in Fido!StatusOf(acc)
    BY <1>0, <2>2, <2>3, <2>8 DEF GoesOn, Fido!Exchange, Confirming
  <2>9. CASE turn = "authenticate" /\ Stops("passed") /\ ~ Fido!NotU2f /\ "ok" \in Fido!StatusOf(acc)
    BY <1>0, <2>2, <2>9 DEF Stops, Confirming
  <2> QED
    BY <1>0, <1>2, JudgeFacts, <2>4, <2>5, <2>6, <2>7, <2>8, <2>9
<1>3. CASE Fido!Write \/ Fido!DeadlinePasses
  BY <1>0, <1>3 DEF Fido!Write, Fido!DeadlinePasses, Fido!device, Confirming
<1>4. CASE Fido!ReadTimeout \/ Fido!HidFails
  BY <1>0, <1>4 DEF Fido!ReadTimeout, Fido!HidFails, Fido!Over, Fido!device, Confirming
<1>5. CASE Fido!DeviceKeepsAlive \/ Fido!ForeignReport
  BY <1>0, <1>5 DEF Fido!DeviceKeepsAlive, Fido!ForeignReport, Fido!Unchanged, Fido!device, Confirming
<1>6. CASE Fido!DeviceReplies
  <2>1. UNCHANGED <<mixed, turn, outcome>> /\ confirmed \subseteq confirmed'
    BY <1>6 DEF Fido!DeviceReplies, Fido!Unchanged
  <2> QED
    BY <1>0, <2>1 DEF Confirming
<1> QED
  BY <1>1, <1>2, <1>3, <1>4, <1>5, <1>6 DEF Fido!Next, Fido!HostStep

-----------------------------------------------------------------------------
(***************************************************************************)
(* What is on its way, and what of it was put together.                    *)
(***************************************************************************)

(* Reports that are those on their way, less some, in the same order. *)
Thinned(g) ==
  /\ \A k \in Own' : g[k] \in Own /\ wire'[k] = wire[g[k]]
  /\ \A j, k \in Own' : j < k => g[j] < g[k]

LEMMA ThinnedKeeps ==
  ASSUME NEW g, Thinned(g), OnTheWay, UNCHANGED <<exchangeNo, reply>>
  PROVE  OnTheWay' /\ \A k \in Own' : OfReply(k)' = OfReply(g[k])
<1>1. \A k \in Own' : OfReply(k)' = OfReply(g[k])
  BY DEF Thinned, OfReply
<1>2. KeepAlive' = KeepAlive
  BY DEF KeepAlive
<1>3. \A k \in Own' : wire'[k] = KeepAlive'
                      \/ (OfReply(k)' /\ wire'[k].index \in 0 .. Fido!LastIndex(reply'.size))
  <2> SUFFICES ASSUME NEW k \in Own'
               PROVE  wire'[k] = KeepAlive'
                      \/ (OfReply(k)' /\ wire'[k].index \in 0 .. Fido!LastIndex(reply'.size))
    OBVIOUS
  <2>1. g[k] \in Own /\ wire'[k] = wire[g[k]] /\ OfReply(k)' = OfReply(g[k])
    BY <1>1 DEF Thinned
  <2> QED
    BY <1>2, <2>1 DEF OnTheWay
<1>4. \A j, k \in Own' : j < k => OfReply(k)' /\ (OfReply(j)' => wire'[j].index < wire'[k].index)
  <2> SUFFICES ASSUME NEW j \in Own', NEW k \in Own', j < k
               PROVE  OfReply(k)' /\ (OfReply(j)' => wire'[j].index < wire'[k].index)
    OBVIOUS
  <2>1. g[j] \in Own /\ g[k] \in Own /\ g[j] < g[k]
        /\ wire'[j] = wire[g[j]] /\ wire'[k] = wire[g[k]]
        /\ OfReply(k)' = OfReply(g[k]) /\ OfReply(j)' = OfReply(g[j])
    BY <1>1 DEF Thinned
  <2> QED
    BY <2>1 DEF OnTheWay
<1>5. Fido!LastIndex(reply.size)' = Fido!LastIndex(reply'.size)
  BY DEF Fido!LastIndex
<1> QED
  BY <1>1, <1>3, <1>4, <1>5 DEF OnTheWay

LEMMA TakeFacts ==
  ASSUME wire \in Seq(Report), wire # <<>>, wire' = Tail(wire)
  PROVE  /\ Head(wire) = wire[1] /\ wire[1] \in Report /\ 1 \in 1 .. Len(wire)
         /\ wire' \in Seq(Report)
         /\ \A k \in 1 .. Len(wire') : k + 1 \in 1 .. Len(wire) /\ wire'[k] = wire[k + 1]
         /\ \A k \in 1 .. Len(wire) : k = 1 \/ k - 1 \in 1 .. Len(wire')
         /\ \A k \in Own' : k + 1 \in Own /\ wire'[k] = wire[k + 1] /\ k \in Nat /\ k > 0
         /\ \A k \in Own : k = 1 \/ k - 1 \in Own'
         /\ Thinned([k \in Own' |-> k + 1])
<1>1. /\ Tail(wire) \in Seq(Report) /\ Len(Tail(wire)) = Len(wire) - 1 /\ Len(wire) \in Nat
      /\ \A k \in 1 .. Len(Tail(wire)) : Tail(wire)[k] = wire[k + 1]
  BY HeadTailProperties, LenProperties
<1>2. Head(wire) = wire[1] /\ 1 \in 1 .. Len(wire) /\ wire[1] \in Report
  BY EmptySeq, ElementOfSeq
<1>3. \A k \in 1 .. Len(wire') : k + 1 \in 1 .. Len(wire) /\ wire'[k] = wire[k + 1]
  BY <1>1
<1>4. \A k \in 1 .. Len(wire) : k = 1 \/ k - 1 \in 1 .. Len(wire')
  BY <1>1
<1>5. \A k \in 1 .. Len(wire) : k - 1 + 1 = k
  BY <1>1
<1>6. Own' = {k \in 1 .. Len(wire') : wire'[k].of.from # "foreign"}
  BY DEF Own
<1>7. \A k \in Own' : k + 1 \in Own /\ wire'[k] = wire[k + 1] /\ k \in Nat /\ k > 0
  BY <1>1, <1>3, <1>6 DEF Own
<1>8. \A k \in Own : k = 1 \/ k - 1 \in Own'
  BY <1>3, <1>4, <1>5, <1>6 DEF Own
<1>9. Thinned([k \in Own' |-> k + 1])
  <2> DEFINE g == [k \in Own' |-> k + 1]
  <2>1. \A k \in Own' : g[k] = k + 1
    OBVIOUS
  <2> HIDE DEF g
  <2>2. \A k \in Own' : g[k] \in Own /\ wire'[k] = wire[g[k]]
    BY <1>7, <2>1
  <2>3. \A j, k \in Own' : j < k => g[j] < g[k]
    BY <1>7, <2>1
  <2>4. Thinned(g)
    BY <2>2, <2>3 DEF Thinned
  <2> QED
    BY <2>4 DEF g
<1> QED
  BY <1>1, <1>2, <1>3, <1>4, <1>7, <1>8, <1>9

(* The reply has the device's name, so it is neither a stray nor a keepalive. *)
LEMMA ReplyFacts ==
  ASSUME Fido!TypeOK, Replied
  PROVE  /\ exchangeNo \in {"even", "odd"} /\ reply \in Fido!Message
         /\ reply.size \in Nat /\ reply.size <= Fido!MaxSize
         /\ reply # Fido!NoReply => reply.from # "foreign" /\ reply.cmd \notin {"none", "keepalive"}
         /\ KeepAlive.of.cmd = "keepalive" /\ KeepAlive.of.size = 1 /\ KeepAlive.index = 0
         /\ \A k : wire[k] = KeepAlive => ~ OfReply(k)
<1>1. exchangeNo \in {"even", "odd"} /\ reply \in Fido!Message
  BY DEF Fido!TypeOK
<1>2. reply.size \in Nat /\ reply.size <= Fido!MaxSize
  BY <1>1, RoomFacts DEF Fido!Message
<1>3. reply # Fido!NoReply => reply.from # "foreign" /\ reply.cmd \notin {"none", "keepalive"}
  BY <1>1 DEF Replied
<1>4. KeepAlive.of.cmd = "keepalive" /\ KeepAlive.of.size = 1 /\ KeepAlive.index = 0
  BY DEF KeepAlive
<1>5. \A k : wire[k] = KeepAlive => ~ OfReply(k)
  BY <1>3, <1>4 DEF OfReply
<1> QED
  BY <1>1, <1>2, <1>3, <1>4, <1>5

(* Reading a report of this exchange: what it is, and what stays on its way. *)
LEMMA ReadOwn ==
  ASSUME FidoInv, Fido!Read, ~ mixed'
  PROVE  /\ ~ mixed /\ OnTheWay /\ OnTheWay' /\ 1 \in Own /\ Head(wire) = wire[1]
         /\ responseCmd \in {"none", "keepalive"} => NotBegun
         /\ responseCmd \notin {"none", "keepalive"} => Begun
         /\ \A k \in Own' : /\ k + 1 \in Own /\ OfReply(k)' /\ OfReply(k + 1)
                            /\ wire'[k] = wire[k + 1] /\ k \in Nat /\ k > 0
                            /\ OfReply(1) => wire[1].index < wire'[k].index
                            /\ wire'[k].index \in 0 .. Fido!LastIndex(reply.size)
<1>0. FidoTyped /\ Fido!TypeOK /\ wire \in Seq(Report)
  BY DEF FidoInv, FidoTyped
<1>1. /\ phase = "read" /\ wire # <<>> /\ wire' = Tail(wire) /\ UNCHANGED <<exchangeNo, reply>>
      /\ mixed' = (mixed \/ Head(wire).of.from = "foreign")
  BY ReadFacts
<1>2. ~ mixed /\ Head(wire) = wire[1] /\ 1 \in Own
  BY <1>0, <1>1, TakeFacts DEF Own
<1>3. /\ OnTheWay
      /\ responseCmd \in {"none", "keepalive"} => NotBegun
      /\ responseCmd \notin {"none", "keepalive"} => Begun
  BY <1>1, <1>2 DEF FidoInv, Reassembly
<1> DEFINE g == [k \in Own' |-> k + 1]
<1>4. Thinned(g) /\ \A k \in Own' : /\ k + 1 \in Own /\ wire'[k] = wire[k + 1]
                                    /\ k \in Nat /\ k > 0 /\ g[k] = k + 1
  BY <1>0, <1>1, TakeFacts
<1> HIDE DEF g
<1>5. OnTheWay' /\ \A k \in Own' : OfReply(k)' = OfReply(g[k])
  BY <1>1, <1>3, <1>4, ThinnedKeeps
<1>6. ASSUME NEW k \in Own'
      PROVE  /\ OfReply(k)' /\ OfReply(k + 1)
             /\ OfReply(1) => wire[1].index < wire'[k].index
             /\ wire'[k].index \in 0 .. Fido!LastIndex(reply.size)
  <2>1. k + 1 \in Own /\ 1 < k + 1 /\ OfReply(k)' = OfReply(k + 1) /\ wire'[k] = wire[k + 1]
    BY <1>4, <1>5
  <2>2. OfReply(k + 1) /\ (OfReply(1) => wire[1].index < wire[k + 1].index)
    BY <1>2, <1>3, <2>1 DEF OnTheWay
  <2>3. wire[k + 1] # KeepAlive
    BY <1>0, <2>2, ReplyFacts DEF FidoInv
  <2>4. wire[k + 1].index \in 0 .. Fido!LastIndex(reply.size)
    BY <1>3, <2>1, <2>3 DEF OnTheWay
  <2> QED
    BY <2>1, <2>2, <2>4
<1> QED
  BY <1>2, <1>3, <1>4, <1>5, <1>6

LEMMA InitialReassembly ==
  ASSUME FidoInv, Fido!Read, Fido!ReadInitial(Head(wire)), ~ mixed', phase' # "over"
  PROVE  Reassembly'
<1> DEFINE r == Head(wire)
           take == Fido!Smaller(InitRoom, r.of.size)
<1>0. Fido!TypeOK /\ Replied
  BY DEF FidoInv, FidoTyped
<1>1. OnTheWay /\ OnTheWay' /\ 1 \in Own /\ r = wire[1]
  BY ReadOwn
<1>2. /\ r.index = 0 /\ expectedSeq' = 0
      /\ acc' = Fido!Pieces(r, take) /\ remaining' = r.of.size - take /\ responseCmd' = r.of.cmd
      /\ phase' = IF r.of.size - take = 0 /\ r.of.cmd # "keepalive" THEN "judge" ELSE "read"
      /\ UNCHANGED <<exchangeNo, reply>>
  BY CollectedFacts DEF Fido!ReadInitial
<1>3. CASE r = KeepAlive
  <2>1. r.of.size = 1 /\ r.of.cmd = "keepalive"
    BY <1>0, <1>3, ReplyFacts
  <2>2. phase' = "read" /\ responseCmd' = "keepalive"
    BY <1>2, <2>1
  <2>3. ~ OfReply(1)
    BY <1>0, <1>1, <1>3, ReplyFacts
  <2>4. NotBegun
    <3>1. responseCmd \in {"none", "keepalive"}
      <4> SUFFICES ASSUME responseCmd \notin {"none", "keepalive"} PROVE FALSE
        OBVIOUS
      <4>1. Begun
        BY ReadOwn
      <4> QED
        BY <4>1, <1>1, <2>3 DEF Begun
    <3> QED
      BY <3>1, ReadOwn
  <2>5. NotBegun'
    <3> SUFFICES ASSUME NEW k \in Own', OfReply(k)', wire'[k].index > 0
                 PROVE  \E j \in Own' : j < k /\ OfReply(j)' /\ wire'[j].index = 0
      BY DEF NotBegun
    <3>1. k + 1 \in Own /\ OfReply(k + 1) /\ wire[k + 1].index > 0 /\ k \in Nat
      BY ReadOwn
    <3>2. PICK i \in Own : i < k + 1 /\ OfReply(i) /\ wire[i].index = 0
      BY <2>4, <3>1 DEF NotBegun
    <3>3. i # 1 /\ i \in Nat
      BY <2>3, <3>2 DEF Own
    <3>4. i - 1 \in Own' /\ i - 1 + 1 = i /\ i - 1 < k
      BY <3>1, <3>2, <3>3, TakeFacts, ReadFacts DEF FidoInv, FidoTyped
    <3>5. OfReply(i - 1)' /\ wire'[i - 1] = wire[i]
      BY <3>4, ReadOwn
    <3> QED
      BY <3>2, <3>4, <3>5
  <2> QED
    BY <1>1, <2>2, <2>5 DEF Reassembly
<1>4. CASE OfReply(1)
  <2> PICK n \in Nat : n = reply.size
    BY <1>0, ReplyFacts
  <2>1. r.of = reply /\ r.of.size = n /\ responseCmd' = reply.cmd /\ reply # Fido!NoReply
        /\ reply.cmd \notin {"none", "keepalive"}
    BY <1>0, <1>1, <1>2, <1>4, ReplyFacts DEF OfReply
  <2>2. Fido!Base(0) = 0 /\ Fido!Base(1) = InitRoom /\ 0 + 1 = 1
    BY BaseFacts
  <2>3. acc' = [j \in 1 .. take |-> [of |-> reply, at |-> j]]
    <3>1. acc' = [j \in 1 .. take |-> [of |-> reply, at |-> 0 + j]]
      BY <1>2, <2>1, <2>2 DEF Fido!Pieces
    <3>2. take \in Nat
      BY <2>1, RoomFacts DEF Fido!Smaller
    <3>3. \A j \in 1 .. take : 0 + j = j
      BY <3>2
    <3> QED
      BY <3>1, <3>3
  <2>4. \A k \in Own' : OfReply(k)' /\ wire'[k].index > 0
                        /\ wire'[k].index <= Fido!LastIndex(n)
    <3> SUFFICES ASSUME NEW k \in Own'
                 PROVE  OfReply(k)' /\ wire'[k].index > 0 /\ wire'[k].index <= Fido!LastIndex(n)
      OBVIOUS
    <3>1. OfReply(k)' /\ 0 < wire'[k].index /\ wire'[k].index \in 0 .. Fido!LastIndex(n)
      BY <1>1, <1>2, <1>4, ReadOwn
    <3>2. Fido!LastIndex(n) \in Nat
      BY IndexFacts
    <3> QED
      BY <3>1, <3>2
  <2>5. CASE n <= InitRoom
    <3>1. take = n /\ n - take = 0
      BY <2>1, <2>5, RoomFacts DEF Fido!Smaller
    <3>2. phase' = "judge" /\ acc' = Fido!Whole(reply)
      BY <1>2, <2>1, <2>3, <3>1 DEF Fido!Whole
    <3>3. Fido!LastIndex(n) = 0
      BY <2>5 DEF Fido!LastIndex
    <3>4. Own' = {}
      <4> SUFFICES ASSUME NEW k \in Own' PROVE FALSE
        OBVIOUS
      <4>1. wire'[k].index \in Nat
        BY <2>4, ReadOwn, <3>3
      <4> QED
        BY <2>4, <3>3, <4>1
    <3>5. Fido!Whole(reply)' = Fido!Whole(reply)
      BY <1>2 DEF Fido!Whole
    <3> QED
      BY <1>1, <1>2, <2>1, <3>2, <3>4, <3>5 DEF Reassembly
  <2>6. CASE ~ (n <= InitRoom)
    <3>1. take = InitRoom /\ n - InitRoom > 0
      BY <2>1, <2>6, RoomFacts DEF Fido!Smaller
    <3>2. phase' = "read" /\ remaining' = n - InitRoom
      BY <1>2, <2>1, <3>1, RoomFacts
    <3>3. Fido!Base(expectedSeq + 1)' = InitRoom
      BY <1>2, <2>2 DEF Fido!Base
    <3>4. Begun'
      BY <1>2, <2>1, <2>3, <2>4, <3>1, <3>2, <3>3 DEF Begun
    <3> QED
      BY <1>1, <1>2, <2>1, <3>2, <3>4 DEF Reassembly
  <2> QED
    BY <2>5, <2>6
<1> QED
  BY <1>1, <1>3, <1>4 DEF OnTheWay

(* Pieces of a message are a sequence. *)
LEMMA PiecesSeq ==
  ASSUME NEW m, NEW n \in Nat, NEW b \in Nat
  PROVE  /\ [j \in 1 .. n |-> [of |-> m, at |-> b + j]] \in Seq([of : {m}, at : Nat])
         /\ Len([j \in 1 .. n |-> [of |-> m, at |-> b + j]]) = n
         /\ [j \in 1 .. n |-> [of |-> m, at |-> j]] \in Seq([of : {m}, at : Nat])
         /\ Len([j \in 1 .. n |-> [of |-> m, at |-> j]]) = n
<1> DEFINE M == [of : {m}, at : Nat]
           piece(j) == [of |-> m, at |-> j]
           later(j) == [of |-> m, at |-> b + j]
<1>1. \A j \in 1 .. n : piece(j) \in M /\ later(j) \in M
  OBVIOUS
<1> HIDE DEF M, piece, later
<1>2. /\ [j \in 1 .. n |-> piece(j)] \in Seq(M) /\ Len([j \in 1 .. n |-> piece(j)]) = n
      /\ [j \in 1 .. n |-> later(j)] \in Seq(M) /\ Len([j \in 1 .. n |-> later(j)]) = n
  BY <1>1
<1> QED
  BY <1>2 DEF M, piece, later

(* Sequence numbers: a continuation goes on where the data end. *)
LEMMA ContinuationReassembly ==
  ASSUME FidoInv, Fido!Read, Fido!ReadContinuation(Head(wire)), ~ mixed', phase' # "over"
  PROVE  Reassembly'
<1> DEFINE r == Head(wire)
           take == Fido!Smaller(ContRoom, remaining)
<1>0. Fido!TypeOK /\ Replied
  BY DEF FidoInv, FidoTyped
<1>1. OnTheWay /\ OnTheWay' /\ 1 \in Own /\ r = wire[1]
  BY ReadOwn
<1>2. /\ r.index > 0 /\ r.index - 1 = expectedSeq /\ expectedSeq' = expectedSeq + 1
      /\ acc' = acc \o Fido!Pieces(r, take) /\ remaining' = remaining - take
      /\ responseCmd' = responseCmd
      /\ phase' = IF remaining - take = 0 /\ responseCmd # "keepalive" THEN "judge" ELSE "read"
      /\ UNCHANGED <<exchangeNo, reply>>
  BY CollectedFacts DEF Fido!ReadContinuation
<1>3. OfReply(1)
  <2>1. r # KeepAlive
    BY <1>0, <1>2, ReplyFacts
  <2> QED
    BY <1>1, <2>1 DEF OnTheWay
<1>4. Begun
  <2>1. ~ NotBegun
    <3> SUFFICES ASSUME NotBegun PROVE FALSE
      OBVIOUS
    <3>1. PICK j \in Own : j < 1
      BY <1>1, <1>2, <1>3 DEF NotBegun
    <3> QED
      BY <3>1 DEF Own
  <2> QED
    BY <2>1, ReadOwn
<1> PICK n \in Nat : n = reply.size
  BY <1>0, ReplyFacts
<1> PICK i \in Nat : i = r.index
  BY <1>0, <1>1, <1>3, ReplyFacts, IndexFacts DEF OnTheWay
<1> PICK b \in Nat : b = Fido!Base(i)
  BY BaseFacts
<1>5. /\ i > 0 /\ expectedSeq + 1 = i /\ expectedSeq' = i /\ responseCmd = reply.cmd
      /\ reply # Fido!NoReply /\ reply.cmd \notin {"none", "keepalive"}
      /\ acc = [j \in 1 .. b |-> [of |-> reply, at |-> j]]
      /\ remaining = n - b /\ n - b > 0
  <2>1. i > 0 /\ expectedSeq + 1 = i
    <3>1. expectedSeq \in Nat
      <4>1. expectedSeq \in 0 .. SeqLimit
        BY <1>0 DEF Fido!TypeOK
      <4> QED
        BY <4>1
    <3>2. i > 0 /\ i - 1 = expectedSeq
      BY <1>2
    <3> QED
      BY <3>1, <3>2
  <2> QED
    BY <1>0, <1>2, <1>4, <2>1, ReplyFacts DEF Begun
<1>6. Fido!Base(i + 1) = b + ContRoom /\ ContRoom \in Nat /\ ContRoom > 0
  BY <1>5, BaseFacts, RoomFacts
<1>7. /\ take \in Nat /\ take > 0 /\ take <= n - b
      /\ n - b <= ContRoom => take = n - b
      /\ ~ (n - b <= ContRoom) => take = ContRoom
  BY <1>5, <1>6 DEF Fido!Smaller
<1> HIDE DEF take
<1>8. acc' = [j \in 1 .. b + take |-> [of |-> reply, at |-> j]]
  <2> DEFINE M == [of : {reply}, at : Nat]
             p == [j \in 1 .. take |-> [of |-> reply, at |-> b + j]]
             q == [j \in 1 .. b + take |-> [of |-> reply, at |-> j]]
  <2>1. Fido!Pieces(r, take) = p
    BY <1>1, <1>3 DEF Fido!Pieces, OfReply
  <2>2. acc \in Seq(M) /\ Len(acc) = b
    BY <1>5, PiecesSeq
  <2>3. p \in Seq(M) /\ Len(p) = take
    BY <1>7, PiecesSeq
  <2>4. q \in Seq(M) /\ Len(q) = b + take
    <3>1. b + take \in Nat
      BY <1>7
    <3> QED
      BY <3>1, PiecesSeq
  <2>5. /\ acc \o p \in Seq(M) /\ Len(acc \o p) = b + take
        /\ \A j \in 1 .. b + take : (acc \o p)[j] = IF j <= b THEN acc[j] ELSE p[j - b]
    <3> HIDE DEF p, q, M
    <3>1. /\ acc \o p \in Seq(M) /\ Len(acc \o p) = Len(acc) + Len(p)
          /\ \A j \in 1 .. Len(acc) + Len(p) :
               (acc \o p)[j] = IF j <= Len(acc) THEN acc[j] ELSE p[j - Len(acc)]
      BY <2>2, <2>3, ConcatProperties
    <3> QED
      BY <2>2, <2>3, <3>1
  <2>6. \A j \in 1 .. b + take : (acc \o p)[j] = q[j]
    <3> SUFFICES ASSUME NEW j \in 1 .. b + take PROVE (acc \o p)[j] = q[j]
      OBVIOUS
    <3>1. CASE j <= b
      <4>1. j \in 1 .. b
        BY <1>7, <3>1
      <4> QED
        BY <1>5, <2>5, <3>1, <4>1
    <3>2. CASE ~ (j <= b)
      <4>1. j - b \in 1 .. take /\ b + (j - b) = j
        BY <1>7, <3>2
      <4>2. p[j - b] = [of |-> reply, at |-> b + (j - b)]
        BY <4>1
      <4> QED
        BY <2>5, <3>2, <4>1, <4>2
    <3> QED
      BY <3>1, <3>2
  <2>7. acc \o p = q
    <3> HIDE DEF p, q, M
    <3> QED
      BY <2>4, <2>5, <2>6, SeqEqual
  <2> QED
    BY <1>2, <2>1, <2>7
<1>9. \A k \in Own' : OfReply(k)' /\ wire'[k].index > i /\ wire'[k].index \in 0 .. Fido!LastIndex(n)
  BY <1>1, <1>2, <1>3, ReadOwn
<1>10. CASE n - b <= ContRoom
  <2>1. take = n - b /\ b + take = n /\ remaining - take = 0
    BY <1>5, <1>7, <1>10
  <2>2. phase' = "judge" /\ acc' = Fido!Whole(reply)
    BY <1>2, <1>5, <1>8, <2>1 DEF Fido!Whole
  <2>3. Own' = {}
    <3> SUFFICES ASSUME NEW k \in Own' PROVE FALSE
      OBVIOUS
    <3>1. Fido!LastIndex(n) \in Nat /\ wire'[k].index > i /\ wire'[k].index \in 0 .. Fido!LastIndex(n)
      BY <1>9, IndexFacts
    <3>2. i + 1 <= Fido!LastIndex(n)
      BY <3>1
    <3>3. Fido!Base(i + 1) < n
      BY <3>2, IndexFacts
    <3> QED
      BY <1>6, <1>10, <3>3
  <2>4. Fido!Whole(reply)' = Fido!Whole(reply)
    BY <1>2 DEF Fido!Whole
  <2> QED
    BY <1>1, <1>2, <1>5, <2>2, <2>3, <2>4 DEF Reassembly
<1>11. CASE ~ (n - b <= ContRoom)
  <2>1. take = ContRoom /\ remaining' = n - (b + ContRoom) /\ n - (b + ContRoom) > 0
    <3>1. take = ContRoom
      BY <1>5, <1>6, <1>7, <1>11
    <3>2. n - (b + ContRoom) > 0
      BY <1>5, <1>6, <1>7, <1>11
    <3>3. remaining' = n - (b + ContRoom)
      <4>1. remaining' = remaining - take /\ remaining = n - b
        BY <1>2, <1>5
      <4>2. n - b - ContRoom = n - (b + ContRoom)
        BY <1>6
      <4> QED
        BY <3>1, <4>1, <4>2
    <3> QED
      BY <3>1, <3>2, <3>3
  <2>2. phase' = "read"
    BY <1>2, <2>1
  <2>3. Fido!Base(expectedSeq + 1)' = b + ContRoom
    <3>1. Fido!Base(expectedSeq + 1)' = Fido!Base(expectedSeq' + 1)
      BY DEF Fido!Base
    <3> QED
      BY <3>1, <1>5, <1>6
  <2>4. Begun'
    BY <1>2, <1>5, <1>8, <1>9, <2>1, <2>3 DEF Begun
  <2> QED
    BY <1>1, <1>2, <1>5, <2>2, <2>4 DEF Reassembly
<1> QED
  BY <1>10, <1>11

LEMMA ReadReassembly ==
  ASSUME FidoInv, Fido!Read
  PROVE  Reassembly'
<1>1. CASE mixed' \/ phase' = "over"
  BY <1>1 DEF Reassembly
<1>2. CASE ~ (mixed' \/ phase' = "over")
  <2>1. ~ Fido!ReadOutOfSequence(Head(wire))
    BY <1>2 DEF Fido!ReadOutOfSequence, Fido!Over
  <2> QED
    BY <1>2, <2>1, InitialReassembly, ContinuationReassembly DEF Fido!Read
<1> QED
  BY <1>1, <1>2

(* The device says that it is at work, to a host that waits. *)
LEMMA KeepAliveReports ==
  ASSUME FidoInv
  PROVE  /\ KeepAlive.of \in Fido!Message /\ Fido!Reports(KeepAlive.of) \in Seq(Report)
         /\ Len(Fido!Reports(KeepAlive.of)) = 1 /\ Fido!Reports(KeepAlive.of)[1] = KeepAlive
<1>1. exchangeNo \in Fido!Source
  BY DEF FidoInv, FidoTyped, Fido!TypeOK, Fido!Source
<1>2. KeepAlive.of \in Fido!Message /\ KeepAlive.of.size = 1
  BY <1>1, RoomFacts DEF KeepAlive, Fido!Message, Fido!Command, Fido!Status
<1>3. Fido!LastIndex(1) = 0
  BY RoomFacts DEF Fido!LastIndex
<1>4. /\ Fido!Reports(KeepAlive.of) \in Seq(Report)
      /\ Len(Fido!Reports(KeepAlive.of)) = 0 + 1
      /\ \A k \in 1 .. 0 + 1 : Fido!Reports(KeepAlive.of)[k] = [of |-> KeepAlive.of, index |-> k - 1]
  <2> HIDE DEF KeepAlive
  <2> QED
    BY <1>2, <1>3, ReportsFacts
<1>5. Fido!Reports(KeepAlive.of)[1] = [of |-> KeepAlive.of, index |-> 0]
  BY <1>4
<1> QED
  BY <1>2, <1>4, <1>5 DEF KeepAlive

LEMMA KeepAliveReassembly ==
  ASSUME FidoInv, Fido!DeviceKeepsAlive
  PROVE  Reassembly' /\ wire' \in Seq(Report)
<1>1. /\ wire' = Fido!Reports(KeepAlive.of) /\ reply = Fido!NoReply /\ Fido!RequestHeard
      /\ UNCHANGED <<turn, phase, request, acc, remaining, expectedSeq, responseCmd,
                     exchangeNo, reply, mixed>>
  BY DEF Fido!DeviceKeepsAlive, KeepAlive, Fido!device, Fido!Unchanged, Fido!reading
<1>2. wire' \in Seq(Report) /\ Len(wire') = 1 /\ wire'[1] = KeepAlive
  BY <1>1, KeepAliveReports
<1>3. phase # "write"
  <2>1. Len(request) = Fido!LastIndex(Size) + 1 /\ Fido!LastIndex(Size) \in Nat
    BY <1>1, HeardFacts, SizeFacts, RoomFacts DEF FidoInv, FidoTyped
  <2> QED
    BY <2>1 DEF FidoInv, Requested
<1>4. ASSUME ~ mixed, phase # "over" PROVE phase = "read" /\ responseCmd \in {"none", "keepalive"}
  BY <1>1, <1>3, <1>4 DEF FidoInv, FidoTyped, Fido!TypeOK, Reassembly, Begun
<1>5. KeepAlive' = KeepAlive /\ \A k : ~ OfReply(k)'
  BY <1>1 DEF KeepAlive, OfReply
<1>6. \A k \in Own' : k = 1
  BY <1>2 DEF Own
<1>7. OnTheWay'
  BY <1>2, <1>5, <1>6 DEF OnTheWay
<1>8. NotBegun'
  BY <1>5 DEF NotBegun
<1> QED
  BY <1>1, <1>2, <1>4, <1>7, <1>8 DEF Reassembly

(* The reply follows what is on its way, which is a keepalive at most. *)
LEMMA ReplyReassembly ==
  ASSUME FidoInv, Fido!DeviceReplies
  PROVE  Reassembly' /\ wire' \in Seq(Report)
<1> PICK m \in Fido!Replies :
      m.from = exchangeNo /\ reply' = m /\ wire' = wire \o Fido!Reports(m)
  BY DEF Fido!DeviceReplies
<1>0. FidoTyped /\ Fido!TypeOK /\ Replied /\ wire \in Seq(Report)
  BY DEF FidoInv, FidoTyped
<1>1. /\ reply = Fido!NoReply /\ Fido!RequestHeard
      /\ UNCHANGED <<turn, phase, request, acc, remaining, expectedSeq, responseCmd, exchangeNo, mixed>>
  BY DEF Fido!DeviceReplies, Fido!Unchanged, Fido!reading
<1>2. m \in Fido!Message /\ m.cmd \in {"init", "msg", "error", "other"}
  BY RepliesFacts
<1> PICK n \in Nat : n = Len(wire)
  BY <1>0
<1> PICK l \in Nat : l = Fido!LastIndex(m.size)
  BY <1>2, ReportsFacts, RoomFacts
<1>3. /\ wire' \in Seq(Report) /\ Len(wire') = n + (l + 1)
      /\ \A k \in 1 .. n : wire'[k] = wire[k]
      /\ \A k \in 1 .. l + 1 : wire'[n + k] = [of |-> m, index |-> k - 1]
  <2> DEFINE q == Fido!Reports(m)
  <2>1. q \in Seq(Report) /\ Len(q) = l + 1
        /\ \A k \in 1 .. l + 1 : q[k] = [of |-> m, index |-> k - 1]
    BY <1>2, ReportsFacts
  <2> HIDE DEF q
  <2>2. /\ wire \o q \in Seq(Report) /\ Len(wire \o q) = Len(wire) + Len(q)
        /\ \A k \in 1 .. Len(wire) + Len(q) :
             (wire \o q)[k] = IF k <= Len(wire) THEN wire[k] ELSE q[k - Len(wire)]
    BY <1>0, <2>1, ConcatProperties
  <2>3. \A k \in 1 .. n : (wire \o q)[k] = wire[k]
    BY <2>1, <2>2
  <2>4. \A k \in 1 .. l + 1 : n + k \in 1 .. n + (l + 1) /\ ~ (n + k <= n) /\ n + k - n = k
    OBVIOUS
  <2>5. \A k \in 1 .. l + 1 : (wire \o q)[n + k] = q[k]
    BY <2>1, <2>2, <2>4
  <2>6. wire' = wire \o q
    BY DEF q
  <2> QED
    BY <2>1, <2>2, <2>3, <2>5, <2>6
<1>4. phase # "write"
  <2>1. Len(request) = Fido!LastIndex(Size) + 1 /\ Fido!LastIndex(Size) \in Nat
    BY <1>0, <1>1, HeardFacts, SizeFacts, RoomFacts DEF FidoInv
  <2> QED
    BY <2>1 DEF FidoInv, Requested
<1> SUFFICES ASSUME ~ mixed, phase # "over" PROVE Reassembly'
  BY <1>1, <1>3 DEF Reassembly
<1>5. phase = "read" /\ responseCmd \in {"none", "keepalive"} /\ OnTheWay
  BY <1>0, <1>1, <1>4 DEF FidoInv, Fido!TypeOK, Reassembly, Begun
<1>6. \A k \in Own : wire[k] = KeepAlive
  BY <1>1, <1>5 DEF OnTheWay, OfReply
<1>7. \A j, k \in Own : ~ (j < k)
  BY <1>1, <1>5 DEF OnTheWay, OfReply
<1>8. /\ KeepAlive' = KeepAlive /\ reply' = m /\ m # Fido!NoReply
      /\ \A k : OfReply(k)' <=> wire'[k].of = m
  <2>1. m # Fido!NoReply
    BY <1>2 DEF Fido!NoReply
  <2> QED
    BY <1>1, <2>1 DEF KeepAlive, OfReply
<1>9. ASSUME NEW k \in Own'
      PROVE  \/ k \in Own /\ k \in 1 .. n /\ wire'[k] = KeepAlive
             \/ /\ k \in n + 1 .. n + (l + 1) /\ OfReply(k)'
                /\ wire'[k].index = k - n - 1
  <2>1. k \in 1 .. n + (l + 1) /\ wire'[k].of.from # "foreign"
    BY <1>3 DEF Own
  <2>2. CASE k \in 1 .. n
    BY <1>3, <1>6, <2>1, <2>2 DEF Own
  <2>3. CASE k \notin 1 .. n
    <3>1. k - n \in 1 .. l + 1 /\ n + (k - n) = k
      BY <2>1, <2>3
    <3>2. wire'[k] = [of |-> m, index |-> k - n - 1]
      BY <1>3, <3>1
    <3>3. wire'[k].of = m /\ wire'[k].index = k - n - 1
      BY <3>2
    <3>4. k \in n + 1 .. n + (l + 1)
      BY <2>1, <2>3
    <3> QED
      BY <1>8, <3>3, <3>4
  <2> QED
    BY <2>2, <2>3
<1>10. \A k \in n + 1 .. n + (l + 1) : k - n - 1 \in 0 .. l
  OBVIOUS
<1>11. OnTheWay'
  <2>1. Fido!LastIndex(reply.size)' = l
    BY <1>8 DEF Fido!LastIndex
  <2>2. \A k \in Own' : wire'[k] = KeepAlive' \/ (OfReply(k)' /\ wire'[k].index \in 0 .. l)
    BY <1>8, <1>9, <1>10
  <2>3. ASSUME NEW j \in Own', NEW k \in Own', j < k
        PROVE  OfReply(k)' /\ (OfReply(j)' => wire'[j].index < wire'[k].index)
    <3>1. k \notin Own \/ j \notin Own
      BY <1>7, <2>3
    <3>2. OfReply(k)' /\ k \in n + 1 .. n + (l + 1) /\ wire'[k].index = k - n - 1
      <4>1. CASE k \notin Own
        BY <1>9, <4>1
      <4>2. CASE j \notin Own
        <5>1. j \in n + 1 .. n + (l + 1)
          BY <1>9, <4>2
        <5>2. k \notin 1 .. n
          BY <2>3, <5>1
        <5> QED
          BY <1>9, <5>2
      <4> QED
        BY <3>1, <4>1, <4>2
    <3>3. CASE j \in 1 .. n /\ wire'[j] = KeepAlive
      <4>1. KeepAlive.of.cmd = "keepalive"
        BY DEF KeepAlive
      <4>2. ~ OfReply(j)'
        BY <1>2, <1>8, <3>3, <4>1
      <4> QED
        BY <3>2, <4>2
    <3>4. CASE j \in n + 1 .. n + (l + 1) /\ wire'[j].index = j - n - 1
      BY <2>3, <3>2, <3>4
    <3> QED
      BY <1>9, <3>3, <3>4
  <2> QED
    BY <2>1, <2>2, <2>3 DEF OnTheWay
<1>12. NotBegun'
  <2> SUFFICES ASSUME NEW k \in Own', OfReply(k)', wire'[k].index > 0
               PROVE  \E j \in Own' : j < k /\ OfReply(j)' /\ wire'[j].index = 0
    BY DEF NotBegun
  <2>1. wire'[k] # KeepAlive
    <3>1. KeepAlive.index = 0 /\ ~ (0 > 0)
      BY DEF KeepAlive
    <3>2. wire'[k].index # 0
      BY <3>1
    <3> QED
      BY <3>1, <3>2
  <2>2. k \in n + 1 .. n + (l + 1) /\ wire'[k].index = k - n - 1
    BY <1>9, <2>1
  <2>3. n + 1 < k
    BY <2>2
  <2>4. wire'[n + 1] = [of |-> m, index |-> 0]
    <3>1. 1 \in 1 .. l + 1 /\ 1 - 1 = 0
      OBVIOUS
    <3> QED
      BY <1>3, <3>1
  <2>5. m.from # "foreign"
    BY <1>0 DEF Fido!TypeOK
  <2>6. n + 1 \in Own'
    BY <1>3, <2>4, <2>5 DEF Own
  <2>7. OfReply(n + 1)' /\ wire'[n + 1].index = 0
    <3>1. wire'[n + 1].of = m /\ wire'[n + 1].index = 0
      BY <2>4
    <3> QED
      BY <1>8, <3>1
  <2> QED
    BY <2>3, <2>6, <2>7
<1> QED
  BY <1>1, <1>5, <1>11, <1>12 DEF Reassembly

(* A report of another channel moves those behind it by one place. *)
LEMMA ForeignReassembly ==
  ASSUME FidoInv, Fido!ForeignReport
  PROVE  Reassembly' /\ wire' \in Seq(Report)
<1> PICK r \in Fido!Strays, i \in 0 .. Len(wire) :
      wire' = SubSeq(wire, 1, i) \o <<r>> \o SubSeq(wire, i + 1, Len(wire))
  BY DEF Fido!ForeignReport
<1>0. wire \in Seq(Report)
  BY DEF FidoInv, FidoTyped
<1>1. UNCHANGED <<turn, phase, request, acc, remaining, expectedSeq, responseCmd, exchangeNo,
                  reply, mixed>>
  BY DEF Fido!ForeignReport, Fido!Unchanged, Fido!reading
<1> PICK n \in Nat : n = Len(wire)
  BY <1>0
<1>2. i \in Nat /\ i <= n
  OBVIOUS
<1>3. r \in Report /\ r.of.from = "foreign"
  BY RoomFacts DEF Fido!Strays, Report
<1>4. /\ wire' \in Seq(Report) /\ Len(wire') = n + 1 /\ wire'[i + 1] = r
      /\ \A k \in 1 .. i : wire'[k] = wire[k]
      /\ \A k \in i + 2 .. n + 1 : wire'[k] = wire[k - 1]
  <2> DEFINE a == SubSeq(wire, 1, i)
             b == SubSeq(wire, i + 1, n)
             c == a \o <<r>>
  <2>0. \A k \in 1 .. n : wire[k] \in Report
    BY <1>0
  <2>1. a \in Seq(Report) /\ Len(a) = i /\ \A k \in 1 .. i : a[k] = wire[k]
    BY <1>2, <2>0, SubSeqProperties
  <2>2. b \in Seq(Report) /\ Len(b) = n - i /\ \A k \in 1 .. n - i : b[k] = wire[i + k]
    <3>1. /\ b \in Seq(Report) /\ Len(b) = IF i + 1 <= n THEN n - (i + 1) + 1 ELSE 0
          /\ \A k \in 1 .. n - (i + 1) + 1 : b[k] = wire[i + 1 + k - 1]
      <4>1. i + 1 \in Int /\ n \in Int /\ \A k \in i + 1 .. n : wire[k] \in Report
        BY <1>2, <2>0
      <4> QED
        BY <4>1, SubSeqProperties
    <3>2. /\ n - (i + 1) + 1 = n - i /\ \A k \in Nat : i + 1 + k - 1 = i + k
          /\ (IF i + 1 <= n THEN n - (i + 1) + 1 ELSE 0) = n - i
      BY <1>2
    <3> HIDE DEF b
    <3>3. \A k \in 1 .. n - i : b[k] = wire[i + 1 + k - 1]
      BY <3>1, <3>2
    <3>4. \A k \in 1 .. n - i : b[k] = wire[i + k]
      <4> SUFFICES ASSUME NEW k \in 1 .. n - i PROVE b[k] = wire[i + k]
        OBVIOUS
      <4>1. i + 1 + k - 1 = i + k
        BY <1>2
      <4> QED
        BY <3>3, <4>1
    <3> QED
      BY <3>1, <3>2, <3>4
  <2> HIDE DEF a, b
  <2>3. c = Append(a, r)
    BY <1>3, <2>1, AppendIsConcat DEF c
  <2> HIDE DEF c
  <2>4. /\ c \in Seq(Report) /\ Len(c) = i + 1 /\ c[i + 1] = r
        /\ \A k \in 1 .. i : c[k] = wire[k]
    BY <1>3, <2>1, <2>3, AppendProperties
  <2>5. wire' = c \o b
    BY DEF a, b, c
  <2>6. /\ c \o b \in Seq(Report) /\ Len(c \o b) = Len(c) + Len(b)
        /\ \A k \in 1 .. Len(c) + Len(b) : (c \o b)[k] = IF k <= Len(c) THEN c[k] ELSE b[k - Len(c)]
    BY <2>2, <2>4, ConcatProperties
  <2>7. Len(c) + Len(b) = n + 1 /\ Len(c) = i + 1
    BY <1>2, <2>2, <2>4
  <2>8. \A k \in 1 .. i + 1 : (c \o b)[k] = c[k]
    BY <1>2, <2>6, <2>7
  <2>9. \A k \in i + 2 .. n + 1 : (c \o b)[k] = wire[k - 1]
    <3> SUFFICES ASSUME NEW k \in i + 2 .. n + 1 PROVE (c \o b)[k] = wire[k - 1]
      OBVIOUS
    <3>1. k \in 1 .. n + 1 /\ ~ (k <= i + 1) /\ k - (i + 1) \in 1 .. n - i /\ i + (k - (i + 1)) = k - 1
      BY <1>2
    <3>2. (c \o b)[k] = b[k - (i + 1)]
      BY <2>6, <2>7, <3>1
    <3>3. b[k - (i + 1)] = wire[i + (k - (i + 1))]
      BY <2>2, <3>1
    <3> QED
      BY <3>1, <3>2, <3>3
  <2>10. i + 1 \in 1 .. i + 1 /\ \A k \in 1 .. i : k \in 1 .. i + 1
    BY <1>2
  <2>11. (c \o b)[i + 1] = r /\ \A k \in 1 .. i : (c \o b)[k] = wire[k]
    BY <2>4, <2>8, <2>10
  <2>12. c \o b \in Seq(Report) /\ Len(c \o b) = n + 1
    BY <2>6, <2>7
  <2> QED
    BY <2>5, <2>9, <2>11, <2>12
<1> DEFINE g == [k \in Own' |-> IF k <= i THEN k ELSE k - 1]
           At(j) == IF j <= i THEN j ELSE j + 1
<1>5. ASSUME NEW k \in Own'
      PROVE  /\ k \in Nat /\ k # i + 1 /\ g[k] \in Own /\ wire'[k] = wire[g[k]]
             /\ g[k] = IF k <= i THEN k ELSE k - 1
  <2>1. k \in 1 .. n + 1 /\ wire'[k].of.from # "foreign"
    BY <1>4 DEF Own
  <2>2. k # i + 1
    BY <1>3, <1>4, <2>1
  <2>3. CASE k <= i
    <3>1. k \in 1 .. i /\ k \in 1 .. n /\ k \in Nat
      BY <1>2, <2>1, <2>3
    <3>2. wire'[k] = wire[k] /\ k \in Own
      BY <1>4, <2>1, <3>1 DEF Own
    <3> QED
      BY <2>2, <2>3, <3>1, <3>2
  <2>4. CASE ~ (k <= i)
    <3>1. k \in i + 2 .. n + 1 /\ k - 1 \in 1 .. n /\ k \in Nat
      BY <1>2, <2>1, <2>2, <2>4
    <3>2. wire'[k] = wire[k - 1]
      BY <1>4, <3>1
    <3>3. k - 1 \in Own
      BY <2>1, <3>1, <3>2 DEF Own
    <3> QED
      BY <2>2, <2>4, <3>1, <3>2, <3>3
  <2> QED
    BY <2>3, <2>4
<1>6. ASSUME NEW j \in Own
      PROVE  j \in Nat /\ At(j) \in Own' /\ wire'[At(j)] = wire[j]
  <2>1. j \in 1 .. n /\ wire[j].of.from # "foreign"
    BY DEF Own
  <2>2. CASE j <= i
    <3>1. j \in 1 .. i /\ j \in 1 .. n + 1 /\ j \in Nat
      BY <1>2, <2>1, <2>2
    <3>2. wire'[j] = wire[j]
      BY <1>4, <3>1
    <3>3. j \in Own'
      BY <1>4, <2>1, <3>1, <3>2 DEF Own
    <3> QED
      BY <2>2, <3>1, <3>2, <3>3
  <2>3. CASE ~ (j <= i)
    <3>1. j + 1 \in i + 2 .. n + 1 /\ j + 1 \in 1 .. n + 1 /\ j + 1 - 1 = j /\ j \in Nat
      BY <1>2, <2>1, <2>3
    <3>2. wire'[j + 1] = wire[j]
      <4> PICK m \in i + 2 .. n + 1 : m = j + 1
        BY <3>1
      <4>1. wire'[m] = wire[m - 1]
        BY <1>4
      <4>2. m - 1 = j
        BY <3>1
      <4> QED
        BY <4>1, <4>2
    <3>3. j + 1 \in Own'
      BY <1>4, <2>1, <3>1, <3>2 DEF Own
    <3> QED
      BY <2>3, <3>1, <3>2, <3>3
  <2> QED
    BY <2>2, <2>3
<1>7. Thinned(g)
  <2> HIDE DEF g
  <2>1. ASSUME NEW j \in Own', NEW k \in Own', j < k PROVE g[j] < g[k]
    <3>1. /\ j \in Nat /\ j # i + 1 /\ g[j] = IF j <= i THEN j ELSE j - 1
          /\ k \in Nat /\ k # i + 1 /\ g[k] = IF k <= i THEN k ELSE k - 1
      BY <1>5
    <3> QED
      BY <1>2, <2>1, <3>1
  <2> QED
    BY <1>5, <2>1 DEF Thinned
<1> SUFFICES ASSUME ~ mixed, phase # "over" PROVE Reassembly'
  BY <1>1, <1>4 DEF Reassembly
<1>8. OnTheWay
  BY DEF FidoInv, Reassembly
<1> HIDE DEF g
<1>9. OnTheWay' /\ \A k \in Own' : OfReply(k)' = OfReply(g[k])
  BY <1>1, <1>7, <1>8, ThinnedKeeps
<1>10. Own = {} => Own' = {}
  BY <1>5
<1>11. NotBegun => NotBegun'
  <2> SUFFICES ASSUME NotBegun, NEW k \in Own', OfReply(k)', wire'[k].index > 0
               PROVE  \E j \in Own' : j < k /\ OfReply(j)' /\ wire'[j].index = 0
    BY DEF NotBegun
  <2>1. PICK j \in Own : j < g[k] /\ OfReply(j) /\ wire[j].index = 0
    BY <1>5, <1>9 DEF NotBegun
  <2>2. At(j) \in Own' /\ wire'[At(j)] = wire[j] /\ j \in Nat
    BY <1>6
  <2>3. At(j) < k
    <3>1. k \in Nat /\ k # i + 1 /\ g[k] = IF k <= i THEN k ELSE k - 1
      BY <1>5
    <3> QED
      BY <1>2, <2>1, <2>2, <3>1
  <2>4. OfReply(At(j))'
    BY <1>1, <2>1, <2>2 DEF OfReply
  <2> HIDE DEF At
  <2> QED
    BY <2>1, <2>2, <2>3, <2>4
<1>12. Begun => Begun'
  <2>1. Begun => \A k \in Own' : OfReply(k)' /\ wire'[k].index > expectedSeq
    BY <1>5, <1>9 DEF Begun
  <2>2. Fido!Base(expectedSeq + 1)' = Fido!Base(expectedSeq + 1)
    BY <1>1 DEF Fido!Base
  <2> QED
    BY <1>1, <2>1, <2>2 DEF Begun
<1>13. Fido!Whole(reply)' = Fido!Whole(reply)
  BY <1>1 DEF Fido!Whole
<1>14. Reassembly
  BY DEF FidoInv
<1> QED
  BY <1>1, <1>9, <1>10, <1>11, <1>12, <1>13, <1>14 DEF Reassembly

LEMMA ReassemblyNext ==
  ASSUME FidoInv, Fido!Next
  PROVE  Reassembly' /\ wire' \in Seq(Report)
<1>0. Fido!TypeOK /\ wire \in Seq(Report) /\ Reassembly
  BY DEF FidoInv, FidoTyped
<1>1. CASE Fido!Read
  BY <1>0, <1>1, ReadReassembly, ReadFacts, TakeFacts
<1>2. CASE Fido!Write
  <2>1. /\ phase = "write" /\ phase' \in {"write", "read"} /\ responseCmd' = "none"
        /\ UNCHANGED <<wire, exchangeNo, reply, mixed>>
    BY <1>2 DEF Fido!Write, Fido!device
  <2>2. ~ mixed => Own = {}
    BY <2>1 DEF FidoInv, Reassembly
  <2>3. Own' = Own
    BY <2>1 DEF Own
  <2>4. Own' = {} => OnTheWay' /\ NotBegun'
    BY DEF OnTheWay, NotBegun
  <2> QED
    BY <1>0, <2>1, <2>2, <2>3, <2>4 DEF Reassembly
<1>3. CASE Fido!JudgeInit \/ Fido!JudgeVersion \/ Fido!Poll
  <2>1. phase = "judge" /\ UNCHANGED <<wire, mixed>> /\ phase' \in {"over", "write"}
    BY <1>0, <1>3, JudgeFacts DEF Stops, GoesOn, Fido!Exchange
  <2>2. ~ mixed => Own = {}
    BY <2>1 DEF FidoInv, Reassembly
  <2>3. Own' = Own
    BY <2>1 DEF Own
  <2>4. Own' = {} => OnTheWay'
    BY DEF OnTheWay
  <2> QED
    BY <1>0, <2>1, <2>2, <2>3, <2>4 DEF Reassembly
<1>4. CASE Fido!ReadTimeout \/ Fido!HidFails
  BY <1>0, <1>4 DEF Fido!ReadTimeout, Fido!HidFails, Fido!Over, Reassembly
<1>5. CASE Fido!DeadlinePasses
  <2>1. UNCHANGED <<phase, wire, acc, remaining, expectedSeq, responseCmd, exchangeNo, reply, mixed>>
    BY <1>5 DEF Fido!DeadlinePasses, Fido!reading, Fido!device
  <2>2. Own' = Own /\ KeepAlive' = KeepAlive /\ \A k : OfReply(k)' = OfReply(k)
    BY <2>1 DEF Own, KeepAlive, OfReply
  <2>3. OnTheWay => OnTheWay'
    BY <2>1, <2>2 DEF OnTheWay, Fido!LastIndex
  <2>4. NotBegun => NotBegun'
    BY <2>1, <2>2 DEF NotBegun
  <2>5. Begun => Begun'
    BY <2>1, <2>2 DEF Begun, Fido!Base
  <2>6. Fido!Whole(reply)' = Fido!Whole(reply)
    BY <2>1 DEF Fido!Whole
  <2> QED
    BY <1>0, <2>1, <2>2, <2>3, <2>4, <2>5, <2>6 DEF Reassembly
<1> QED
  BY <1>1, <1>2, <1>3, <1>4, <1>5, KeepAliveReassembly, ReplyReassembly, ForeignReassembly
  DEF Fido!Next, Fido!HostStep

-----------------------------------------------------------------------------
(* Ordered: what is put together, whatever is read. *)
LEMMA PiecesFacts ==
  ASSUME NEW r \in Report, NEW n \in Nat
  PROVE  /\ Fido!Pieces(r, n) \in Seq(Piece) /\ Len(Fido!Pieces(r, n)) = n
         /\ \A j \in 1 .. n : Fido!Pieces(r, n)[j] = [of |-> r.of, at |-> Fido!Base(r.index) + j]
<1>1. r.of \in Fido!Message /\ r.index \in Nat
  BY RoomFacts DEF Report
<1> PICK b \in Nat : b = Fido!Base(r.index)
  BY <1>1, BaseFacts
<1> DEFINE piece(j) == [of |-> r.of, at |-> b + j]
<1>2. \A j \in 1 .. n : piece(j) \in Piece
  BY <1>1 DEF Piece
<1>3. Fido!Pieces(r, n) = [j \in 1 .. n |-> piece(j)]
  BY DEF Fido!Pieces
<1> HIDE DEF piece
<1>4. Fido!Pieces(r, n) \in Seq(Piece) /\ Len(Fido!Pieces(r, n)) = n
  BY <1>2, <1>3
<1>5. \A j \in 1 .. n : Fido!Pieces(r, n)[j] = piece(j)
  BY <1>3
<1> QED
  BY <1>4, <1>5 DEF piece

(* An initial report begins the data anew. *)
LEMMA InitialOrdered ==
  ASSUME FidoTyped, Fido!Read, Fido!ReadInitial(Head(wire))
  PROVE  Ordered'
<1> PICK r \in Report : r = Head(wire)
  BY ReadFacts, HeadTailProperties DEF FidoTyped
<1> PICK n \in Nat : n = r.of.size
  BY RoomFacts DEF Report, Fido!Message
<1> PICK take : take = Fido!Smaller(InitRoom, n)
  OBVIOUS
<1>1. /\ take \in Nat /\ take <= n /\ take <= InitRoom
      /\ n > 0 => take > 0
      /\ n - take > 0 => take = InitRoom
  BY RoomFacts DEF Fido!Smaller
<1>2. /\ r.index = 0 /\ expectedSeq' = 0 /\ acc' = Fido!Pieces(r, take)
      /\ remaining' = n - take /\ responseCmd' = r.of.cmd
      /\ phase' = "judge" => n - take = 0
  BY CollectedFacts DEF Fido!ReadInitial
<1>3. Fido!Base(0) = 0 /\ Fido!Base(1) = InitRoom /\ 0 + 1 = 1
  BY BaseFacts
<1>4. /\ acc' \in Seq(Piece) /\ Len(acc') = take
      /\ \A j \in 1 .. take : acc'[j] = [of |-> r.of, at |-> 0 + j]
  <2>1. /\ Fido!Pieces(r, take) \in Seq(Piece) /\ Len(Fido!Pieces(r, take)) = take
        /\ \A j \in 1 .. take :
             Fido!Pieces(r, take)[j] = [of |-> r.of, at |-> Fido!Base(r.index) + j]
    BY <1>1, PiecesFacts
  <2>2. Fido!Base(r.index) = 0 /\ acc' = Fido!Pieces(r, take)
    BY <1>2, <1>3
  <2> QED
    BY <2>1, <2>2
<1>5. \A j \in 1 .. take : acc'[j].of = r.of /\ acc'[j].at = j
  BY <1>1, <1>4
<1>6. CASE acc' = <<>>
  <2>1. take = 0 /\ n - take = 0
    BY <1>1, <1>4, <1>6
  <2>2. remaining' = 0 /\ ~ (remaining' > 0)
    BY <1>2, <2>1
  <2>3. acc' \in Seq(Piece) /\ \A j \in 1 .. Len(acc') : acc'[j].at = j
    BY <1>4, <1>5
  <2> QED
    BY <1>6, <2>2, <2>3 DEF Ordered
<1>7. CASE acc' # <<>>
  <2>1. 1 \in 1 .. take
    BY <1>1, <1>4, <1>7, EmptySeq
  <2>2. acc'[1].of = r.of
    BY <1>5, <2>1
  <2>3. n = take + (n - take)
    BY <1>1
  <2>4. n - take > 0 => take = Fido!Base(expectedSeq + 1)'
    BY <1>1, <1>2, <1>3 DEF Fido!Base
  <2> QED
    BY <1>2, <1>4, <1>5, <1>7, <2>2, <2>3, <2>4 DEF Ordered
<1> QED
  BY <1>6, <1>7

(* A continuation that is taken begins where the data end, if it adds any. *)
LEMMA ContinuationOrdered ==
  ASSUME FidoTyped, Ordered, Fido!Read, Fido!ReadContinuation(Head(wire))
  PROVE  Ordered'
<1> PICK r \in Report : r = Head(wire)
  BY ReadFacts, HeadTailProperties DEF FidoTyped
<1>0. remaining \in Nat /\ expectedSeq \in Nat
  <2>1. remaining \in 0 .. Fido!MaxSize /\ expectedSeq \in 0 .. SeqLimit
    BY DEF FidoTyped, Fido!TypeOK
  <2> QED
    BY <2>1, RoomFacts
<1> PICK left_1 \in Nat : left_1 = remaining
  BY <1>0
<1> PICK take : take = Fido!Smaller(ContRoom, left_1)
  OBVIOUS
<1>1. /\ take \in Nat /\ take <= left_1
      /\ left_1 > 0 => take > 0
      /\ left_1 - take > 0 => take = ContRoom
  BY RoomFacts DEF Fido!Smaller
<1>2. /\ r.index > 0 /\ r.index - 1 = expectedSeq /\ expectedSeq' = expectedSeq + 1
      /\ acc' = acc \o Fido!Pieces(r, take) /\ remaining' = left_1 - take
      /\ responseCmd' = responseCmd
      /\ phase' = "judge" => left_1 - take = 0
  BY CollectedFacts DEF Fido!ReadContinuation
<1>3. Fido!Pieces(r, take) \in Seq(Piece) /\ Len(Fido!Pieces(r, take)) = take
  BY <1>1, PiecesFacts
<1> PICK p \in Seq(Piece) : p = Fido!Pieces(r, take)
  BY <1>3
<1> PICK n \in Nat : n = Len(acc)
  BY DEF Ordered
<1>4. /\ acc' \in Seq(Piece) /\ Len(acc') = n + take
      /\ \A j \in 1 .. n + take : acc'[j] = IF j <= n THEN acc[j] ELSE p[j - n]
  <2>1. acc \in Seq(Piece)
    BY DEF Ordered
  <2>2. /\ acc \o p \in Seq(Piece) /\ Len(acc \o p) = Len(acc) + Len(p)
        /\ \A j \in 1 .. Len(acc) + Len(p) :
             (acc \o p)[j] = IF j <= Len(acc) THEN acc[j] ELSE p[j - Len(acc)]
    BY <2>1, ConcatProperties
  <2>3. acc' = acc \o p /\ Len(p) = take /\ Len(acc) = n
    BY <1>2, <1>3
  <2> QED
    BY <2>2, <2>3
<1>5. CASE left_1 = 0
  <2>1. take = 0 /\ left_1 - take = 0 /\ n + take = n
    BY <1>1, <1>5
  <2>2. acc' = acc
    <3>1. acc' \in Seq(Piece) /\ acc \in Seq(Piece) /\ Len(acc') = Len(acc)
      BY <1>4, <2>1 DEF Ordered
    <3>2. \A j \in 1 .. Len(acc) : acc'[j] = acc[j]
      BY <1>4, <2>1
    <3> QED
      BY <3>1, <3>2, SeqEqual
  <2>3. remaining' = 0 /\ remaining = 0
    BY <1>2, <1>5, <2>1
  <2> QED
    BY <1>2, <2>2, <2>3 DEF Ordered
<1>6. CASE left_1 > 0
  <2>1. r.index \in Nat /\ expectedSeq + 1 = r.index
    <3>1. r.index \in Nat
      <4>1. r.index \in 0 .. SeqLimit
        BY DEF Report
      <4> QED
        BY <4>1, RoomFacts
    <3>2. r.index - 1 = expectedSeq
      BY <1>2
    <3> QED
      BY <1>0, <3>1, <3>2
  <2> PICK i \in Nat : i = r.index
    BY <2>1
  <2>2. n = Fido!Base(i)
    BY <1>6, <2>1 DEF Ordered
  <2>3. \A j \in 1 .. take : p[j] = [of |-> r.of, at |-> n + j]
    BY <1>1, <2>2, PiecesFacts
  <2>4. ASSUME NEW j \in 1 .. n + take PROVE acc'[j].at = j
    <3>1. CASE j <= n
      <4>1. j \in 1 .. n
        BY <1>1, <3>1
      <4> QED
        BY <1>4, <3>1, <4>1 DEF Ordered
    <3>2. CASE ~ (j <= n)
      <4>1. j - n \in 1 .. take /\ n + (j - n) = j
        BY <1>1, <3>2
      <4> QED
        <5>1. p[j - n] = [of |-> r.of, at |-> n + (j - n)]
          BY <2>3, <4>1
        <5>2. acc'[j] = p[j - n]
          BY <1>4, <3>2
        <5> QED
          BY <4>1, <5>1, <5>2
    <3> QED
      BY <3>1, <3>2
  <2>5. acc # <<>> /\ n > 0
    BY <1>6, EmptySeq DEF Ordered
  <2>6. acc'[1] = acc[1] /\ acc' # <<>>
    <3>1. 1 \in 1 .. n + take /\ 1 <= n /\ n + take # 0
      BY <1>1, <2>5
    <3> QED
      BY <1>4, <3>1, EmptySeq
  <2>7. n + left_1 = (n + take) + (left_1 - take)
    BY <1>1
  <2>8. left_1 - take > 0 => n + take = Fido!Base(expectedSeq + 1)'
    <3>1. Fido!Base(i + 1) = Fido!Base(i) + ContRoom
      BY <1>2, BaseFacts
    <3>2. Fido!Base(expectedSeq + 1)' = Fido!Base(i + 1)
      BY <1>2, <2>1 DEF Fido!Base
    <3> QED
      BY <1>1, <2>2, <3>1, <3>2
  <2>9. acc'[1].of.size = Len(acc') + remaining' /\ responseCmd' = acc'[1].of.cmd
    BY <1>2, <1>4, <2>5, <2>6, <2>7 DEF Ordered
  <2> QED
    BY <1>2, <1>4, <2>4, <2>6, <2>8, <2>9 DEF Ordered
<1> QED
  BY <1>5, <1>6

LEMMA OrderedNext ==
  ASSUME FidoTyped, Ordered, Fido!Next
  PROVE  Ordered'
<1>1. CASE Fido!Read
  <2>1. CASE Fido!ReadOutOfSequence(Head(wire))
    BY <1>1, <2>1 DEF Fido!ReadOutOfSequence, Fido!Over, Fido!reading, Ordered, Fido!Base
  <2> QED
    BY <1>1, <2>1, InitialOrdered, ContinuationOrdered DEF Fido!Read
<1>2. CASE Fido!Write
  <2>1. acc' = <<>> /\ remaining' = 0 /\ phase' # "judge"
    BY <1>2 DEF Fido!Write
  <2>2. <<>> \in Seq(Piece) /\ Len(<<>>) = 0 /\ 1 .. 0 = {}
    BY EmptySeq
  <2> QED
    BY <2>1, <2>2 DEF Ordered
<1>3. CASE Fido!JudgeInit \/ Fido!JudgeVersion \/ Fido!Poll
  <2>1. UNCHANGED <<acc, remaining, expectedSeq, responseCmd>> /\ phase' # "judge"
    BY <1>3, JudgeFacts DEF FidoTyped, Stops, GoesOn, Fido!Exchange, Fido!reading
  <2> QED
    BY <2>1 DEF Ordered, Fido!Base
<1>4. CASE Fido!ReadTimeout \/ Fido!HidFails \/ Fido!DeadlinePasses
  BY <1>4 DEF Fido!ReadTimeout, Fido!HidFails, Fido!DeadlinePasses, Fido!Over, Fido!reading,
              Ordered, Fido!Base
<1>5. CASE Fido!DeviceKeepsAlive \/ Fido!DeviceReplies \/ Fido!ForeignReport
  BY <1>5 DEF Fido!DeviceKeepsAlive, Fido!DeviceReplies, Fido!ForeignReport, Fido!Unchanged,
              Fido!reading, Ordered, Fido!Base
<1> QED
  BY <1>1, <1>2, <1>3, <1>4, <1>5 DEF Fido!Next, Fido!HostStep

-----------------------------------------------------------------------------
(* Types: the reassembly's numbers stay within what CTAPHID can carry. *)
LEMMA ReadNumbers ==
  ASSUME FidoTyped, Fido!Read
  PROVE  /\ remaining' \in 0 .. Fido!MaxSize /\ expectedSeq' \in 0 .. SeqLimit
         /\ responseCmd' \in Fido!Command
<1> DEFINE r == Head(wire)
<1>0. Fido!TypeOK /\ wire \in Seq(Report) /\ wire # <<>>
  BY ReadFacts DEF FidoTyped
<1>1. r \in Report
  BY <1>0, HeadTailProperties
<1>2. r.index \in 0 .. SeqLimit /\ r.of.size \in 0 .. Fido!MaxSize /\ r.of.cmd \in Fido!Command
  BY <1>1 DEF Report, Fido!Message
<1>3. remaining \in 0 .. Fido!MaxSize /\ expectedSeq \in 0 .. SeqLimit /\ responseCmd \in Fido!Command
  BY <1>0 DEF Fido!TypeOK
<1> HIDE DEF r
<1>4. \A a \in Nat, b \in Nat : b - Fido!Smaller(a, b) \in 0 .. b
  BY DEF Fido!Smaller
<1>5. CASE Fido!ReadInitial(r)
  <2>1. remaining' = r.of.size - Fido!Smaller(InitRoom, r.of.size) /\ expectedSeq' = 0
        /\ responseCmd' = r.of.cmd
    BY <1>5, CollectedFacts DEF Fido!ReadInitial
  <2> PICK n \in Nat : n = r.of.size
    BY <1>2, RoomFacts
  <2>2. remaining' \in 0 .. n
    BY <1>4, <2>1, RoomFacts
  <2> QED
    BY <1>2, <2>1, <2>2, RoomFacts
<1>6. CASE Fido!ReadContinuation(r)
  <2>1. remaining' = remaining - Fido!Smaller(ContRoom, remaining) /\ expectedSeq' = expectedSeq + 1
        /\ responseCmd' = responseCmd /\ r.index - 1 = expectedSeq
    BY <1>6, CollectedFacts DEF Fido!ReadContinuation
  <2>2. remaining' \in 0 .. remaining
    BY <1>3, <1>4, <2>1, RoomFacts
  <2> QED
    BY <1>2, <1>3, <2>1, <2>2, RoomFacts
<1>7. CASE Fido!ReadOutOfSequence(r)
  BY <1>3, <1>7 DEF Fido!ReadOutOfSequence, Fido!reading
<1> QED
  BY <1>5, <1>6, <1>7 DEF Fido!Read, r

(* The rest of the type invariant, step by step. *)
FidoRest ==
  /\ turn \in Fido!Turn /\ phase \in {"write", "read", "judge", "over"}
  /\ outcome \in {"", "passed", "failed", "panicked"}
  /\ outcome = "" <=> phase # "over"
  /\ remaining \in 0 .. Fido!MaxSize /\ expectedSeq \in 0 .. SeqLimit
  /\ responseCmd \in Fido!Command
  /\ expired \in BOOLEAN /\ mixed \in BOOLEAN /\ exchangeNo \in {"even", "odd"}
  /\ foreign \in 0 .. MaxForeign

LEMMA FidoRestNext ==
  ASSUME FidoTyped, Fido!Next
  PROVE  FidoRest'
<1>0. Fido!TypeOK /\ wire \in Seq(Report)
  BY DEF FidoTyped
<1>1. FidoRest
  BY <1>0 DEF Fido!TypeOK, FidoRest
<1>2. 0 \in 0 .. Fido!MaxSize /\ 0 \in 0 .. SeqLimit /\ "none" \in Fido!Command
  BY RoomFacts DEF Fido!Command
<1>3. CASE Fido!Write
  BY <1>1, <1>2, <1>3 DEF FidoRest, Fido!Write, Fido!device
<1>4. CASE Fido!Read
  <2>1. mixed' \in BOOLEAN
    BY <1>1, <1>4, ReadFacts DEF FidoRest
  <2> QED
    BY <1>1, <1>4, <2>1, ReadFacts, ReadNumbers DEF FidoRest
<1>5. CASE Fido!JudgeInit \/ Fido!JudgeVersion \/ Fido!Poll
  <2>1. ASSUME NEW how \in {"passed", "failed"}, Stops(how) PROVE FidoRest'
    BY <1>1, <2>1 DEF Stops, FidoRest
  <2>2. ASSUME NEW t \in Fido!Turn, GoesOn(t), phase = "judge" PROVE FidoRest'
    BY <1>1, <2>2 DEF GoesOn, Fido!Exchange, Fido!reading, FidoRest
  <2> QED
    BY <1>0, <1>5, <2>1, <2>2, JudgeFacts DEF Fido!Turn
<1>6. CASE Fido!ReadTimeout \/ Fido!HidFails
  BY <1>1, <1>6 DEF Fido!ReadTimeout, Fido!HidFails, Fido!Over, Fido!reading, Fido!device, FidoRest
<1>7. CASE Fido!DeadlinePasses
  BY <1>1, <1>7 DEF Fido!DeadlinePasses, Fido!reading, Fido!device, FidoRest
<1>8. CASE Fido!DeviceKeepsAlive \/ Fido!DeviceReplies
  BY <1>1, <1>8 DEF Fido!DeviceKeepsAlive, Fido!DeviceReplies, Fido!Unchanged, Fido!reading,
     Fido!device, FidoRest
<1>9. CASE Fido!ForeignReport
  <2>1. foreign' \in 0 .. MaxForeign
    <3>1. foreign < MaxForeign /\ foreign' = foreign + 1 /\ foreign \in 0 .. MaxForeign
      BY <1>1, <1>9 DEF FidoRest, Fido!ForeignReport
    <3> QED
      BY <3>1, RoomFacts
  <2> QED
    BY <1>1, <1>9, <2>1 DEF Fido!ForeignReport, Fido!Unchanged, Fido!reading, FidoRest
<1> QED
  BY <1>3, <1>4, <1>5, <1>6, <1>7, <1>8, <1>9 DEF Fido!Next, Fido!HostStep

LEMMA FidoNext == FidoInv /\ Fido!Next => FidoInv'
<1> SUFFICES ASSUME FidoInv, Fido!Next PROVE FidoInv'
  OBVIOUS
<1>0. FidoTyped /\ Requested /\ Replied /\ Ordered
  BY DEF FidoInv
<1>1. Reassembly' /\ Ordered' /\ Confirming' /\ wire' \in Seq(Report)
  BY <1>0, ReassemblyNext, OrderedNext, ConfirmingNext
<1>2. /\ Requested' /\ Len(request') <= SeqLimit + 1
      /\ request' \in Seq([total : Nat, after : Nat, upTo : Nat])
      /\ \A k \in 1 .. Len(request') : request'[k].upTo \in 0 .. RequestSize[turn]'
  BY <1>0, RequestedNext
<1>3. Replied' /\ reply' \in Fido!Message /\ confirmed' \subseteq Fido!Turn
  BY <1>0, RepliedNext
<1>4. FidoRest'
  BY <1>0, FidoRestNext
<1>5. \A k \in 1 .. Len(wire') : wire'[k].of \in Fido!Message /\ wire'[k].index \in 0 .. SeqLimit
  <2>1. \A k \in 1 .. Len(wire') : wire'[k] \in Report
    BY <1>1
  <2> QED
    BY <2>1 DEF Report
<1>6. (outcome' = "") = (phase' # "over")
  BY <1>4 DEF FidoRest
<1>7. Fido!TypeOK'
  BY <1>2, <1>3, <1>4, <1>5, <1>6 DEF FidoRest, Fido!TypeOK
<1> QED
  BY <1>1, <1>2, <1>3, <1>7 DEF FidoInv, FidoTyped

LEMMA FidoInit == Fido!Init => FidoInv
<1> SUFFICES ASSUME Fido!Init PROVE FidoInv
  OBVIOUS
<1>0. /\ turn = "init" /\ phase = "write" /\ outcome = "" /\ request = <<>> /\ wire = <<>>
      /\ remaining = 0 /\ expectedSeq = 0 /\ responseCmd = "none" /\ expired = FALSE
      /\ exchangeNo = "even" /\ reply = Fido!NoReply /\ confirmed = {} /\ foreign = 0
      /\ mixed = FALSE
  BY DEF Fido!Init
<1>1. Fido!NoReply \in Fido!Message /\ Fido!NoReply.cmd = "none"
  BY RoomFacts DEF Fido!NoReply, Fido!Message, Fido!Source, Fido!Command, Fido!Status
<1>2. /\ 0 \in 0 .. Fido!MaxSize /\ 0 \in 0 .. SeqLimit /\ 0 \in 0 .. MaxForeign
      /\ "none" \in Fido!Command /\ "init" \in Fido!Turn /\ 0 <= SeqLimit + 1
  BY RoomFacts DEF Fido!Command, Fido!Turn
<1>3. Size \in Nat
  <2>1. RequestSize["init"] \in 0 .. Fido!MaxSize
    BY <1>2, RoomFacts
  <2>2. RequestSize["init"] \in Nat
    BY <2>1, RoomFacts
  <2> QED
    BY <1>0, <2>2 DEF Size
<1>4. Fido!LastIndex(Size) \in Nat
  BY <1>3, IndexFacts
<1>5. /\ Len(request) = 0 /\ request \in Seq([total : Nat, after : Nat, upTo : Nat])
      /\ Len(wire) = 0 /\ wire \in Seq(Report) /\ 1 .. 0 = {}
  <2>1. \A S : <<>> \in Seq(S) /\ Len(<<>>) = 0
    BY EmptySeq
  <2>2. 1 .. 0 = {}
    OBVIOUS
  <2> QED
    BY <1>0, <2>1, <2>2
<1>6. Own = {}
  BY <1>5 DEF Own
<1>7. Fido!TypeOK
  BY <1>0, <1>1, <1>2, <1>5 DEF Fido!TypeOK
<1>8. Requested /\ Replied
  <2>1. 0 <= Fido!LastIndex(Size) + 1 /\ 0 <= Fido!LastIndex(Size)
    BY <1>4
  <2>2. Requested
    BY <1>0, <1>5, <2>1 DEF Requested
  <2>3. Replied
    BY <1>0, <1>1 DEF Replied
  <2> QED
    BY <2>2, <2>3
<1>9. Reassembly /\ Confirming
  BY <1>0, <1>6 DEF Reassembly, Confirming, OnTheWay, NotBegun
<1>10. Ordered
  <2>1. acc = <<>>
    BY DEF Fido!Init
  <2>2. <<>> \in Seq(Piece) /\ Len(<<>>) = 0 /\ 1 .. 0 = {}
    BY EmptySeq
  <2>3. acc \in Seq(Piece) /\ \A j \in 1 .. Len(acc) : acc[j].at = j
    BY <2>1, <2>2
  <2>4. remaining = 0 /\ ~ (remaining > 0)
    <3>1. remaining = 0
      BY <1>0, Zenon
    <3> QED
      BY <3>1, SMT
  <2> QED
    BY <2>1, <2>3, <2>4 DEF Ordered
<1> QED
  BY <1>5, <1>7, <1>8, <1>9, <1>10 DEF FidoInv, FidoTyped

-----------------------------------------------------------------------------
(* fl logs: its records, for a filter that is given or not. *)
Wants(filter, line) ==
  /\ Logs!Text(line) # {}
  /\ filter => \E p \in Logs!Text(line) : Logs!KindOf(p) = "match" /\ p % 3 = 1

WantedSpans(filter, s, upTo) ==
  {w \in Logs!Spans(s) : w[2] <= upTo /\ Wants(filter, Logs!Line(s, w))}

(* The wanted spans up to one, which number the lines. *)
UpTo(spans, w) == {v \in spans : v[2] <= w[2]}

LinesOf(lines, s, spans) ==
  /\ Len(lines) = Cardinality(spans)
  /\ \A w \in spans : lines[Cardinality(UpTo(spans, w))] = Logs!Line(s, w)

LEMMA SameCardinality == \A S : Logs!Cardinality(S) = Cardinality(S)
BY DEF Logs!Cardinality, Cardinality

LEMMA AreWantedFacts ==
  ASSUME NEW lines, NEW s, NEW upTo
  PROVE  Logs!AreWanted(lines, s, upTo)
           <=> LinesOf(lines, s, WantedSpans(options.filter, s, upTo))
<1> DEFINE wanted == {w \in Logs!Spans(s) : w[2] <= upTo /\ Logs!Wanted(Logs!Line(s, w))}
<1>1. wanted = WantedSpans(options.filter, s, upTo)
  BY DEF Logs!Wanted, Wants, WantedSpans
<1>2. Logs!AreWanted(lines, s, upTo) <=>
        /\ Len(lines) = Cardinality(wanted)
        /\ \A w \in wanted : lines[Cardinality({v \in wanted : v[2] <= w[2]})] = Logs!Line(s, w)
  BY SameCardinality, Zenon DEF Logs!AreWanted
<1> HIDE DEF wanted
<1> QED
  BY <1>1, <1>2 DEF LinesOf, UpTo

LEMMA LeastNumber ==
  ASSUME NEW T, T \subseteq Nat, T # {}
  PROVE  \E m \in T : \A n \in T : m <= n
<1>1. PICK m \in T : \A n \in T : ~ (<<n, m>> \in OpToRel(<, Nat))
  BY NatLessThanWellFounded, WFMin
<1>2. \A n \in T : ~ (n < m)
  BY <1>1 DEF OpToRel
<1> QED
  BY <1>2

(* The end of a record in a longer log. *)
LEMMA TerminatorFacts ==
  ASSUME NEW S, NEW s \in Seq(S), NEW e \in Seq(S)
  PROVE  /\ Logs!Terminators(s) \subseteq 1 .. Len(s)
         /\ \A t \in 1 .. Len(s) : t \in Logs!Terminators(s \o e) <=> t \in Logs!Terminators(s)
         /\ Len(s \o e) = Len(s) + Len(e) /\ Logs!Terminators(s \o e) \subseteq 1 .. Len(s \o e)
<1>1. /\ Len(s) \in Nat /\ Len(e) \in Nat /\ Len(s \o e) = Len(s) + Len(e)
      /\ \A t \in 1 .. Len(s) : (s \o e)[t] = s[t] /\ t \in 1 .. Len(s \o e)
  BY ConcatProperties
<1> QED
  BY <1>1 DEF Logs!Terminators

(* A span is of two numbers, the second a place in the log. *)
LEMMA SpanFacts ==
  ASSUME NEW S, NEW s \in Seq(S), NEW w \in Logs!Spans(s)
  PROVE  /\ w = <<w[1], w[2]>> /\ w[1] \in 0 .. Len(s) /\ w[2] \in 1 .. Len(s) /\ w[1] < w[2]
         /\ w[1] \in Logs!Terminators(s) \cup {0} /\ w[2] \in Logs!Terminators(s)
         /\ \A t \in Logs!Terminators(s) : t <= w[1] \/ t >= w[2]
BY DEF Logs!Spans, Logs!Terminators

LEMMA SpanIs ==
  ASSUME NEW s, NEW a \in Logs!Terminators(s) \cup {0}, NEW b \in Logs!Terminators(s), a < b,
         \A t \in Logs!Terminators(s) : t <= a \/ t >= b
  PROVE  <<a, b>> \in Logs!Spans(s)
BY DEF Logs!Spans

LEMMA SpansGrow ==
  ASSUME NEW S, NEW s \in Seq(S), NEW e \in Seq(S), NEW upTo \in 0 .. Len(s), NEW filter
  PROVE  /\ WantedSpans(filter, s \o e, upTo) = WantedSpans(filter, s, upTo)
         /\ \A w \in WantedSpans(filter, s, upTo) : Logs!Line(s \o e, w) = Logs!Line(s, w)
<1> DEFINE l == s \o e
<1>0. l \in Seq(S) /\ Len(s) \in Nat /\ Len(e) \in Nat
  BY ConcatProperties
<1>1. /\ Logs!Terminators(s) \subseteq 1 .. Len(s) /\ Logs!Terminators(l) \subseteq 1 .. Len(l)
      /\ \A t \in 1 .. Len(s) : t \in Logs!Terminators(l) <=> t \in Logs!Terminators(s)
  BY TerminatorFacts
<1>2. \A a \in 0 .. Len(s), b \in 1 .. Len(s) : SubSeq(l, a + 1, b - 1) = SubSeq(s, a + 1, b - 1)
  <2> SUFFICES ASSUME NEW a \in 0 .. Len(s), NEW b \in 1 .. Len(s)
               PROVE  SubSeq(l, a + 1, b - 1) = SubSeq(s, a + 1, b - 1)
    OBVIOUS
  <2>1. CASE a + 1 <= b - 1
    <3>1. a + 1 \in 1 .. Len(s) /\ b - 1 \in 1 .. Len(s)
      BY <1>0, <2>1
    <3> QED
      BY <3>1, SubSeqOfConcat1
  <2>2. CASE b - 1 < a + 1
    BY <2>2, SubSeqEmpty
  <2> QED
    BY <2>1, <2>2
<1> HIDE DEF l
<1>3. ASSUME NEW w \in Logs!Spans(s), w[2] <= upTo PROVE w \in Logs!Spans(l)
  <2>1. /\ w = <<w[1], w[2]>> /\ w[1] \in 0 .. Len(s) /\ w[2] \in 1 .. Len(s) /\ w[1] < w[2]
        /\ w[1] \in Logs!Terminators(s) \cup {0} /\ w[2] \in Logs!Terminators(s)
        /\ \A t \in Logs!Terminators(s) : t <= w[1] \/ t >= w[2]
    BY SpanFacts
  <2>2. \A t \in Logs!Terminators(l) : t <= w[1] \/ t >= w[2]
    BY <1>0, <1>1, <2>1
  <2>3. w[1] \in Logs!Terminators(l) \cup {0} /\ w[2] \in Logs!Terminators(l)
    BY <1>1, <2>1
  <2> QED
    BY <2>1, <2>2, <2>3, SpanIs
<1>4. ASSUME NEW w \in Logs!Spans(l), w[2] <= upTo PROVE w \in Logs!Spans(s)
  <2>1. /\ w = <<w[1], w[2]>> /\ w[1] \in 0 .. Len(l) /\ w[2] \in 1 .. Len(l) /\ w[1] < w[2]
        /\ w[1] \in Logs!Terminators(l) \cup {0} /\ w[2] \in Logs!Terminators(l)
        /\ \A t \in Logs!Terminators(l) : t <= w[1] \/ t >= w[2]
    BY <1>0, SpanFacts
  <2>2. \A t \in Logs!Terminators(s) : t <= w[1] \/ t >= w[2]
    BY <1>0, <1>1, <2>1
  <2>3. w[1] \in Logs!Terminators(s) \cup {0} /\ w[2] \in Logs!Terminators(s)
    <3>1. w[1] <= Len(s) /\ w[2] \in 1 .. Len(s) /\ (w[1] # 0 => w[1] \in 1 .. Len(s))
      BY <1>0, <1>4, <2>1
    <3> QED
      BY <1>1, <2>1, <3>1
  <2> QED
    BY <2>1, <2>2, <2>3, SpanIs
<1>5. \A w \in Logs!Spans(s) : Logs!Line(l, w) = Logs!Line(s, w)
  <2> TAKE w \in Logs!Spans(s)
  <2>1. w[1] \in 0 .. Len(s) /\ w[2] \in 1 .. Len(s)
    BY SpanFacts
  <2> QED
    BY <1>2, <2>1 DEF Logs!Line
<1>6. WantedSpans(filter, l, upTo) = WantedSpans(filter, s, upTo)
  BY <1>3, <1>4, <1>5 DEF WantedSpans
<1> QED
  BY <1>5, <1>6 DEF WantedSpans, l

LEMMA CutAgain ==
  ASSUME NEW S, NEW s \in Seq(S), NEW cut \in Nat, NEW pos \in Nat, pos > 0, pos < Len(s) - cut
  PROVE  SubSeq(SubSeq(s, cut + 1, Len(s)), pos + 1, Len(s) - cut) = SubSeq(s, cut + pos + 1, Len(s))
<1> PICK all \in Nat : all = Len(s)
  OBVIOUS
<1> PICK n \in Nat : n = all - cut
  OBVIOUS
<1>1. pos < n
  OBVIOUS
<1>2. /\ cut + 1 \in 1 .. all /\ all \in 1 .. all
      /\ pos + 1 \in 1 .. all - (cut + 1) + 1 /\ n \in 1 .. all - (cut + 1) + 1
  BY <1>1
<1>3. SubSeq(SubSeq(s, cut + 1, all), pos + 1, n) = SubSeq(s, cut + 1 + (pos + 1) - 1, cut + 1 + n - 1)
  BY <1>2, SubSeqOfSubSeq
<1>4. cut + 1 + (pos + 1) - 1 = cut + pos + 1 /\ cut + 1 + n - 1 = all
  OBVIOUS
<1> QED
  BY <1>3, <1>4

(* The next record of a log that has been cut up to a record's end. *)
SameRest(r, i, s, j) == SubSeq(r, i + 1, Len(r)) = SubSeq(s, j + 1, Len(s))

IsNext(s, cut, rest, pos, end, line) ==
  /\ cut \in 0 .. Len(s) /\ cut \in Logs!Terminators(s) \cup {0}
  /\ rest = SubSeq(s, cut + 1, Len(s))
  /\ pos \in Logs!Terminators(rest) /\ \A t \in Logs!Terminators(rest) : pos <= t
  /\ end = cut + pos /\ line = SubSeq(rest, 1, pos - 1)

LEMMA NextSpan ==
  ASSUME NEW S, NEW s \in Seq(S), NEW cut, NEW rest, NEW pos, NEW end, NEW line,
         IsNext(s, cut, rest, pos, end, line)
  PROVE  /\ end \in Logs!Terminators(s) /\ end \in 0 .. Len(s) /\ pos \in 1 .. Len(rest)
         /\ SameRest(rest, pos, s, end)
         /\ Logs!Line(s, <<cut, end>>) = line
         /\ \A w : /\ w \in Logs!Spans(s) /\ w[2] <= end
                  <=> (w \in Logs!Spans(s) /\ w[2] <= cut) \/ w = <<cut, end>>
<1> USE DEF IsNext
<1>1. /\ rest \in Seq(S) /\ Len(rest) = Len(s) - cut /\ Len(s) \in Nat /\ Len(rest) \in Nat
      /\ \A i \in 1 .. Len(rest) : rest[i] = s[cut + i]
  <2>1. \A i \in cut + 1 .. Len(s) : s[i] \in S
    BY ElementOfSeq
  <2>2. /\ rest \in Seq(S) /\ Len(rest) = IF cut + 1 <= Len(s) THEN Len(s) - (cut + 1) + 1 ELSE 0
        /\ \A i \in 1 .. Len(s) - (cut + 1) + 1 : rest[i] = s[cut + 1 + i - 1]
    BY <2>1, SubSeqProperties
  <2>3. Len(rest) = Len(s) - cut
    BY <2>2
  <2>4. \A i \in 1 .. Len(rest) : rest[i] = s[cut + i]
    <3> TAKE i \in 1 .. Len(rest)
    <3>1. i \in 1 .. Len(s) - (cut + 1) + 1 /\ cut + 1 + i - 1 = cut + i
      BY <2>3
    <3> QED
      BY <2>2, <3>1
  <2> QED
    BY <2>2, <2>3, <2>4
<1>2. pos \in 1 .. Len(rest) /\ end \in 1 .. Len(s)
  BY <1>1 DEF Logs!Terminators
<1>p. pos \in Nat /\ pos > 0 /\ pos <= Len(rest) /\ cut \in Nat /\ end = cut + pos /\ end \in Nat
  BY <1>1, <1>2
<1>3. \A t \in 1 .. Len(rest) : t \in Logs!Terminators(rest) <=> cut + t \in Logs!Terminators(s)
  <2> TAKE t \in 1 .. Len(rest)
  <2>1. cut + t \in 1 .. Len(s)
    BY <1>1
  <2> QED
    BY <1>1, <2>1 DEF Logs!Terminators
<1>4. end \in Logs!Terminators(s)
  BY <1>2, <1>3
<1>5. SubSeq(rest, pos + 1, Len(rest)) = SubSeq(s, end + 1, Len(s))
  <2>1. rest = SubSeq(s, cut + 1, Len(s))
    OBVIOUS
  <2>2. CASE pos = Len(rest)
    <3>1. SubSeq(rest, pos + 1, Len(rest)) = <<>> /\ SubSeq(s, end + 1, Len(s)) = <<>>
      BY <1>1, <1>2, <2>2, SubSeqEmpty
    <3> QED
      BY <3>1
  <2>3. CASE pos < Len(rest)
    <3>1. cut \in Nat /\ pos \in Nat /\ pos > 0 /\ pos < Len(s) - cut /\ Len(rest) = Len(s) - cut
      BY <1>1, <1>p, <2>3
    <3>2. SubSeq(SubSeq(s, cut + 1, Len(s)), pos + 1, Len(s) - cut) = SubSeq(s, cut + pos + 1, Len(s))
      BY <3>1, CutAgain
    <3> QED
      BY <2>1, <3>1, <3>2
  <2> QED
    BY <1>1, <1>p, <2>2, <2>3
<1>6. Logs!Line(s, <<cut, end>>) = line
  <2>1. Logs!Line(s, <<cut, end>>) = SubSeq(s, cut + 1, end - 1)
    BY DEF Logs!Line
  <2>2. CASE pos = 1
    <3>1. line = <<>> /\ SubSeq(s, cut + 1, end - 1) = <<>>
      BY <1>1, <1>2, <2>2, SubSeqEmpty
    <3> QED
      BY <2>1, <3>1
  <2>3. CASE pos > 1
    <3>1. /\ cut + 1 \in 1 .. Len(s) /\ Len(s) \in 1 .. Len(s)
          /\ 1 \in 1 .. Len(s) - (cut + 1) + 1 /\ pos - 1 \in 1 .. Len(s) - (cut + 1) + 1
          /\ cut + 1 + 1 - 1 = cut + 1 /\ cut + 1 + (pos - 1) - 1 = end - 1
      BY <1>1, <1>2, <2>3
    <3>2. SubSeq(SubSeq(s, cut + 1, Len(s)), 1, pos - 1)
            = SubSeq(s, cut + 1 + 1 - 1, cut + 1 + (pos - 1) - 1)
      BY <3>1, SubSeqOfSubSeq
    <3> QED
      BY <2>1, <3>1, <3>2
  <2>4. pos = 1 \/ pos > 1
    BY <1>p
  <2> QED
    BY <2>2, <2>3, <2>4
<1>m. \A t \in Logs!Terminators(s) : t <= cut \/ t >= end
  <2> SUFFICES ASSUME NEW t \in Logs!Terminators(s), t > cut PROVE t >= end
    BY <1>1 DEF Logs!Terminators
  <2>0. t \in 1 .. Len(s)
    BY DEF Logs!Terminators
  <2>1. t - cut \in 1 .. Len(rest) /\ cut + (t - cut) = t
    BY <1>1, <1>p, <2>0
  <2>2. t - cut \in Logs!Terminators(rest)
    BY <1>3, <2>1
  <2> QED
    BY <1>p, <2>0, <2>1, <2>2
<1>7. <<cut, end>> \in Logs!Spans(s)
  BY <1>p, <1>4, <1>m, SpanIs
<1>8. ASSUME NEW w \in Logs!Spans(s), w[2] <= end, ~ (w[2] <= cut) PROVE w = <<cut, end>>
  <2>1. /\ w = <<w[1], w[2]>> /\ w[1] \in 0 .. Len(s) /\ w[2] \in 1 .. Len(s) /\ w[1] < w[2]
        /\ w[1] \in Logs!Terminators(s) \cup {0} /\ w[2] \in Logs!Terminators(s)
        /\ \A t \in Logs!Terminators(s) : t <= w[1] \/ t >= w[2]
    BY SpanFacts
  <2>0. w[2] <= cut \/ w[2] >= end
    BY <1>m, <2>1
  <2>2. w[2] = end
    BY <1>8, <1>p, <2>0, <2>1
  <2>3. w[1] <= cut
    BY <1>m, <1>p, <2>1, <2>2
  <2>4. cut <= w[1]
    <3>1. CASE cut = 0
      BY <2>1, <3>1
    <3>2. CASE cut # 0
      BY <1>8, <1>p, <2>1, <3>2
    <3> QED
      BY <3>1, <3>2
  <2> QED
    BY <1>p, <2>1, <2>2, <2>3, <2>4
<1>9. \A w \in Logs!Spans(s) : w[2] <= cut => w[2] <= end
  <2> TAKE w \in Logs!Spans(s)
  <2>1. w[2] \in Nat
    BY SpanFacts
  <2> QED
    BY <1>p, <2>1
<1>10. <<cut, end>>[2] <= end /\ ~ (<<cut, end>>[2] <= cut)
  BY <1>p
<1>13. end \in 0 .. Len(s)
  BY <1>1, <1>2
<1> QED
  BY <1>2, <1>4, <1>5, <1>6, <1>7, <1>8, <1>9, <1>10, <1>13 DEF SameRest

(* The lines of one more span, after all the others. *)
LEMMA LinesAppend ==
  ASSUME NEW S, NEW lines \in Seq(Seq(S)), NEW s, NEW spans, IsFiniteSet(spans),
         LinesOf(lines, s, spans), NEW cut \in Nat, \A w \in spans : w[2] \in Nat /\ w[2] <= cut,
         NEW n, n[2] \in Nat, n[2] > cut, NEW line \in Seq(S), Logs!Line(s, n) = line
  PROVE  LinesOf(Append(lines, line), s, spans \cup {n})
<1> DEFINE more  == spans \cup {n}
           added == Append(lines, line)
<1>1. n \notin spans
  BY Z3
<1>2. /\ Len(lines) = Cardinality(spans) /\ Cardinality(spans) \in Nat
      /\ \A w \in spans : lines[Cardinality(UpTo(spans, w))] = Logs!Line(s, w)
  BY FS_CardinalityType DEF LinesOf
<1>3. /\ Len(added) = Len(lines) + 1 /\ added[Len(lines) + 1] = line
      /\ \A i \in 1 .. Len(lines) : added[i] = lines[i]
  BY AppendProperties
<1>4. Cardinality(more) = Cardinality(spans) + 1
  BY <1>1, FS_AddElement
<1>5. UpTo(more, n) = more
  BY DEF UpTo
<1>6. ASSUME NEW w \in spans PROVE added[Cardinality(UpTo(more, w))] = Logs!Line(s, w)
  <2>1. UpTo(more, w) = UpTo(spans, w)
    BY DEF UpTo
  <2>2. UpTo(spans, w) \subseteq spans /\ w \in UpTo(spans, w)
    BY DEF UpTo
  <2>3. /\ IsFiniteSet(UpTo(spans, w))
        /\ Cardinality(UpTo(spans, w)) <= Cardinality(spans)
    BY <2>2, FS_Subset
  <2>4. Cardinality(UpTo(spans, w)) \in Nat /\ Cardinality(UpTo(spans, w)) # 0
    BY <2>2, <2>3, FS_CardinalityType, FS_EmptySet
  <2>5. Cardinality(UpTo(spans, w)) \in 1 .. Len(lines)
    BY <1>2, <2>3, <2>4
  <2> QED
    BY <1>2, <1>3, <2>1, <2>5
<1> HIDE DEF added
<1>7. \A w \in more : added[Cardinality(UpTo(more, w))] = Logs!Line(s, w)
  <2> SUFFICES added[Cardinality(UpTo(more, n))] = Logs!Line(s, n)
    BY <1>6
  <2> QED
    BY <1>2, <1>3, <1>4, <1>5
<1>8. Len(added) = Cardinality(more)
  BY <1>2, <1>3, <1>4
<1> QED
  BY <1>7, <1>8 DEF LinesOf, added

(* There are finitely many spans. *)
LEMMA SpansFinite ==
  ASSUME NEW S, NEW s \in Seq(S), NEW filter, NEW upTo
  PROVE  /\ IsFiniteSet(WantedSpans(filter, s, upTo))
         /\ \A w \in WantedSpans(filter, s, upTo) : w[2] \in Nat /\ w[2] <= upTo
<1>1. IsFiniteSet(0 .. Len(s)) /\ IsFiniteSet(1 .. Len(s))
  BY FS_Interval
<1>2. IsFiniteSet((0 .. Len(s)) \X (1 .. Len(s)))
  BY <1>1, FS_Product
<1>3. \A w \in Logs!Spans(s) : w \in (0 .. Len(s)) \X (1 .. Len(s)) /\ w[2] \in Nat
  <2> TAKE w \in Logs!Spans(s)
  <2>1. w = <<w[1], w[2]>> /\ w[1] \in 0 .. Len(s) /\ w[2] \in 1 .. Len(s)
    BY SpanFacts
  <2> QED
    BY <2>1
<1>4. WantedSpans(filter, s, upTo) \subseteq (0 .. Len(s)) \X (1 .. Len(s))
  BY <1>3 DEF WantedSpans
<1> QED
  BY <1>2, <1>3, <1>4, FS_Subset DEF WantedSpans

-----------------------------------------------------------------------------
(* fl logs: the device, the transfers and what has been put together. *)
Symbol == 0 .. 3 * Len(Kind) + 1

BusFrame ==
  {f \in [log : BOOLEAN, after : Nat, size : 0 .. MaxPayload] :
     f.log => f.after + f.size <= 3 * Len(Kind)}

LogsTyped ==
  /\ options \in Logs!Options /\ due \in BOOLEAN
  /\ doing \in {"connecting", "reading", "splitting", "done"}
  /\ plugged \in BOOLEAN /\ live \in BOOLEAN /\ torn \in BOOLEAN
  /\ unplugs \in 0 .. MaxUnplugs /\ made \in 0 .. 3 * Len(Kind)
  /\ Len(bus) <= MaxFrames /\ since \in 0 .. Len(printed)
  /\ bus # <<>> => sent \in 0 .. 1 + MaxPayload
  /\ frame \in Seq(Symbol) /\ records \in Seq(Symbol) /\ heard \in Seq(Symbol)
  /\ printed \in Seq(Seq(Symbol)) /\ bus \in Seq(BusFrame)

(* Between transfers: what is in frame has been sent of the first on the bus. *)
Transfers ==
  /\ doing = "connecting" => ~ live
  /\ bus = <<>> \/ ~ live => sent = 0
  /\ bus # <<>> => sent <= 1 + bus[1].size
  /\ ~ torn /\ live =>
       /\ doing = "reading" => frame = IF bus = <<>> THEN <<>> ELSE SubSeq(Logs!Bytes(bus[1]), 1, sent)
       /\ doing = "splitting" => sent = 0

LEMMA LimitFacts == \A o \in Logs!Options : o.limit \in Nat
<1>1. Limits \subseteq Nat /\ Len(Kind) \in Nat
  BY LabAssumption DEF Logs!LogAssumption
<1>2. Logs!NoLimit \in Nat
  BY <1>1 DEF Logs!NoLimit
<1> QED
  BY <1>1, <1>2 DEF Logs!Options

LEMMA LogFacts ==
  /\ Chunk \in Nat /\ Chunk > 0 /\ MaxFrames \in Nat /\ MaxPayload \in Nat /\ MaxUnplugs \in Nat
  /\ Len(Kind) \in Nat /\ 3 * Len(Kind) \in Nat
  /\ Symbol = Logs!Pieces \cup {Logs!TypeLog, Logs!TypeOther}
  /\ Logs!TypeLog \in Symbol /\ Logs!TypeOther \in Symbol /\ Logs!TypeOther # Logs!TypeLog
<1>1. /\ Chunk \in Nat /\ Chunk > 0 /\ MaxFrames \in Nat /\ MaxPayload \in Nat /\ MaxUnplugs \in Nat
      /\ Len(Kind) \in Nat
  BY LabAssumption DEF Logs!LogAssumption
<1>2. 3 * Len(Kind) \in Nat
  BY <1>1
<1> QED
  BY <1>1, <1>2 DEF Symbol, Logs!Pieces, Logs!TypeLog, Logs!TypeOther

(* A frame of the log is its type and its pieces. *)
LEMMA BytesFacts ==
  ASSUME NEW f \in BusFrame
  PROVE  /\ Logs!Bytes(f) \in Seq(Symbol) /\ Len(Logs!Bytes(f)) = 1 + f.size /\ f.size \in Nat
         /\ f.log => /\ Logs!Bytes(f)[1] = Logs!TypeLog
                     /\ Tail(Logs!Bytes(f)) = Logs!Run(f.after, f.size)
                     /\ Logs!Run(f.after, f.size) \in Seq(Symbol)
         /\ ~ f.log => Logs!Bytes(f)[1] # Logs!TypeLog
<1>0. f.size \in Nat /\ f.after \in Nat /\ f.log \in BOOLEAN
  BY LogFacts DEF BusFrame
<1> PICK n \in Nat, a \in Nat, top \in Nat : n = f.size /\ a = f.after /\ top = 3 * Len(Kind)
  BY <1>0, LogFacts
<1>1. CASE f.log
  <2> DEFINE e(j) == a + j
  <2>1. a + n <= top
    BY <1>1, <1>0 DEF BusFrame
  <2>2. \A j \in 1 .. n : e(j) \in Symbol
    <3>1. \A j \in 1 .. n : a + j \in 0 .. top + 1
      BY <2>1
    <3> QED
      BY <3>1 DEF Symbol
  <2>3. Logs!Run(a, n) = [j \in 1 .. n |-> e(j)]
    BY DEF Logs!Run
  <2> HIDE DEF e
  <2>4. Logs!Run(a, n) \in Seq(Symbol) /\ Len(Logs!Run(a, n)) = n
    BY <2>2, <2>3
  <2>5. <<Logs!TypeLog>> \in Seq(Symbol) /\ Len(<<Logs!TypeLog>>) = 1 /\ <<Logs!TypeLog>>[1] = Logs!TypeLog
    BY LogFacts
  <2>6. Logs!Bytes(f) = <<Logs!TypeLog>> \o Logs!Run(a, n)
    BY <1>1 DEF Logs!Bytes
  <2> DEFINE run == Logs!Run(a, n)
             all == <<Logs!TypeLog>> \o run
  <2>7. /\ all \in Seq(Symbol) /\ Len(all) = 1 + n /\ all[1] = Logs!TypeLog
        /\ \A i \in 1 .. n : all[i + 1] = run[i]
    <3>1. /\ all \in Seq(Symbol) /\ Len(all) = 1 + n
          /\ \A i \in 1 .. 1 + n : all[i] = IF i <= 1 THEN <<Logs!TypeLog>>[i] ELSE run[i - 1]
      BY <2>4, <2>5, ConcatProperties
    <3>2. \A i \in 1 .. n : i + 1 \in 1 .. 1 + n /\ ~ (i + 1 <= 1) /\ i + 1 - 1 = i
      OBVIOUS
    <3>3. 1 \in 1 .. 1 + n
      OBVIOUS
    <3> QED
      BY <2>5, <3>1, <3>2, <3>3
  <2>8. Tail(all) = run
    <3>1. /\ Tail(all) \in Seq(Symbol) /\ Len(Tail(all)) = n
          /\ \A i \in 1 .. n : Tail(all)[i] = all[i + 1]
      <4>1. all # <<>>
        BY <2>7, EmptySeq
      <4> QED
        BY <2>7, <4>1, HeadTailProperties
    <3> HIDE DEF all
    <3> QED
      BY <2>4, <2>7, <3>1, SeqEqual
  <2> QED
    BY <1>1, <2>4, <2>6, <2>7, <2>8
<1>2. CASE ~ f.log
  <2> DEFINE e(j) == Logs!TypeOther
  <2>1. \A j \in 1 .. 1 + n : e(j) \in Symbol
    BY LogFacts
  <2>2. Logs!Bytes(f) = [j \in 1 .. 1 + n |-> e(j)]
    BY <1>2 DEF Logs!Bytes
  <2>3. Logs!Bytes(f)[1] = Logs!TypeOther
    BY <2>2
  <2> HIDE DEF e
  <2>4. Logs!Bytes(f) \in Seq(Symbol) /\ Len(Logs!Bytes(f)) = 1 + n
    BY <2>1, <2>2
  <2> QED
    BY <1>2, <2>3, <2>4, LogFacts
<1> QED
  BY <1>1, <1>2, <1>0

(* What is left of the first frame on the bus. *)
LEMMA LeftFacts ==
  ASSUME LogsTyped, Transfers, Logs!Reading
  PROVE  /\ bus[1] \in BusFrame /\ bus # <<>> /\ live /\ doing = "reading"
         /\ Logs!Left \in Nat /\ Logs!Left = 1 + bus[1].size - sent
         /\ bus[1].size \in 0 .. MaxPayload /\ sent \in Nat /\ sent <= 1 + bus[1].size
<1>1. bus # <<>> /\ live /\ doing = "reading"
  BY DEF Logs!Reading
<1>2. bus[1] \in BusFrame
  BY <1>1 DEF LogsTyped
<1> PICK l : l = Len(Logs!Bytes(bus[1]))
  OBVIOUS
<1>3. l = 1 + bus[1].size /\ bus[1].size \in 0 .. MaxPayload
  BY <1>2, BytesFacts DEF BusFrame
<1>4. sent \in Nat /\ sent <= 1 + bus[1].size
  BY <1>1, LogFacts DEF LogsTyped, Transfers
<1>5. Logs!Left = l - sent
  BY DEF Logs!Left
<1> QED
  BY <1>1, <1>2, <1>3, <1>4, <1>5, LogFacts

(* What has come of a frame, after a transfer of any amount of the rest. *)
LEMMA GotFacts ==
  ASSUME LogsTyped, Transfers, Logs!Reading, NEW n \in 0 .. Logs!Left
  PROVE  /\ sent + n \in 0 .. 1 + bus[1].size /\ sent + n \in 0 .. 1 + MaxPayload
         /\ Logs!Got(n) \in Seq(Symbol)
         /\ ~ torn => Logs!Got(n) = SubSeq(Logs!Bytes(bus[1]), 1, sent + n)
         /\ ~ torn /\ n = Logs!Left => Logs!Got(n) = Logs!Bytes(bus[1])
<1> DEFINE f == bus[1]
           all == Logs!Bytes(f)
<1>1. f \in BusFrame /\ live /\ doing = "reading" /\ bus # <<>>
  BY LeftFacts
<1>3. all \in Seq(Symbol) /\ Len(all) = 1 + f.size /\ f.size \in Nat
  BY <1>1, BytesFacts
<1>4. sent \in Nat /\ sent <= 1 + f.size /\ f.size <= MaxPayload
  BY LeftFacts, LogFacts
<1> HIDE DEF all
<1>5. Logs!Left = 1 + f.size - sent
  BY LeftFacts
<1>6. sent + n \in 0 .. 1 + f.size /\ Logs!Left \in Nat /\ sent + n \in 0 .. 1 + MaxPayload
  <2> PICK size \in Nat, k \in Nat : size = f.size /\ k = sent /\ k <= 1 + size /\ size <= MaxPayload
    BY <1>3, <1>4
  <2>1. n \in 0 .. 1 + size - k
    BY <1>5
  <2>m. MaxPayload \in Nat
    BY LogFacts
  <2>2. k + n \in 0 .. 1 + size /\ 1 + size - k \in Nat /\ k + n \in 0 .. 1 + MaxPayload
    BY <2>1, <2>m
  <2> QED
    BY <1>5, <2>2
<1>7. Logs!Got(n) = frame \o SubSeq(all, sent + 1, sent + n)
  BY DEF Logs!Got, all
<1> HIDE DEF f
<1>8. \A i \in sent + 1 .. sent + n : all[i] \in Symbol
  BY <1>3, <1>4, <1>6
<1>9. SubSeq(all, sent + 1, sent + n) \in Seq(Symbol)
  BY <1>4, <1>6, <1>8, SubSeqProperties
<1>10. Logs!Got(n) \in Seq(Symbol)
  BY <1>7, <1>9, ConcatProperties DEF LogsTyped
<1>11. ~ torn => Logs!Got(n) = SubSeq(all, 1, sent + n)
  <2>1. ~ torn => frame = SubSeq(all, 1, sent)
    BY <1>1 DEF Transfers, all, f
  <2>2. /\ 1 \in 1 .. Len(all) + 1 /\ sent \in 1 - 1 .. Len(all) /\ sent + n \in sent .. Len(all)
    BY <1>3, <1>4, <1>5, <1>6
  <2>3. SubSeq(all, 1, sent) \o SubSeq(all, sent + 1, sent + n) = SubSeq(all, 1, sent + n)
    BY <1>3, <2>2, ConcatAdjacentSubSeq
  <2> QED
    BY <1>7, <2>1, <2>3
<1>12. n = Logs!Left => SubSeq(all, 1, sent + n) = all
  <2>1. n = Logs!Left => sent + n = Len(all)
    BY <1>3, <1>4, <1>5
  <2> QED
    BY <1>3, <2>1, SubSeqFull
<1> QED
  BY <1>6, <1>10, <1>11, <1>12 DEF all, f

(* What the end of a frame does: its records, if it is a log frame, are cut. *)
LEMMA EndOfFrameFacts ==
  ASSUME LogsTyped, NEW f \in Seq(Symbol), Logs!EndOfFrame(f)
  PROVE  /\ frame' \in Seq(Symbol) /\ records' \in Seq(Symbol)
         /\ doing' \in {"reading", "splitting"} /\ (doing' = "reading" => frame' = <<>>)
<1>1. \A S : <<>> \in Seq(S)
  BY EmptySeq
<1>2. f # <<>> => Tail(f) \in Seq(Symbol)
  BY HeadTailProperties
<1>3. f # <<>> => records \o Tail(f) \in Seq(Symbol)
  BY <1>2, ConcatProperties DEF LogsTyped
<1>4. CASE f # <<>> /\ f[1] = Logs!TypeLog
  BY <1>3, <1>4 DEF Logs!EndOfFrame
<1>5. CASE ~ (f # <<>> /\ f[1] = Logs!TypeLog)
  BY <1>1, <1>5 DEF Logs!EndOfFrame, LogsTyped
<1> QED
  BY <1>4, <1>5

(* A record that is cut off. *)
LEMMA NextRecordFacts ==
  ASSUME LogsTyped, Logs!NextRecord
  PROVE  \E pos \in Logs!Terminators(records), line \in Seq(Symbol) :
           /\ \A t \in Logs!Terminators(records) : pos <= t
           /\ line = SubSeq(records, 1, pos - 1)
           /\ records' = SubSeq(records, pos + 1, Len(records)) /\ records' \in Seq(Symbol)
           /\ printed' = IF Wants(options.filter, line) THEN Append(printed, line) ELSE printed
           /\ doing' = IF Wants(options.filter, line) /\ Len(printed) + 1 >= options.limit
                       THEN "done" ELSE "splitting"
<1> DEFINE ends == Logs!Terminators(records)
           least == CHOOSE i \in ends : \A j \in ends : i <= j
<1>1. records \in Seq(Symbol) /\ ends \subseteq 1 .. Len(records) /\ Len(records) \in Nat
  BY DEF LogsTyped, Logs!Terminators
<1>2. ends # {}
  BY DEF Logs!NextRecord
<1>3. \E m \in ends : \A n \in ends : m <= n
  <2>1. ends \subseteq Nat
    BY <1>1
  <2> HIDE DEF ends
  <2> QED
    BY <1>2, <2>1, LeastNumber
<1>4. least \in ends /\ \A n \in ends : least <= n
  <2> HIDE DEF ends
  <2> QED
    BY <1>3
<1> PICK pos \in ends : pos = least /\ \A n \in ends : pos <= n
  BY <1>4
<1>5. pos \in 1 .. Len(records)
  BY <1>1
<1> DEFINE line == SubSeq(records, 1, pos - 1)
<1>6. line \in Seq(Symbol) /\ SubSeq(records, pos + 1, Len(records)) \in Seq(Symbol)
  <2>1. \A i \in 1 .. Len(records) : records[i] \in Symbol
    BY <1>1, ElementOfSeq
  <2>2. \A i \in 1 .. pos - 1 : records[i] \in Symbol
    BY <1>1, <1>5, <2>1
  <2>3. \A i \in pos + 1 .. Len(records) : records[i] \in Symbol
    BY <1>1, <1>5, <2>1
  <2> QED
    BY <1>1, <1>5, <2>2, <2>3, SubSeqProperties
<1>7. /\ records' = SubSeq(records, least + 1, Len(records))
      /\ printed' = IF Logs!Wanted(SubSeq(records, 1, least - 1))
                    THEN Append(printed, SubSeq(records, 1, least - 1)) ELSE printed
      /\ doing' = IF Logs!Wanted(SubSeq(records, 1, least - 1)) /\ Len(printed) + 1 >= options.limit
                  THEN "done" ELSE "splitting"
  BY DEF Logs!NextRecord
<1> HIDE DEF least
<1>8. Logs!Wanted(line) <=> Wants(options.filter, line)
  BY DEF Logs!Wanted, Wants
<1> QED
  BY <1>6, <1>7, <1>8

LEMMA LogsTypedNext ==
  ASSUME LogsTyped, Transfers, Logs!Next
  PROVE  LogsTyped'
<1>0. /\ \A S : <<>> \in Seq(S) /\ Len(<<>>) = 0
      /\ Len(printed) \in Nat /\ Len(printed) \in 0 .. Len(printed)
  BY EmptySeq DEF LogsTyped
<1>1. CASE Logs!StopAtDeadline \/ Logs!Disconnected \/ Logs!TimePasses
  BY <1>1 DEF Logs!StopAtDeadline, Logs!Disconnected, Logs!TimePasses, LogsTyped,
     Logs!host, Logs!usb, Logs!reader, Logs!seen
<1>2. CASE Logs!Connect \/ Logs!FrameDone
  BY <1>0, <1>2 DEF Logs!Connect, Logs!FrameDone, LogsTyped,
     Logs!host, Logs!usb, Logs!reader, Logs!seen
<1>3. CASE Logs!Unplug
  <2>1. unplugs' \in 0 .. MaxUnplugs
    BY <1>3, LogFacts DEF Logs!Unplug, LogsTyped
  <2>2. bus' \in Seq(BusFrame) /\ Len(bus') <= MaxFrames
    BY <1>0, <1>3, LogFacts DEF Logs!Unplug
  <2> QED
    BY <1>3, <2>1, <2>2 DEF Logs!Unplug, LogsTyped, Logs!host, Logs!reader, Logs!seen
<1>4. CASE Logs!Plug
  <2>1. made' \in 0 .. 3 * Len(Kind)
    BY <1>4 DEF Logs!Plug
  <2> QED
    BY <1>4, <2>1 DEF Logs!Plug, LogsTyped, Logs!host, Logs!reader, Logs!seen
<1>5. CASE Logs!DeviceSends
  <2> PICK n \in 0 .. MaxPayload, log \in BOOLEAN :
        /\ log => made + n <= 3 * Len(Kind)
        /\ bus' = Append(bus, [log |-> log, after |-> IF log THEN made ELSE 0, size |-> n])
        /\ made' = IF log THEN made + n ELSE made
    BY <1>5 DEF Logs!DeviceSends
  <2> DEFINE f == [log |-> log, after |-> IF log THEN made ELSE 0, size |-> n]
  <2>0. made \in Nat /\ made \in 0 .. 3 * Len(Kind)
    BY LogFacts DEF LogsTyped
  <2>1. f \in BusFrame
    BY <2>0, LogFacts DEF BusFrame
  <2>2. made' \in 0 .. 3 * Len(Kind)
    BY <2>0, LogFacts
  <2> HIDE DEF f
  <2>3. bus' \in Seq(BusFrame) /\ Len(bus') = Len(bus) + 1
    BY <2>1, AppendProperties DEF LogsTyped, f
  <2>4. Len(bus') <= MaxFrames
    BY <1>5, <2>3, LogFacts DEF Logs!DeviceSends, LogsTyped
  <2>5. sent \in 0 .. 1 + MaxPayload
    BY LogFacts DEF LogsTyped, Transfers
  <2> QED
    BY <1>5, <2>2, <2>3, <2>4, <2>5
    DEF Logs!DeviceSends, LogsTyped, Logs!host, Logs!reader, Logs!seen
<1>6. CASE Logs!ReadFull
  <2>1. Logs!Reading /\ frame' = Logs!Got(Chunk) /\ sent' = sent + Chunk /\ Logs!Left >= Chunk
    BY <1>6 DEF Logs!ReadFull
  <2>2. Logs!Left \in Nat
    BY <2>1, LeftFacts
  <2>3. Chunk \in 0 .. Logs!Left
    BY <2>1, <2>2, LogFacts
  <2>4. frame' \in Seq(Symbol) /\ sent' \in 0 .. 1 + MaxPayload
    BY <2>1, <2>3, GotFacts
  <2> QED
    BY <1>6, <2>4 DEF Logs!ReadFull, LogsTyped, Logs!host, Logs!usb, Logs!seen
<1>7. ASSUME NEW n \in Nat, n <= Logs!Left, Logs!Reading, Logs!EndOfFrame(Logs!Got(n))
      PROVE  /\ sent + n \in 0 .. 1 + MaxPayload /\ frame' \in Seq(Symbol) /\ records' \in Seq(Symbol)
             /\ doing' \in {"reading", "splitting"}
  <2>1. Logs!Left \in Nat
    BY <1>7, LeftFacts
  <2>2. n \in 0 .. Logs!Left
    BY <1>7, <2>1
  <2>3. sent + n \in 0 .. 1 + MaxPayload /\ Logs!Got(n) \in Seq(Symbol)
    BY <1>7, <2>2, GotFacts
  <2> QED
    BY <1>7, <2>3, EndOfFrameFacts
<1>8. CASE Logs!ReadShort
  <2>1. Logs!Reading /\ Logs!EndOfFrame(Logs!Got(Logs!Left)) /\ bus' = Tail(bus) /\ sent' = 0 /\ bus # <<>>
    BY <1>8 DEF Logs!ReadShort, Logs!Reading
  <2>2. Logs!Left \in Nat /\ Logs!Left <= Logs!Left
    BY <2>1, LeftFacts
  <2>3. frame' \in Seq(Symbol) /\ records' \in Seq(Symbol) /\ doing' \in {"reading", "splitting"}
    BY <1>7, <2>1, <2>2
  <2>4. bus' \in Seq(BusFrame) /\ Len(bus') <= MaxFrames
    <3>1. bus' \in Seq(BusFrame) /\ Len(bus') = Len(bus) - 1 /\ Len(bus) \in Nat
      BY <2>1, HeadTailProperties DEF LogsTyped
    <3> QED
      BY <3>1, LogFacts DEF LogsTyped
  <2>5. heard' \in Seq(Symbol)
    <3>1. bus[1] \in BusFrame
      BY <2>1 DEF LogsTyped
    <3>2. bus[1].log => Logs!Run(bus[1].after, bus[1].size) \in Seq(Symbol)
      BY <3>1, BytesFacts
    <3>3. bus[1].log => heard \o Logs!Run(bus[1].after, bus[1].size) \in Seq(Symbol)
      BY <3>2, ConcatProperties DEF LogsTyped
    <3> QED
      BY <1>8, <3>3 DEF Logs!ReadShort, LogsTyped
  <2>6. sent' \in 0 .. 1 + MaxPayload
    BY <2>1, LogFacts
  <2> QED
    BY <1>8, <2>3, <2>4, <2>5, <2>6 DEF Logs!ReadShort, LogsTyped, Logs!host, Logs!usb
<1>9. CASE Logs!ReadPart
  <2> PICK n \in 1 .. Chunk - 1 : n < Logs!Left /\ Logs!EndOfFrame(Logs!Got(n)) /\ sent' = sent + n
    BY <1>9 DEF Logs!ReadPart
  <2>1. Logs!Reading /\ torn' = TRUE
    BY <1>9 DEF Logs!ReadPart
  <2>2. n \in Nat /\ n <= Logs!Left
    BY <2>1, LeftFacts, LogFacts
  <2>3. /\ sent' \in 0 .. 1 + MaxPayload /\ frame' \in Seq(Symbol) /\ records' \in Seq(Symbol)
        /\ doing' \in {"reading", "splitting"}
    BY <1>7, <2>1, <2>2
  <2> QED
    BY <1>9, <2>1, <2>3 DEF Logs!ReadPart, LogsTyped, Logs!host, Logs!usb
<1>10. CASE Logs!NextRecord
  <2> PICK line \in Seq(Symbol) :
        /\ records' \in Seq(Symbol)
        /\ printed' = IF Wants(options.filter, line) THEN Append(printed, line) ELSE printed
        /\ doing' \in {"splitting", "done"}
    BY <1>10, NextRecordFacts
  <2>1. line \in Seq(Symbol) /\ printed \in Seq(Seq(Symbol))
    BY DEF LogsTyped
  <2>2. Append(printed, line) \in Seq(Seq(Symbol)) /\ Len(Append(printed, line)) = Len(printed) + 1
    BY <2>1, AppendProperties
  <2>3. printed' = printed \/ printed' = Append(printed, line)
    OBVIOUS
  <2>4. printed' \in Seq(Seq(Symbol)) /\ since \in 0 .. Len(printed')
    BY <2>2, <2>3 DEF LogsTyped
  <2>5. records' \in Seq(Symbol) /\ doing' \in {"splitting", "done"}
    OBVIOUS
  <2> QED
    BY <1>10, <2>4, <2>5 DEF Logs!NextRecord, LogsTyped, Logs!host, Logs!usb, Logs!seen
<1> QED
  BY <1>1, <1>2, <1>3, <1>4, <1>5, <1>6, <1>8, <1>9, <1>10 DEF Logs!Next, Logs!HostStep

LEMMA TransfersNext ==
  ASSUME LogsTyped, Transfers, Logs!Next
  PROVE  Transfers'
<1>1. CASE Logs!StopAtDeadline \/ Logs!TimePasses \/ Logs!NextRecord
  <2>1. doing' = doing \/ doing' = "done" \/ (doing = "splitting" /\ doing' = "splitting")
    BY <1>1 DEF Logs!StopAtDeadline, Logs!TimePasses, Logs!NextRecord
  <2>2. UNCHANGED <<frame, bus, sent, live, torn>>
    BY <1>1 DEF Logs!StopAtDeadline, Logs!TimePasses, Logs!NextRecord, Logs!reader, Logs!usb, Logs!seen
  <2> QED
    BY <2>1, <2>2 DEF Transfers
<1>2. CASE Logs!Connect \/ Logs!Disconnected \/ Logs!FrameDone
  <2>1. sent \in Nat /\ (bus # <<>> => SubSeq(Logs!Bytes(bus[1]), 1, 0) = <<>>)
    BY LogFacts, SubSeqEmpty DEF LogsTyped, Transfers
  <2>2. UNCHANGED <<bus, sent>>
    BY <1>2 DEF Logs!Connect, Logs!Disconnected, Logs!FrameDone
  <2>3. CASE Logs!Connect
    <3>1. sent = 0 /\ frame' = <<>> /\ doing' = "reading" /\ live'
      BY <2>3 DEF Logs!Connect, Transfers
    <3> QED
      BY <2>1, <2>2, <3>1 DEF Transfers
  <2>4. CASE Logs!Disconnected
    BY <2>2, <2>4 DEF Logs!Disconnected, Transfers
  <2>5. CASE Logs!FrameDone
    <3>1. frame' = <<>> /\ doing' = "reading" /\ doing = "splitting" /\ live' = live /\ torn' = torn
      BY <2>5 DEF Logs!FrameDone, Logs!seen
    <3> QED
      BY <2>1, <2>2, <3>1 DEF Transfers
  <2> QED
    BY <1>2, <2>3, <2>4, <2>5
<1>3. CASE Logs!Unplug \/ Logs!Plug
  <2>1. CASE Logs!Unplug
    BY <2>1 DEF Logs!Unplug, Transfers
  <2>2. CASE Logs!Plug
    BY <2>2 DEF Logs!Plug, Transfers, Logs!reader, Logs!seen
  <2> QED
    BY <1>3, <2>1, <2>2
<1>5. CASE Logs!DeviceSends
  <2> PICK f : bus' = Append(bus, f) /\ f.size \in 0 .. MaxPayload
    BY <1>5 DEF Logs!DeviceSends
  <2>1. UNCHANGED <<doing, frame, sent, live, torn>>
    BY <1>5 DEF Logs!DeviceSends, Logs!reader, Logs!seen
  <2>2. /\ bus' # <<>> /\ (bus # <<>> => bus'[1] = bus[1]) /\ (bus = <<>> => bus'[1] = f)
    <3>1. PICK S : bus \in Seq(S) /\ f \in S
      <4>1. bus \in Seq(BusFrame \cup {f})
        BY DEF LogsTyped
      <4> QED
        BY <4>1
    <3>2. /\ bus' # <<>> /\ bus'[Len(bus) + 1] = f
          /\ \A i \in 1 .. Len(bus) : bus'[i] = bus[i]
      BY <3>1, AppendProperties
    <3>3. Len(bus) \in Nat /\ (bus = <<>> <=> Len(bus) = 0)
      BY <3>1, EmptySeq
    <3>4. bus = <<>> => Len(bus) + 1 = 1
      BY <3>3
    <3>5. bus # <<>> => 1 \in 1 .. Len(bus)
      BY <3>3
    <3> QED
      BY <3>2, <3>4, <3>5
  <2>3. bus = <<>> => sent = 0 /\ sent <= 1 + f.size
    BY LogFacts DEF Transfers
  <2>4. SubSeq(Logs!Bytes(f), 1, 0) = <<>>
    BY SubSeqEmpty
  <2> QED
    BY <2>1, <2>2, <2>3, <2>4 DEF Transfers
<1>6. CASE Logs!ReadFull
  <2>1. /\ Logs!Reading /\ frame' = Logs!Got(Chunk) /\ sent' = sent + Chunk /\ Logs!Left >= Chunk
        /\ UNCHANGED <<doing, live, bus, torn>>
    BY <1>6 DEF Logs!ReadFull, Logs!seen
  <2>2. Chunk \in 0 .. Logs!Left
    BY <2>1, LeftFacts, LogFacts
  <2>3. /\ sent + Chunk \in 0 .. 1 + bus[1].size
        /\ ~ torn => Logs!Got(Chunk) = SubSeq(Logs!Bytes(bus[1]), 1, sent + Chunk)
    BY <2>1, <2>2, GotFacts
  <2>4. bus # <<>> /\ live /\ doing = "reading" /\ bus[1].size \in Nat
    BY <2>1, LeftFacts, LogFacts
  <2>5. sent' <= 1 + bus[1].size
    BY <2>1, <2>3, <2>4
  <2> QED
    BY <2>1, <2>3, <2>4, <2>5 DEF Transfers
<1>8. CASE Logs!ReadShort
  <2>1. /\ Logs!Reading /\ Logs!EndOfFrame(Logs!Got(Logs!Left)) /\ bus' = Tail(bus) /\ sent' = 0
        /\ bus # <<>> /\ live' = live /\ torn' = torn
    BY <1>8 DEF Logs!ReadShort, Logs!Reading
  <2>2. doing' \in {"reading", "splitting"} /\ (doing' = "reading" => frame' = <<>>)
    BY <2>1 DEF Logs!EndOfFrame
  <2>3. bus' # <<>> => 0 <= 1 + bus'[1].size /\ SubSeq(Logs!Bytes(bus'[1]), 1, 0) = <<>>
    <3>1. bus' \in Seq(BusFrame)
      BY <2>1, HeadTailProperties DEF LogsTyped
    <3>2. bus' # <<>> => bus'[1] \in BusFrame
      BY <3>1
    <3>3. bus' # <<>> => bus'[1].size \in Nat
      BY <3>2, LogFacts DEF BusFrame
    <3> QED
      BY <3>3, SubSeqEmpty
  <2> QED
    BY <2>1, <2>2, <2>3 DEF Transfers
<1>9. CASE Logs!ReadPart
  <2> PICK n \in 1 .. Chunk - 1 : n < Logs!Left /\ Logs!EndOfFrame(Logs!Got(n)) /\ sent' = sent + n
    BY <1>9 DEF Logs!ReadPart
  <2>1. Logs!Reading /\ torn' = TRUE /\ UNCHANGED <<live, bus>>
    BY <1>9 DEF Logs!ReadPart
  <2>2. n \in 0 .. Logs!Left
    BY <2>1, LeftFacts, LogFacts
  <2>3. sent + n \in 0 .. 1 + bus[1].size
    BY <2>1, <2>2, GotFacts
  <2>4. sent' <= 1 + bus[1].size /\ bus # <<>> /\ live
    BY <2>1, <2>3, LeftFacts, LogFacts
  <2>5. doing' \in {"reading", "splitting"}
    BY DEF Logs!EndOfFrame
  <2> QED
    BY <2>1, <2>4, <2>5 DEF Transfers
<1> QED
  BY <1>1, <1>2, <1>3, <1>5, <1>6, <1>8, <1>9 DEF Logs!Next, Logs!HostStep

(* The rest of a sequence grows with it. *)
LEMMA SubSeqGrows ==
  ASSUME NEW S, NEW s \in Seq(S), NEW e \in Seq(S), NEW c \in 0 .. Len(s)
  PROVE  SubSeq(s, c + 1, Len(s)) \o e = SubSeq(s \o e, c + 1, Len(s \o e))
<1> DEFINE l == s \o e
           r == SubSeq(s, c + 1, Len(s))
<1>1. /\ l \in Seq(S) /\ Len(l) = Len(s) + Len(e) /\ Len(s) \in Nat /\ Len(e) \in Nat
      /\ \A i \in 1 .. Len(s) + Len(e) : l[i] = IF i <= Len(s) THEN s[i] ELSE e[i - Len(s)]
  BY ConcatProperties
<1>2. SubSeq(l, 1, Len(s)) = s /\ SubSeq(l, Len(s) + 1, Len(l)) = e
  BY <1>1
<1>3. SubSeq(l, c + 1, Len(s)) = r
  BY <1>1
<1> HIDE DEF l, r
<1>n. c + 1 \in Nat /\ Len(l) \in Nat /\ Len(s) <= Len(l)
  BY <1>1
<1> PICK m \in Nat, k \in Nat, n \in Nat : m = c + 1 /\ k = Len(s) /\ n = Len(l) /\ k <= n
  BY <1>1, <1>n
<1>4. m \in 1 .. n + 1 /\ k \in m - 1 .. n /\ n \in k .. n
  OBVIOUS
<1>5. SubSeq(l, m, k) \o SubSeq(l, k + 1, n) = SubSeq(l, m, n)
  BY <1>1, <1>4, ConcatAdjacentSubSeq
<1> QED
  BY <1>2, <1>3, <1>5 DEF l, r

LEMMA RestAppends ==
  ASSUME NEW S, NEW s \in Seq(S), NEW x \in S, NEW c \in 0 .. Len(s)
  PROVE  /\ SubSeq(Append(s, x), c + 1, Len(Append(s, x))) = Append(SubSeq(s, c + 1, Len(s)), x)
         /\ SubSeq(s, c + 1, Len(s)) \in Seq(S)
<1> DEFINE r == SubSeq(s, c + 1, Len(s))
<1>1. Append(s, x) = s \o <<x>> /\ <<x>> \in Seq(S)
  BY AppendIsConcat
<1>2. r \in Seq(S)
  <2>1. \A i \in c + 1 .. Len(s) : s[i] \in S
    BY ElementOfSeq
  <2> QED
    BY <2>1, SubSeqProperties
<1>3. Append(r, x) = r \o <<x>>
  BY <1>2, AppendIsConcat
<1>4. r \o <<x>> = SubSeq(s \o <<x>>, c + 1, Len(s \o <<x>>))
  BY <1>1, SubSeqGrows
<1> QED
  BY <1>1, <1>2, <1>3, <1>4

-----------------------------------------------------------------------------
(* fl logs: what is printed, of the records that came in this connection. *)
Cut == Len(heard) - Len(records)

Here == SubSeq(printed, since + 1, Len(printed))

Followed ==
  ~ torn =>
    /\ Cut \in Logs!Terminators(heard) \cup {0}
    /\ records = SubSeq(heard, Cut + 1, Len(heard))
    /\ LinesOf(Here, heard, WantedSpans(options.filter, heard, Cut))
    /\ doing = "reading" => Logs!Terminators(records) = {}

Limited ==
  /\ Len(printed) <= IF options.limit = 0 THEN 1 ELSE options.limit
  /\ printed # <<>> /\ Len(printed) >= options.limit => doing = "done"

LogsInv == LogsTyped /\ Transfers /\ Followed /\ Limited

(* A step that brings no record, or ends what there was of a connection. *)
Idle ==
  /\ UNCHANGED <<heard, records, printed, since, torn>> /\ options' = options
  /\ doing' = "reading" => doing = "reading" \/ Logs!Terminators(records) = {}

LEMMA LogsSteps ==
  ASSUME LogsTyped, Logs!Next
  PROVE  Idle \/ Logs!Connect \/ Logs!ReadShort \/ Logs!ReadPart \/ Logs!NextRecord
<1>1. CASE Logs!StopAtDeadline \/ Logs!Disconnected \/ Logs!TimePasses
  BY <1>1 DEF Logs!StopAtDeadline, Logs!Disconnected, Logs!TimePasses, Idle,
     Logs!host, Logs!reader, Logs!seen
<1>2. CASE Logs!Unplug \/ Logs!Plug \/ Logs!DeviceSends \/ Logs!ReadFull \/ Logs!FrameDone
  BY <1>2 DEF Logs!Unplug, Logs!Plug, Logs!DeviceSends, Logs!ReadFull, Logs!FrameDone, Idle,
     Logs!host, Logs!reader, Logs!seen
<1> QED
  BY <1>1, <1>2 DEF Logs!Next, Logs!HostStep

(* Nothing was printed of a connection that has just been made. *)
LEMMA FreshConnection ==
  ASSUME NEW filter
  PROVE  /\ LinesOf(<<>>, <<>>, WantedSpans(filter, <<>>, 0))
         /\ Logs!Terminators(<<>>) = {}
<1>1. Len(<<>>) = 0 /\ 1 .. 0 = {}
  OBVIOUS
<1>2. Logs!Terminators(<<>>) = {}
  BY <1>1 DEF Logs!Terminators
<1>3. WantedSpans(filter, <<>>, 0) = {}
  BY <1>2 DEF WantedSpans, Logs!Spans
<1> QED
  BY <1>1, <1>2, <1>3, FS_EmptySet DEF LinesOf

LEMMA FollowedShort ==
  ASSUME LogsTyped, Transfers, Followed, Logs!ReadShort
  PROVE  Followed'
<1> SUFFICES ASSUME ~ torn PROVE Followed'
  BY DEF Logs!ReadShort, Followed
<1> DEFINE f == bus[1]
           run == IF f.log THEN Logs!Run(f.after, f.size) ELSE <<>>
<1>1. /\ Logs!Reading /\ Logs!EndOfFrame(Logs!Got(Logs!Left)) /\ torn' = torn
      /\ heard' = IF f.log THEN heard \o Logs!Run(f.after, f.size) ELSE heard
      /\ UNCHANGED <<options, printed, since>>
  BY DEF Logs!ReadShort, Logs!host
<1>2. f \in BusFrame /\ Logs!Left \in Nat /\ Logs!Left \in 0 .. Logs!Left /\ doing = "reading"
  BY <1>1, LeftFacts
<1>3. Logs!Got(Logs!Left) = Logs!Bytes(f)
  BY <1>1, <1>2, GotFacts
<1>4. /\ Logs!Bytes(f) \in Seq(Symbol) /\ Len(Logs!Bytes(f)) = 1 + f.size /\ f.size \in Nat
      /\ f.log => /\ Logs!Bytes(f)[1] = Logs!TypeLog
                  /\ Tail(Logs!Bytes(f)) = Logs!Run(f.after, f.size)
                  /\ Logs!Run(f.after, f.size) \in Seq(Symbol)
      /\ ~ f.log => Logs!Bytes(f)[1] # Logs!TypeLog
  BY <1>2, BytesFacts
<1>5. Logs!Bytes(f) # <<>>
  BY <1>4, EmptySeq
<1>6. /\ f.log => doing' = "splitting" /\ records' = records \o Logs!Run(f.after, f.size)
      /\ ~ f.log => doing' = "reading" /\ records' = records
  BY <1>1, <1>3, <1>4, <1>5 DEF Logs!EndOfFrame
<1>7. CASE ~ f.log
  <2>1. UNCHANGED <<heard, records, printed, since, torn, options, doing>>
    BY <1>1, <1>2, <1>6, <1>7
  <2> QED
    BY <2>1 DEF Followed, Cut, Here
<1>8. CASE f.log
  <2> DEFINE e == Logs!Run(f.after, f.size)
  <2>1. /\ heard' = heard \o e /\ records' = records \o e /\ doing' = "splitting"
        /\ e \in Seq(Symbol) /\ heard \in Seq(Symbol) /\ records \in Seq(Symbol)
    BY <1>1, <1>4, <1>6, <1>8 DEF LogsTyped
  <2> HIDE DEF e, f
  <2>2. /\ Len(heard') = Len(heard) + Len(e) /\ Len(records') = Len(records) + Len(e)
        /\ Len(heard) \in Nat /\ Len(records) \in Nat /\ Len(e) \in Nat
    BY <2>1, ConcatProperties
  <2>3. Cut' = Cut
    BY <2>2 DEF Cut
  <2>4. /\ Cut \in Logs!Terminators(heard) \cup {0}
        /\ records = SubSeq(heard, Cut + 1, Len(heard))
        /\ LinesOf(Here, heard, WantedSpans(options.filter, heard, Cut))
    BY DEF Followed
  <2> PICK c : c = Cut
    OBVIOUS
  <2>5. c \in 0 .. Len(heard)
    BY <2>2, <2>4 DEF Logs!Terminators
  <2>6. c \in Logs!Terminators(heard') \cup {0}
    <3>1. Logs!Terminators(heard) \subseteq Logs!Terminators(heard \o e)
      BY <2>1, TerminatorFacts
    <3> QED
      BY <2>1, <2>4, <3>1
  <2>7. records' = SubSeq(heard', c + 1, Len(heard'))
    BY <2>1, <2>2, <2>4, <2>5, SubSeqGrows
  <2>8. LinesOf(Here, heard', WantedSpans(options.filter, heard', c))
    <3>1. /\ WantedSpans(options.filter, heard \o e, c) = WantedSpans(options.filter, heard, c)
          /\ \A w \in WantedSpans(options.filter, heard, c) : Logs!Line(heard \o e, w) = Logs!Line(heard, w)
      BY <2>1, <2>5, SpansGrow
    <3> QED
      BY <2>1, <2>4, <3>1 DEF LinesOf
  <2>9. Here' = Here
    BY <1>1 DEF Here
  <2> QED
    BY <1>1, <2>1, <2>3, <2>6, <2>7, <2>8, <2>9 DEF Followed
<1> QED
  BY <1>7, <1>8

LEMMA FollowedRecord ==
  ASSUME LogsTyped, Followed, Logs!NextRecord
  PROVE  Followed'
<1> SUFFICES ASSUME ~ torn PROVE Followed'
  BY DEF Logs!NextRecord, Logs!seen, Followed
<1>1. UNCHANGED <<options, heard, since, torn>>
  BY DEF Logs!NextRecord, Logs!host, Logs!seen
<1>0. PICK pos \in Logs!Terminators(records), line \in Seq(Symbol) :
        /\ \A t \in Logs!Terminators(records) : pos <= t
        /\ line = SubSeq(records, 1, pos - 1)
        /\ records' = SubSeq(records, pos + 1, Len(records)) /\ records' \in Seq(Symbol)
        /\ printed' = IF Wants(options.filter, line) THEN Append(printed, line) ELSE printed
        /\ doing' = IF Wants(options.filter, line) /\ Len(printed) + 1 >= options.limit
                    THEN "done" ELSE "splitting"
  BY NextRecordFacts
<1>f. PICK filter : filter = options.filter
  OBVIOUS
<1>c. PICK c : c = Cut
  OBVIOUS
<1>2. /\ heard \in Seq(Symbol) /\ Len(heard) \in Nat /\ records \in Seq(Symbol) /\ Len(records) \in Nat
      /\ c = Len(heard) - Len(records)
  BY <1>c DEF LogsTyped, Cut
<1>3. /\ c \in Logs!Terminators(heard) \cup {0}
      /\ records = SubSeq(heard, c + 1, Len(heard))
      /\ LinesOf(Here, heard, WantedSpans(filter, heard, c))
  BY <1>c, <1>f DEF Followed
<1>4. c \in 0 .. Len(heard)
  BY <1>2, <1>3 DEF Logs!Terminators
<1>e. PICK end : end = c + pos
  OBVIOUS
<1>5. /\ end \in Logs!Terminators(heard) /\ end \in 0 .. Len(heard) /\ pos \in 1 .. Len(records)
      /\ SameRest(records, pos, heard, end)
      /\ Logs!Line(heard, <<c, end>>) = line
      /\ \A w : /\ w \in Logs!Spans(heard) /\ w[2] <= end
               <=> (w \in Logs!Spans(heard) /\ w[2] <= c) \/ w = <<c, end>>
  <2>0. heard \in Seq(Symbol)
    BY DEF LogsTyped
  <2>1. /\ heard \in Seq(Symbol) /\ c \in 0 .. Len(heard) /\ c \in Logs!Terminators(heard) \cup {0}
        /\ records = SubSeq(heard, c + 1, Len(heard))
    BY <1>2, <1>3, <1>4
  <2>2. /\ pos \in Logs!Terminators(records) /\ \A t \in Logs!Terminators(records) : pos <= t
        /\ end = c + pos /\ line = SubSeq(records, 1, pos - 1)
    BY <1>0, <1>e
  <2>3. IsNext(heard, c, records, pos, end, line)
    BY <2>1, <2>2 DEF IsNext
  <2>4. end \in Logs!Terminators(heard) /\ end \in 0 .. Len(heard) /\ pos \in 1 .. Len(records)
    BY <2>0, <2>3, NextSpan
  <2>5. SameRest(records, pos, heard, end)
    BY <2>0, <2>3, NextSpan
  <2>6. Logs!Line(heard, <<c, end>>) = line
    BY <2>0, <2>3, NextSpan
  <2>7. \A w : /\ w \in Logs!Spans(heard) /\ w[2] <= end
             <=> (w \in Logs!Spans(heard) /\ w[2] <= c) \/ w = <<c, end>>
    BY <2>0, <2>3, NextSpan
  <2> QED
    BY <2>4, <2>5, <2>6, <2>7
<1>9. /\ Wants(filter, line) =>
           WantedSpans(filter, heard, end) = WantedSpans(filter, heard, c) \cup {<<c, end>>}
      /\ ~ Wants(filter, line) => WantedSpans(filter, heard, end) = WantedSpans(filter, heard, c)
  BY <1>5 DEF WantedSpans
<1>6. Cut' = end
  <2>1. Len(SubSeq(records, pos + 1, Len(records))) = Len(records) - pos
    BY <1>2, <1>5
  <2>2. Len(records') = Len(records) - pos
    BY <1>0, <2>1
  <2>3. Cut' = Len(heard) - (Len(records) - pos)
    BY <1>0, <1>1, <2>2 DEF Cut
  <2>p. pos \in Nat
    BY <1>5
  <2> PICK m \in Nat, k \in Nat : m = Len(heard) /\ k = Len(records)
    BY <1>2
  <2>4. m - (k - pos) = m - k + pos
    BY <2>p
  <2> QED
    BY <1>2, <1>e, <2>3, <2>4
<1>7. LinesOf(Here', heard, WantedSpans(filter, heard, end))
  <2>1. /\ IsFiniteSet(WantedSpans(filter, heard, c))
        /\ \A w \in WantedSpans(filter, heard, c) : w[2] \in Nat /\ w[2] <= c
    BY <1>2, SpansFinite
  <2>2. CASE ~ Wants(filter, line)
    <3>1. printed' = printed /\ Here' = Here
      BY <1>0, <1>1, <1>f, <2>2 DEF Here
    <3> QED
      BY <1>3, <1>9, <2>2, <3>1
  <2>3. CASE Wants(filter, line)
    <3>1. printed' = Append(printed, line) /\ line \in Seq(Symbol)
      BY <1>0, <1>f, <2>3
    <3>2. Here' = Append(Here, line) /\ Here \in Seq(Seq(Symbol))
      <4>1. printed \in Seq(Seq(Symbol)) /\ since \in 0 .. Len(printed)
        BY DEF LogsTyped
      <4>2. /\ SubSeq(Append(printed, line), since + 1, Len(Append(printed, line)))
                 = Append(SubSeq(printed, since + 1, Len(printed)), line)
            /\ SubSeq(printed, since + 1, Len(printed)) \in Seq(Seq(Symbol))
        BY <3>1, <4>1, RestAppends
      <4> QED
        BY <1>1, <3>1, <4>2 DEF Here
    <3>3. /\ c \in Nat /\ <<c, end>>[2] \in Nat /\ <<c, end>>[2] > c
      BY <1>4, <1>5, <1>e
    <3>4. LinesOf(Append(Here, line), heard, WantedSpans(filter, heard, c) \cup {<<c, end>>})
      BY <1>3, <1>5, <2>1, <3>1, <3>2, <3>3, LinesAppend
    <3> QED
      BY <1>9, <2>3, <3>2, <3>4
  <2> QED
    BY <2>2, <2>3
<1>8. records' = SubSeq(heard, end + 1, Len(heard)) /\ doing' # "reading"
  BY <1>0, <1>5 DEF SameRest
<1> QED
  BY <1>1, <1>5, <1>6, <1>7, <1>8, <1>f DEF Followed

LEMMA FollowedNext ==
  ASSUME LogsTyped, Transfers, Followed, Logs!Next
  PROVE  Followed'
<1>1. CASE Idle
  BY <1>1 DEF Idle, Followed, Cut, Here
<1>2. CASE Logs!Connect
  <2>1. /\ records' = <<>> /\ heard' = <<>> /\ since' = Len(printed) /\ printed' = printed
    BY <1>2 DEF Logs!Connect
  <2>2. printed \in Seq(Seq(Symbol)) /\ Len(printed) \in Nat
    BY DEF LogsTyped
  <2>3. Here' = <<>>
    <3>1. SubSeq(printed, Len(printed) + 1, Len(printed)) = <<>>
      BY <2>2, SubSeqEmpty
    <3> QED
      BY <2>1, <3>1 DEF Here
  <2>4. Len(<<>>) = 0 /\ 0 - 0 = 0 /\ SubSeq(<<>>, 0 + 1, 0) = <<>>
    BY SubSeqEmpty
  <2>5. Cut' = 0
    BY <2>1, <2>4 DEF Cut
  <2>6. LinesOf(Here', heard', WantedSpans(options'.filter, heard', 0))
    BY <2>1, <2>3, FreshConnection
  <2>7. Logs!Terminators(records') = {}
    BY <2>1, FreshConnection
  <2> QED
    BY <2>1, <2>4, <2>5, <2>6, <2>7 DEF Followed
<1>3. CASE Logs!ReadPart
  BY <1>3 DEF Logs!ReadPart, Followed
<1> QED
  BY <1>1, <1>2, <1>3, FollowedShort, FollowedRecord, LogsSteps

LEMMA LimitedNext ==
  ASSUME LogsTyped, Limited, Logs!Next
  PROVE  Limited'
<1>0. options.limit \in Nat /\ Len(printed) \in Nat
  BY LimitFacts DEF LogsTyped
<1>1. CASE ~ Logs!NextRecord
  <2>1. /\ UNCHANGED printed /\ options' = options
        /\ doing # "done" \/ doing' = "done"
    BY <1>1, LogsSteps
    DEF Logs!Next, Logs!HostStep, Logs!StopAtDeadline, Logs!Connect, Logs!Disconnected, Logs!ReadFull,
        Logs!ReadShort, Logs!ReadPart, Logs!FrameDone, Logs!DeviceSends, Logs!Unplug, Logs!Plug,
        Logs!TimePasses, Logs!Reading, Logs!Looks, Logs!host, Logs!reader
  <2> QED
    BY <2>1 DEF Limited
<1>2. CASE Logs!NextRecord
  <2>1. options' = options /\ doing = "splitting"
    BY <1>2 DEF Logs!NextRecord, Logs!host
  <2>2. printed = <<>> \/ Len(printed) < options.limit
    BY <1>0, <2>1 DEF Limited
  <2> PICK line \in Seq(Symbol) :
        /\ printed' = IF Wants(options.filter, line) THEN Append(printed, line) ELSE printed
        /\ doing' = IF Wants(options.filter, line) /\ Len(printed) + 1 >= options.limit
                    THEN "done" ELSE "splitting"
    BY <1>2, NextRecordFacts
  <2>3. CASE ~ Wants(options.filter, line)
    <3>1. printed' = printed /\ doing' = "splitting"
      BY <2>3
    <3> QED
      BY <2>1, <3>1 DEF Limited
  <2>4. CASE Wants(options.filter, line)
    <3>1. /\ printed' = Append(printed, line)
          /\ doing' = IF Len(printed) + 1 >= options.limit THEN "done" ELSE "splitting"
      BY <2>4
    <3>2. Len(printed') = Len(printed) + 1
      BY <3>1, AppendProperties DEF LogsTyped
    <3>3. Len(printed) = 0 \/ Len(printed) < options.limit
      BY <2>2
    <3>4. /\ Len(printed') <= IF options'.limit = 0 THEN 1 ELSE options'.limit
          /\ Len(printed') >= options'.limit => doing' = "done"
      BY <1>0, <2>1, <3>1, <3>2, <3>3
    <3> QED
      BY <3>4 DEF Limited
  <2> QED
    BY <2>3, <2>4
<1> QED
  BY <1>1, <1>2

LEMMA LogsNext == LogsInv /\ Logs!Next => LogsInv'
BY LogsTypedNext, TransfersNext, FollowedNext, LimitedNext DEF LogsInv

LEMMA LogsInit == Logs!Init => LogsInv
<1> SUFFICES ASSUME Logs!Init PROVE LogsInv
  OBVIOUS
<1>1. /\ options \in Logs!Options
      /\ due = FALSE /\ doing = "connecting"
      /\ frame = <<>> /\ records = <<>> /\ printed = <<>>
      /\ plugged = TRUE /\ unplugs = 0 /\ live = FALSE /\ made = 0 /\ bus = <<>> /\ sent = 0
      /\ since = 0 /\ heard = <<>> /\ torn = FALSE
  BY DEF Logs!Init
<1>2. \A S : <<>> \in Seq(S) /\ Len(<<>>) = 0
  BY EmptySeq
<1>3. 0 \in 0 .. MaxUnplugs /\ 0 \in 0 .. 3 * Len(Kind) /\ 0 <= MaxFrames /\ 0 \in 0 .. 0
  BY LogFacts
<1>4. LogsTyped
  BY <1>1, <1>2, <1>3 DEF LogsTyped
<1>5. Transfers
  BY <1>1 DEF Transfers
<1>6. Followed
  <2>1. Len(<<>>) = 0 /\ 0 - 0 = 0 /\ SubSeq(<<>>, 0 + 1, 0) = <<>>
    BY SubSeqEmpty
  <2>2. Cut = 0 /\ Here = <<>>
    BY <1>1, <2>1 DEF Cut, Here
  <2>3. LinesOf(<<>>, <<>>, WantedSpans(options.filter, <<>>, 0)) /\ Logs!Terminators(<<>>) = {}
    BY FreshConnection
  <2> QED
    BY <1>1, <2>1, <2>2, <2>3 DEF Followed
<1>7. Limited
  <2>1. options.limit \in Nat
    BY <1>1, LimitFacts
  <2> QED
    BY <1>1, <1>2, <2>1 DEF Limited
<1> QED
  BY <1>4, <1>5, <1>6, <1>7 DEF LogsInv

LEMMA LogsInvFacts == LogsInv => Logs!TypeOK /\ Logs!PrintsWanted
<1> SUFFICES ASSUME LogsInv PROVE Logs!TypeOK /\ Logs!PrintsWanted
  OBVIOUS
<1>0. LogsTyped /\ Transfers /\ Followed /\ Limited
  BY DEF LogsInv
<1>1. \A s \in {frame, records, heard} : \A i \in 1 .. Len(s) : s[i] \in Logs!Pieces \cup {Logs!TypeLog, Logs!TypeOther}
  <2>1. \A s \in {frame, records, heard} : s \in Seq(Symbol)
    BY <1>0 DEF LogsTyped
  <2> QED
    BY <2>1, ElementOfSeq, LogFacts
<1>2. Logs!TypeOK
  BY <1>0, <1>1 DEF LogsTyped, Logs!TypeOK
<1>3. ~ torn => Logs!AreWanted(SubSeq(printed, since + 1, Len(printed)), heard, Len(heard) - Len(records))
  BY <1>0, AreWantedFacts DEF Followed, Here, Cut
<1>4. Logs!PrintsWanted
  BY <1>0, <1>3 DEF Followed, Limited, Cut, Logs!PrintsWanted
<1> QED
  BY <1>2, <1>4

-----------------------------------------------------------------------------
(* fl piv: a TLV that can be read is shorter without what has been read. *)
Bytes == Seq(Piv!Byte)

LEMMA TlvOfFacts ==
  ASSUME NEW d \in Bytes, NEW header \in Nat, header > 0, NEW len \in Nat, Piv!TlvOf(d, header, len).ok
  PROVE  /\ Piv!TlvOf(d, header, len).value \in Bytes /\ Piv!TlvOf(d, header, len).rest \in Bytes
         /\ Len(Piv!TlvOf(d, header, len).rest) < Len(d)
<1>0. Len(d) \in Nat /\ \A i \in 1 .. Len(d) : d[i] \in Piv!Byte
  BY DEF Bytes
<1>1. ~ (Len(d) < header + len)
  BY DEF Piv!TlvOf, Piv!NoTlv
<1>2. /\ Piv!TlvOf(d, header, len).value = SubSeq(d, header + 1, header + len)
      /\ Piv!TlvOf(d, header, len).rest = SubSeq(d, header + len + 1, Len(d))
  BY <1>1 DEF Piv!TlvOf
<1>3. \A i \in header + 1 .. header + len : d[i] \in Piv!Byte
  BY <1>0, <1>1
<1>4. \A i \in header + len + 1 .. Len(d) : d[i] \in Piv!Byte
  BY <1>0, <1>1
<1>5. SubSeq(d, header + 1, header + len) \in Bytes
  BY <1>3, SubSeqProperties DEF Bytes
<1> PICK from \in Nat : from = header + len + 1
  OBVIOUS
<1>6. /\ SubSeq(d, from, Len(d)) \in Bytes
      /\ Len(SubSeq(d, from, Len(d))) = IF from <= Len(d) THEN Len(d) - from + 1 ELSE 0
  BY <1>0, <1>4, SubSeqProperties DEF Bytes
<1>7. Len(SubSeq(d, from, Len(d))) < Len(d)
  BY <1>0, <1>1, <1>6
<1> QED
  BY <1>2, <1>5, <1>6, <1>7

LEMMA ReadTlvFacts ==
  ASSUME NEW d \in Bytes, Piv!ReadTlv(d).ok
  PROVE  /\ Piv!ReadTlv(d).value \in Bytes /\ Piv!ReadTlv(d).rest \in Bytes
         /\ Len(Piv!ReadTlv(d).rest) < Len(d)
<1>0. Len(d) \in Nat /\ \A i \in 1 .. Len(d) : d[i] \in Nat
  <2>1. Len(d) \in Nat /\ \A i \in 1 .. Len(d) : d[i] \in Piv!Byte
    BY DEF Bytes
  <2>2. Piv!Byte \subseteq Nat
    BY DEF Piv!Byte
  <2> QED
    BY <2>1, <2>2
<1>1. ~ (Len(d) < 2) /\ 2 \in 1 .. Len(d)
  BY <1>0 DEF Piv!ReadTlv, Piv!NoTlv
<1>2. CASE d[2] = 129
  <2>1. ~ (Len(d) < 3) /\ Piv!ReadTlv(d) = Piv!TlvOf(d, 3, d[3])
    BY <1>1, <1>2 DEF Piv!ReadTlv, Piv!NoTlv
  <2>2. d[3] \in Nat
    BY <1>0, <2>1
  <2> QED
    BY <2>1, <2>2, TlvOfFacts
<1>3. CASE d[2] = 130
  <2>1. ~ (Len(d) < 4) /\ Piv!ReadTlv(d) = Piv!TlvOf(d, 4, 256 * d[3] + d[4])
    BY <1>1, <1>3 DEF Piv!ReadTlv, Piv!NoTlv
  <2>2. d[3] \in Nat /\ d[4] \in Nat
    BY <1>0, <2>1
  <2>3. 256 * d[3] + d[4] \in Nat
    BY <2>2
  <2> QED
    BY <2>1, <2>3, TlvOfFacts
<1>4. CASE d[2] # 129 /\ d[2] # 130
  <2>1. Piv!ReadTlv(d) = Piv!TlvOf(d, 2, d[2]) /\ d[2] \in Nat
    BY <1>0, <1>1, <1>4 DEF Piv!ReadTlv
  <2> QED
    BY <2>1, TlvOfFacts
<1> QED
  BY <1>2, <1>3, <1>4

-----------------------------------------------------------------------------
(***************************************************************************)
(* find_tlv goes on in what is left of the data, which is shorter: there   *)
(* is such a function on data of any length below a bound, of two they     *)
(* agree, and so there is one on all data.                                 *)
(***************************************************************************)
Found(g, d, tag) ==
  IF d = <<>> \/ ~ Piv!ReadTlv(d).ok THEN Piv!NoTlv
  ELSE IF Piv!ReadTlv(d).tag = tag THEN Piv!ReadTlv(d) ELSE g[Piv!ReadTlv(d).rest]

Below(n) == {d \in Bytes : Len(d) < n}

FindsBelow(g, n, tag) == g = [d \in Below(n) |-> Found(g, d, tag)]

IsFinder(g, tag) == g = [d \in Bytes |-> Found(g, d, tag)]

LEMMA FindersAgree ==
  ASSUME NEW tag, NEW g, NEW h, NEW m \in Nat, NEW n \in Nat,
         FindsBelow(g, m, tag), FindsBelow(h, n, tag)
  PROVE  \A d \in Below(m) \cap Below(n) : g[d] = h[d]
<1> SUFFICES ASSUME NEW d0 \in Below(m) \cap Below(n), g[d0] # h[d0] PROVE FALSE
  OBVIOUS
<1> DEFINE bad == {d \in Below(m) \cap Below(n) : g[d] # h[d]}
           lengths == {Len(d) : d \in bad}
<1>1. \A d \in Bytes : Len(d) \in Nat
  BY DEF Bytes
<1>2. lengths \subseteq Nat /\ lengths # {}
  BY <1>1 DEF Below
<1>3. PICK l \in lengths : \A k \in lengths : l <= k
  <2> HIDE DEF lengths
  <2> QED
    BY <1>2, LeastNumber
<1>4. PICK d \in bad : Len(d) = l
  BY <1>3
<1>5. d \in Bytes /\ Len(d) \in Nat /\ Len(d) < m /\ Len(d) < n /\ g[d] # h[d]
  BY <1>1, <1>4 DEF Below
<1>6. g[d] = Found(g, d, tag) /\ h[d] = Found(h, d, tag)
  BY <1>5 DEF FindsBelow, Below
<1> DEFINE r == Piv!ReadTlv(d).rest
<1>7. Piv!ReadTlv(d).ok /\ g[r] # h[r]
  BY <1>5, <1>6 DEF Found
<1>8. r \in Bytes /\ Len(r) < Len(d) /\ Len(r) \in Nat
  BY <1>1, <1>5, <1>7, ReadTlvFacts
<1> HIDE DEF r
<1>9. r \in bad
  BY <1>5, <1>7, <1>8 DEF Below
<1>10. l <= Len(r)
  BY <1>3, <1>9
<1> QED
  BY <1>4, <1>5, <1>8, <1>10

LEMMA FindersBelowExist ==
  ASSUME NEW tag
  PROVE  \A n \in Nat : \E g : FindsBelow(g, n, tag)
<1> SUFFICES ASSUME NEW n0 \in Nat, ~ \E g : FindsBelow(g, n0, tag) PROVE FALSE
  OBVIOUS
<1> DEFINE bad == {n \in Nat : ~ \E g : FindsBelow(g, n, tag)}
<1>1. PICK n \in bad : \A k \in bad : n <= k
  <2>1. bad \subseteq Nat /\ bad # {}
    OBVIOUS
  <2> HIDE DEF bad
  <2> QED
    BY <2>1, LeastNumber
<1>2. \A d \in Bytes : Len(d) \in Nat
  BY DEF Bytes
<1>3. n # 0
  <2>1. Below(0) = {}
    BY <1>2 DEF Below
  <2>2. [d \in Below(0) |-> 0] = [d \in Below(0) |-> Found([e \in Below(0) |-> 0], d, tag)]
    BY <2>1
  <2>3. FindsBelow([d \in Below(0) |-> 0], 0, tag)
    BY <2>2 DEF FindsBelow
  <2> QED
    BY <1>1, <2>3
<1>4. n - 1 \in Nat /\ n - 1 \notin bad
  BY <1>1, <1>3
<1>5. PICK g : FindsBelow(g, n - 1, tag)
  BY <1>4
<1> DEFINE h == [d \in Below(n) |-> Found(g, d, tag)]
<1>6. ASSUME NEW d \in Below(n) PROVE Found(g, d, tag) = Found(h, d, tag)
  <2>1. CASE ~ Piv!ReadTlv(d).ok
    BY <2>1 DEF Found
  <2>2. CASE Piv!ReadTlv(d).ok
    <3> DEFINE r == Piv!ReadTlv(d).rest
    <3>1. d \in Bytes /\ Len(d) < n
      BY DEF Below
    <3>2. r \in Bytes /\ Len(r) < Len(d)
      BY <2>2, <3>1, ReadTlvFacts
    <3>3. r \in Below(n - 1) /\ r \in Below(n)
      BY <1>2, <1>4, <3>1, <3>2 DEF Below
    <3>4. h[r] = Found(g, r, tag) /\ g[r] = Found(g, r, tag)
      BY <1>5, <3>3 DEF FindsBelow
    <3> QED
      BY <3>4 DEF Found
  <2> QED
    BY <2>1, <2>2
<1>7. FindsBelow(h, n, tag)
  BY <1>6 DEF FindsBelow
<1> QED
  BY <1>1, <1>7

LEMMA FinderExists == ASSUME NEW tag PROVE \E f : IsFinder(f, tag)
<1> DEFINE Sol(n) == CHOOSE g : FindsBelow(g, n, tag)
<1>1. \A n \in Nat : FindsBelow(Sol(n), n, tag)
  <2> TAKE n \in Nat
  <2>1. \E g : FindsBelow(g, n, tag)
    BY FindersBelowExist
  <2> QED
    BY <2>1
<1> HIDE DEF Sol
<1>2. \A d \in Bytes : Len(d) \in Nat
  BY DEF Bytes
<1> DEFINE f == [d \in Bytes |-> Sol(Len(d) + 1)[d]]
<1>3. ASSUME NEW d \in Bytes PROVE Sol(Len(d) + 1)[d] = Found(f, d, tag)
  <2> DEFINE n == Len(d) + 1
             s == Sol(n)
  <2>1. n \in Nat /\ d \in Below(n)
    BY <1>2, <1>3 DEF Below
  <2>2. s[d] = Found(s, d, tag)
    <3> HIDE DEF n
    <3>1. FindsBelow(s, n, tag)
      BY <1>1, <2>1
    <3> QED
      BY <2>1, <3>1 DEF FindsBelow
  <2>3. CASE ~ Piv!ReadTlv(d).ok
    BY <2>2, <2>3 DEF Found
  <2>4. CASE Piv!ReadTlv(d).ok
    <3> DEFINE r == Piv!ReadTlv(d).rest
               k == Len(r) + 1
    <3>1. r \in Bytes /\ Len(r) < Len(d) /\ Len(r) \in Nat /\ Len(d) \in Nat
      BY <1>2, <2>4, ReadTlvFacts
    <3>2. k \in Nat /\ r \in Below(n) /\ r \in Below(k)
      BY <3>1 DEF Below
    <3>3. f[r] = Sol(k)[r]
      BY <3>1
    <3>4. s[r] = Sol(k)[r]
      <4> HIDE DEF n, k, r
      <4>1. FindsBelow(s, n, tag) /\ FindsBelow(Sol(k), k, tag)
        BY <1>1, <2>1, <3>2
      <4> QED
        BY <2>1, <3>2, <4>1, FindersAgree
    <3>5. Sol(Len(d) + 1) = s
      OBVIOUS
    <3> HIDE DEF f, s, n
    <3> QED
      BY <2>2, <3>3, <3>4, <3>5 DEF Found
  <2> QED
    BY <2>3, <2>4
<1>4. f = [d \in Bytes |-> Found(f, d, tag)]
  BY <1>3
<1> HIDE DEF f
<1> QED
  BY <1>4 DEF IsFinder

(* What find_tlv finds is in the first TLV, or else in the rest. *)
LEMMA FindTlvIs ==
  ASSUME NEW tag, NEW d \in Bytes
  PROVE  /\ d = <<>> \/ ~ Piv!ReadTlv(d).ok => Piv!FindTlv(d, tag) = Piv!NoTlv
         /\ d # <<>> /\ Piv!ReadTlv(d).ok /\ Piv!ReadTlv(d).tag = tag =>
              Piv!FindTlv(d, tag) = Piv!ReadTlv(d)
         /\ d # <<>> /\ Piv!ReadTlv(d).ok /\ Piv!ReadTlv(d).tag # tag =>
              Piv!FindTlv(d, tag) = Piv!FindTlv(Piv!ReadTlv(d).rest, tag)
<1> DEFINE f == CHOOSE g : IsFinder(g, tag)
<1>1. \A e : Piv!FindTlv(e, tag) = f[e]
  BY DEF Piv!FindTlv, IsFinder, Found, Bytes
<1>2. IsFinder(f, tag)
  BY FinderExists
<1> HIDE DEF f
<1>3. f[d] = Found(f, d, tag)
  BY <1>2 DEF IsFinder
<1> QED
  BY <1>1, <1>3 DEF Found

-----------------------------------------------------------------------------
(* read_tlv reads what a TLV in any form was made of. *)
Laid(d, tag, header, value, n, rest, k) ==
  /\ header > 0 /\ d[1] = tag
  /\ value \in Bytes /\ Len(value) = n /\ rest \in Bytes /\ Len(rest) = k
  /\ d \in Bytes /\ Len(d) = header + n + k
  /\ \A i \in 1 .. n : d[header + i] = value[i]
  /\ \A i \in 1 .. k : d[header + n + i] = rest[i]

LEMMA ReadTlvForm ==
  ASSUME NEW d, NEW tag, NEW header \in Nat, NEW value, NEW n \in Nat, NEW rest, NEW k \in Nat,
         Laid(d, tag, header, value, n, rest, k)
  PROVE  Piv!TlvOf(d, header, n) = [tag |-> tag, value |-> value, rest |-> rest, ok |-> TRUE]
<1>0. /\ header > 0 /\ d[1] = tag
      /\ value \in Bytes /\ Len(value) = n /\ rest \in Bytes /\ Len(rest) = k
      /\ d \in Bytes /\ Len(d) = header + n + k
      /\ \A i \in 1 .. n : d[header + i] = value[i]
      /\ \A i \in 1 .. k : d[header + n + i] = rest[i]
  BY DEF Laid
<1>1. ~ (Len(d) < header + n)
  BY <1>0
<1>2. SubSeq(d, header + 1, header + n) = value
  <2>1. \A i \in 1 .. Len(d) : d[i] \in Piv!Byte
    BY <1>0 DEF Bytes
  <2>2. \A i \in header + 1 .. header + n : d[i] \in Piv!Byte
    BY <1>0, <2>1
  <2> DEFINE s == SubSeq(d, header + 1, header + n)
  <2>3. /\ s \in Bytes /\ Len(s) = IF header + 1 <= header + n THEN header + n - (header + 1) + 1 ELSE 0
        /\ \A i \in 1 .. header + n - (header + 1) + 1 : s[i] = d[header + 1 + i - 1]
    BY <2>2, SubSeqProperties DEF Bytes
  <2> HIDE DEF s
  <2>4. header + n - (header + 1) + 1 = n /\ (IF header + 1 <= header + n THEN n ELSE 0) = n
        /\ \A i \in 1 .. n : header + 1 + i - 1 = header + i
    OBVIOUS
  <2>5. Len(s) = n /\ \A i \in 1 .. n : s[i] = value[i]
    BY <1>0, <2>3, <2>4
  <2> QED
    BY <1>0, <2>3, <2>5, SeqEqual DEF Bytes, s
<1>3. SubSeq(d, header + n + 1, Len(d)) = rest
  <2>0. Len(d) \in Nat /\ header + n \in Nat /\ Len(d) = header + n + k
    BY <1>0 DEF Bytes
  <2> PICK from \in Nat, all \in Nat : from = header + n /\ all = Len(d) /\ all = from + k
    BY <2>0
  <2>1. \A i \in 1 .. all : d[i] \in Piv!Byte
    BY <1>0 DEF Bytes
  <2>2. \A i \in from + 1 .. all : d[i] \in Piv!Byte
    BY <2>1
  <2> DEFINE s == SubSeq(d, from + 1, all)
  <2>3. /\ s \in Bytes /\ Len(s) = IF from + 1 <= all THEN all - (from + 1) + 1 ELSE 0
        /\ \A i \in 1 .. all - (from + 1) + 1 : s[i] = d[from + 1 + i - 1]
    BY <2>2, SubSeqProperties DEF Bytes
  <2> HIDE DEF s
  <2>4. all - (from + 1) + 1 = k /\ (IF from + 1 <= all THEN k ELSE 0) = k
        /\ \A i \in 1 .. k : from + 1 + i - 1 = from + i
    OBVIOUS
  <2>5. Len(s) = k /\ \A i \in 1 .. k : s[i] = rest[i]
    BY <1>0, <2>3, <2>4
  <2> QED
    BY <1>0, <2>3, <2>5, SeqEqual DEF Bytes, s
<1> QED
  BY <1>0, <1>1, <1>2, <1>3 DEF Piv!TlvOf

(* The length of a TLV in any form, behind its tag. *)
LEMMA LengthsFacts ==
  ASSUME NEW n \in Nat, n < 65536, NEW l \in Piv!Lengths(n)
  PROVE  \/ /\ l = <<130, n \div 256, n % 256>> /\ n \div 256 \in Piv!Byte /\ n % 256 \in Piv!Byte
            /\ 256 * (n \div 256) + (n % 256) = n
         \/ l = <<129, n>> /\ n \in Piv!Byte
         \/ l = <<n>> /\ n \in 0 .. 127
<1>1. l = <<130, n \div 256, n % 256>> \/ (l = <<129, n>> /\ n < 256) \/ (l = <<n>> /\ n < 128)
  BY DEF Piv!Lengths
<1>3. n % 256 \in 0 .. 255 /\ 256 * (n \div 256) + (n % 256) = n /\ n \div 256 \in Int
  OBVIOUS
<1>4a. n \div 256 >= 0
  BY <1>3
<1>4. n \div 256 <= 255
  BY <1>3
<1>5. n \div 256 \in Piv!Byte /\ n % 256 \in Piv!Byte
  BY <1>3, <1>4a, <1>4 DEF Piv!Byte
<1>6. (n < 256 => n \in Piv!Byte) /\ (n < 128 => n \in 0 .. 127)
  BY DEF Piv!Byte
<1> QED
  BY <1>1, <1>3, <1>5, <1>6

Header(tag, l) == <<tag>> \o l

LEMMA HeaderIs ==
  ASSUME NEW tag \in Piv!Byte, NEW l \in Bytes
  PROVE  /\ Header(tag, l) \in Bytes /\ Len(Header(tag, l)) = 1 + Len(l) /\ Header(tag, l)[1] = tag
         /\ \A i \in 1 .. Len(l) : Header(tag, l)[i + 1] = l[i]
<1>1. <<tag>> \in Seq(Piv!Byte) /\ Len(<<tag>>) = 1 /\ <<tag>>[1] = tag /\ Len(l) \in Nat /\ l \in Seq(Piv!Byte)
  BY DEF Bytes
<1>2. /\ Header(tag, l) \in Seq(Piv!Byte) /\ Len(Header(tag, l)) = 1 + Len(l)
      /\ \A i \in 1 .. 1 + Len(l) : Header(tag, l)[i] = IF i <= 1 THEN <<tag>>[i] ELSE l[i - 1]
  <2>1. /\ <<tag>> \o l \in Seq(Piv!Byte) /\ Len(<<tag>> \o l) = Len(<<tag>>) + Len(l)
        /\ \A i \in 1 .. Len(<<tag>>) + Len(l) :
             (<<tag>> \o l)[i] = IF i <= Len(<<tag>>) THEN <<tag>>[i] ELSE l[i - Len(<<tag>>)]
    BY <1>1, ConcatProperties
  <2> QED
    BY <1>1, <2>1 DEF Header
<1>3. \A i \in 1 .. Len(l) : i + 1 \in 1 .. 1 + Len(l) /\ ~ (i + 1 <= 1) /\ i + 1 - 1 = i
  BY <1>1
<1>4. 1 \in 1 .. 1 + Len(l)
  BY <1>1
<1> QED
  BY <1>1, <1>2, <1>3, <1>4 DEF Bytes

LEMMA HeaderFacts ==
  ASSUME NEW tag \in Piv!Byte, NEW n \in Nat, n < 65536, NEW l \in Piv!Lengths(n)
  PROVE  /\ Header(tag, l) \in Bytes /\ Len(Header(tag, l)) \in 2 .. 4 /\ Header(tag, l)[1] = tag
         /\ \A d \in Bytes :
              /\ Len(d) >= Len(Header(tag, l))
              /\ \A i \in 1 .. Len(Header(tag, l)) : d[i] = Header(tag, l)[i]
              => Piv!ReadTlv(d) = Piv!TlvOf(d, Len(Header(tag, l)), n)
<1>0. \A d \in Bytes : Len(d) \in Nat
  BY DEF Bytes
<1>1. CASE /\ l = <<130, n \div 256, n % 256>> /\ n \div 256 \in Piv!Byte /\ n % 256 \in Piv!Byte
           /\ 256 * (n \div 256) + (n % 256) = n
  <2>0. PICK a \in Piv!Byte, b \in Piv!Byte : l = <<130, a, b>> /\ 256 * a + b = n
    BY <1>1
  <2>1. 130 \in Piv!Byte
    BY DEF Piv!Byte
  <2>2. l \in Bytes /\ Len(l) = 3 /\ l[1] = 130 /\ l[2] = a /\ l[3] = b
    BY <2>0, <2>1 DEF Bytes
  <2>h. /\ Header(tag, l) \in Bytes /\ Len(Header(tag, l)) = 1 + Len(l) /\ Header(tag, l)[1] = tag
        /\ \A i \in 1 .. Len(l) : Header(tag, l)[i + 1] = l[i]
    <3>1. l \in Bytes
      BY <2>2
    <3> QED
      BY <3>1, HeaderIs
  <2>3. Header(tag, l) \in Bytes /\ Len(Header(tag, l)) = 1 + 3 /\ Header(tag, l)[1] = tag /\ \A i \in 1 .. 3 : Header(tag, l)[i + 1] = l[i]
    BY <2>2, <2>h
  <2>4. Header(tag, l)[1 + 1] = 130 /\ Header(tag, l)[2 + 1] = a /\ Header(tag, l)[3 + 1] = b
    BY <2>2, <2>3
  <2>5. Len(Header(tag, l)) = 4 /\ Header(tag, l)[2] = 130 /\ Header(tag, l)[3] = a /\ Header(tag, l)[4] = b
    BY <2>3, <2>4
  <2>6. ASSUME NEW d \in Bytes, Len(d) >= 4, \A i \in 1 .. 4 : d[i] = Header(tag, l)[i]
        PROVE  Piv!ReadTlv(d) = Piv!TlvOf(d, 4, n)
    <3>1. d[2] = 130 /\ d[3] = a /\ d[4] = b
      BY <2>5, <2>6
    <3>2. ~ (Len(d) < 2) /\ ~ (Len(d) < 4)
      BY <1>0, <2>6
    <3>3. Piv!ReadTlv(d) = Piv!TlvOf(d, 4, 256 * d[3] + d[4])
      BY <3>1, <3>2 DEF Piv!ReadTlv
    <3> QED
      BY <2>0, <3>1, <3>3
  <2> QED
    BY <2>3, <2>5, <2>6
<1>2. CASE l = <<129, n>> /\ n \in Piv!Byte
  <2>1. 129 \in Piv!Byte
    BY DEF Piv!Byte
  <2>2. l \in Bytes /\ Len(l) = 2 /\ l[1] = 129 /\ l[2] = n
    BY <1>2, <2>1 DEF Bytes
  <2>h. /\ Header(tag, l) \in Bytes /\ Len(Header(tag, l)) = 1 + Len(l) /\ Header(tag, l)[1] = tag
        /\ \A i \in 1 .. Len(l) : Header(tag, l)[i + 1] = l[i]
    <3>1. l \in Bytes
      BY <2>2
    <3> QED
      BY <3>1, HeaderIs
  <2>3. Header(tag, l) \in Bytes /\ Len(Header(tag, l)) = 1 + 2 /\ Header(tag, l)[1] = tag /\ \A i \in 1 .. 2 : Header(tag, l)[i + 1] = l[i]
    BY <2>2, <2>h
  <2>4. Header(tag, l)[1 + 1] = 129 /\ Header(tag, l)[2 + 1] = n
    BY <2>2, <2>3
  <2>5. Len(Header(tag, l)) = 3 /\ Header(tag, l)[2] = 129 /\ Header(tag, l)[3] = n
    BY <2>3, <2>4
  <2>6. ASSUME NEW d \in Bytes, Len(d) >= 3, \A i \in 1 .. 3 : d[i] = Header(tag, l)[i]
        PROVE  Piv!ReadTlv(d) = Piv!TlvOf(d, 3, n)
    <3>1. d[2] = 129 /\ d[3] = n
      BY <2>5, <2>6
    <3>2. ~ (Len(d) < 2) /\ ~ (Len(d) < 3)
      BY <1>0, <2>6
    <3> QED
      BY <3>1, <3>2 DEF Piv!ReadTlv
  <2> QED
    BY <2>3, <2>5, <2>6
<1>3. CASE l = <<n>> /\ n \in 0 .. 127
  <2>1. n \in Piv!Byte /\ n # 129 /\ n # 130
    BY <1>3 DEF Piv!Byte
  <2>2. l \in Bytes /\ Len(l) = 1 /\ l[1] = n
    BY <1>3, <2>1 DEF Bytes
  <2>h. /\ Header(tag, l) \in Bytes /\ Len(Header(tag, l)) = 1 + Len(l) /\ Header(tag, l)[1] = tag
        /\ \A i \in 1 .. Len(l) : Header(tag, l)[i + 1] = l[i]
    <3>1. l \in Bytes
      BY <2>2
    <3> QED
      BY <3>1, HeaderIs
  <2>3. Header(tag, l) \in Bytes /\ Len(Header(tag, l)) = 1 + 1 /\ Header(tag, l)[1] = tag /\ \A i \in 1 .. 1 : Header(tag, l)[i + 1] = l[i]
    BY <2>2, <2>h
  <2>4. Header(tag, l)[1 + 1] = n
    BY <2>2, <2>3
  <2>5. Len(Header(tag, l)) = 2 /\ Header(tag, l)[2] = n
    BY <2>3, <2>4
  <2>6. ASSUME NEW d \in Bytes, Len(d) >= 2, \A i \in 1 .. 2 : d[i] = Header(tag, l)[i]
        PROVE  Piv!ReadTlv(d) = Piv!TlvOf(d, 2, n)
    <3>1. d[2] = n
      BY <2>5, <2>6
    <3>2. ~ (Len(d) < 2)
      BY <1>0, <2>6
    <3> QED
      BY <2>1, <3>1, <3>2 DEF Piv!ReadTlv
  <2> QED
    BY <2>3, <2>5, <2>6
<1> QED
  BY <1>1, <1>2, <1>3, LengthsFacts

(* A TLV that is followed by anything is read; one that is cut short is not. *)
LEMMA TlvFacts ==
  ASSUME NEW tag \in Piv!Byte, NEW value \in Bytes, Len(value) < 65536,
         NEW t \in Piv!Tlvs(tag, value)
  PROVE  /\ t \in Bytes /\ Len(t) \in 2 + Len(value) .. 4 + Len(value)
         /\ \A rest \in Bytes :
              /\ t \o rest # <<>> /\ t \o rest \in Bytes
              /\ Piv!ReadTlv(t \o rest) = [tag |-> tag, value |-> value, rest |-> rest, ok |-> TRUE]
         /\ Len(value) > 0 => ~ Piv!ReadTlv(SubSeq(t, 1, Len(t) - 1)).ok
<1>n. PICK n \in Nat : n = Len(value) /\ n < 65536
  BY DEF Bytes
<1>1. PICK l \in Piv!Lengths(n) : t = <<tag>> \o l \o value
  BY <1>n DEF Piv!Tlvs
<1>2. /\ Header(tag, l) \in Bytes /\ Len(Header(tag, l)) \in 2 .. 4 /\ Header(tag, l)[1] = tag
      /\ \A d \in Bytes :
           /\ Len(d) >= Len(Header(tag, l))
           /\ \A i \in 1 .. Len(Header(tag, l)) : d[i] = Header(tag, l)[i]
           => Piv!ReadTlv(d) = Piv!TlvOf(d, Len(Header(tag, l)), n)
  BY <1>n, HeaderFacts
<1>h. PICK hd : hd = Header(tag, l)
  OBVIOUS
<1>3a. /\ hd \in Bytes /\ Len(hd) \in 2 .. 4 /\ hd[1] = tag
       /\ \A d \in Bytes :
            /\ Len(d) >= Len(hd) /\ \A i \in 1 .. Len(hd) : d[i] = hd[i]
            => Piv!ReadTlv(d) = Piv!TlvOf(d, Len(hd), n)
  BY <1>2, <1>h
<1>k. PICK k \in 2 .. 4 : k = Len(hd)
  BY <1>3a
<1>3. /\ hd \in Bytes /\ Len(hd) = k /\ k \in Nat /\ k > 0 /\ hd[1] = tag
      /\ \A d \in Bytes : Len(d) >= k /\ (\A i \in 1 .. k : d[i] = hd[i]) => Piv!ReadTlv(d) = Piv!TlvOf(d, k, n)
  BY <1>3a, <1>k
<1>4. t = hd \o value
  BY <1>1, <1>h DEF Header
<1>5. /\ t \in Bytes /\ Len(t) = k + n
      /\ \A i \in 1 .. k + n : t[i] = IF i <= k THEN hd[i] ELSE value[i - k]
  <2>1. /\ hd \o value \in Seq(Piv!Byte) /\ Len(hd \o value) = Len(hd) + Len(value)
        /\ \A i \in 1 .. Len(hd) + Len(value) :
             (hd \o value)[i] = IF i <= Len(hd) THEN hd[i] ELSE value[i - Len(hd)]
    <3>1. hd \in Seq(Piv!Byte) /\ value \in Seq(Piv!Byte)
      BY <1>3 DEF Bytes
    <3> QED
      BY <3>1, ConcatProperties
  <2> QED
    BY <1>n, <1>3, <1>4, <2>1 DEF Bytes
<1>6. ASSUME NEW rest \in Bytes
      PROVE  /\ t \o rest # <<>> /\ t \o rest \in Bytes
             /\ Piv!ReadTlv(t \o rest) = [tag |-> tag, value |-> value, rest |-> rest, ok |-> TRUE]
  <2> DEFINE d == t \o rest
  <2>m. PICK m \in Nat : m = Len(rest)
    BY DEF Bytes
  <2>1. /\ d \in Bytes /\ Len(d) = k + n + m
        /\ \A i \in 1 .. k + n + m : d[i] = IF i <= k + n THEN t[i] ELSE rest[i - (k + n)]
    <3>1. /\ t \o rest \in Seq(Piv!Byte) /\ Len(t \o rest) = Len(t) + Len(rest)
          /\ \A i \in 1 .. Len(t) + Len(rest) : (t \o rest)[i] = IF i <= Len(t) THEN t[i] ELSE rest[i - Len(t)]
      <4>1. t \in Seq(Piv!Byte) /\ rest \in Seq(Piv!Byte)
        BY <1>5 DEF Bytes
      <4> HIDE DEF d
      <4> QED
        BY <4>1, ConcatProperties
    <3> QED
      BY <1>5, <2>m, <3>1 DEF Bytes
  <2> HIDE DEF d
  <2>2. \A i \in 1 .. k : i \in 1 .. k + n /\ i \in 1 .. k + n + m /\ i <= k + n
    OBVIOUS
  <2>3. \A i \in 1 .. k : d[i] = hd[i]
    BY <1>5, <2>1, <2>2
  <2>4. \A i \in 1 .. n : d[k + i] = value[i]
    <3> TAKE i \in 1 .. n
    <3>1. k + i \in 1 .. k + n /\ k + i \in 1 .. k + n + m /\ k + i <= k + n /\ ~ (k + i <= k) /\ k + i - k = i
      OBVIOUS
    <3> QED
      BY <1>5, <2>1, <3>1
  <2>5. \A i \in 1 .. m : d[k + n + i] = rest[i]
    <3> TAKE i \in 1 .. m
    <3>1. k + n + i \in 1 .. k + n + m /\ ~ (k + n + i <= k + n) /\ k + n + i - (k + n) = i
      OBVIOUS
    <3> QED
      BY <2>1, <3>1
  <2>6. Len(d) >= k /\ k > 0 /\ d[1] = tag /\ d # <<>>
    <3>1. 1 \in 1 .. k
      OBVIOUS
    <3>2. Len(d) > 0
      BY <2>1
    <3> QED
      BY <1>3, <2>1, <2>3, <3>1, <3>2
  <2>7. Piv!ReadTlv(d) = Piv!TlvOf(d, k, n)
    BY <1>3, <2>1, <2>3, <2>6
  <2>8. Piv!TlvOf(d, k, n) = [tag |-> tag, value |-> value, rest |-> rest, ok |-> TRUE]
    <3>1. Len(d) = k + n + m
      BY <2>1
    <3>2. Laid(d, tag, k, value, n, rest, m)
      BY <1>n, <1>3, <2>1, <2>m, <2>4, <2>5, <2>6, <3>1 DEF Laid
    <3> QED
      BY <1>3, <3>2, ReadTlvForm
  <2> QED
    BY <2>1, <2>6, <2>7, <2>8 DEF d
<1>7. ASSUME n > 0 PROVE ~ Piv!ReadTlv(SubSeq(t, 1, Len(t) - 1)).ok
  <2> DEFINE d == SubSeq(t, 1, Len(t) - 1)
  <2>n. k + n - 1 \in Nat /\ k + n - 1 >= k
    BY <1>7
  <2> PICK m \in Nat : m = k + n - 1 /\ m >= k
    BY <2>n
  <2>0. \A i \in 1 .. m : t[i] \in Piv!Byte
    BY <1>5 DEF Bytes
  <2>1. d = SubSeq(t, 1, m)
    BY <1>5
  <2>2. d \in Bytes /\ Len(d) = m /\ \A i \in 1 .. m : d[i] = t[i]
    <3>1. /\ SubSeq(t, 1, m) \in Bytes /\ Len(SubSeq(t, 1, m)) = IF 1 <= m THEN m - 1 + 1 ELSE 0
          /\ \A i \in 1 .. m - 1 + 1 : SubSeq(t, 1, m)[i] = t[1 + i - 1]
      BY <2>0, SubSeqProperties DEF Bytes
    <3>2. m - 1 + 1 = m /\ (1 <= m) /\ \A i \in 1 .. m : 1 + i - 1 = i
      OBVIOUS
    <3> QED
      BY <2>1, <3>1, <3>2
  <2> HIDE DEF d
  <2>3. \A i \in 1 .. k : d[i] = hd[i]
    <3>1. \A i \in 1 .. k : i \in 1 .. m /\ i \in 1 .. k + n
      OBVIOUS
    <3> QED
      BY <1>5, <2>2, <3>1
  <2>4. Piv!ReadTlv(d) = Piv!TlvOf(d, k, n)
    BY <1>3, <2>2, <2>3
  <2>5. Len(d) < k + n
    BY <2>2
  <2> QED
    BY <2>4, <2>5 DEF Piv!TlvOf, Piv!NoTlv, d
<1>8. Len(t) \in 2 + n .. 4 + n
  BY <1>5
<1> QED
  BY <1>n, <1>5, <1>6, <1>7, <1>8

(* A TLV at the front of data, and the search for one with this tag. *)
ReadsAs(d, tag, value, rest) ==
  /\ d \in Bytes /\ d # <<>> /\ Piv!ReadTlv(d) = [tag |-> tag, value |-> value, rest |-> rest, ok |-> TRUE]

Holds(t, value) == t.value = value /\ t.ok = TRUE

LEMMA TlvReads ==
  ASSUME NEW tag \in Piv!Byte, NEW value \in Bytes, Len(value) < 65536,
         NEW t \in Piv!Tlvs(tag, value), NEW rest \in Bytes
  PROVE  ReadsAs(t \o rest, tag, value, rest)
<1>1. \A r \in Bytes :
        /\ t \o r # <<>> /\ t \o r \in Bytes
        /\ Piv!ReadTlv(t \o r) = [tag |-> tag, value |-> value, rest |-> r, ok |-> TRUE]
  BY TlvFacts
<1> QED
  BY <1>1 DEF ReadsAs

LEMMA ByteSeqFacts ==
  /\ <<>> \in Bytes
  /\ \A s \in Bytes : s \o <<>> = s /\ Len(s) \in Nat
  /\ \A s, t \in Bytes : s \o t \in Bytes /\ Len(s \o t) = Len(s) + Len(t)
  /\ \A a, b, c \in Piv!Byte : <<a>> \o <<b>> = <<a, b>> /\ <<a>> \o <<b>> \o <<c>> = <<a, b, c>>
<1>1. <<>> \in Bytes /\ \A s \in Bytes : s \o <<>> = s /\ Len(s) \in Nat
  BY ConcatEmptySeq DEF Bytes
<1>2. ASSUME NEW s \in Bytes, NEW t \in Bytes PROVE s \o t \in Bytes /\ Len(s \o t) = Len(s) + Len(t)
  BY ConcatProperties DEF Bytes
<1>3. ASSUME NEW a \in Piv!Byte, NEW b \in Piv!Byte, NEW c \in Piv!Byte
      PROVE  <<a>> \o <<b>> = <<a, b>> /\ <<a>> \o <<b>> \o <<c>> = <<a, b, c>>
  <2>1. ASSUME NEW s \in Seq(Piv!Byte), NEW e \in Piv!Byte
        PROVE  /\ s \o <<e>> \in Seq(Piv!Byte) /\ Len(s \o <<e>>) = Len(s) + 1
               /\ \A i \in 1 .. Len(s) + 1 : (s \o <<e>>)[i] = IF i <= Len(s) THEN s[i] ELSE e
    <3>1. <<e>> \in Seq(Piv!Byte) /\ Len(<<e>>) = 1 /\ <<e>>[1] = e
      OBVIOUS
    <3>2. /\ s \o <<e>> \in Seq(Piv!Byte) /\ Len(s \o <<e>>) = Len(s) + Len(<<e>>)
          /\ \A i \in 1 .. Len(s) + Len(<<e>>) :
               (s \o <<e>>)[i] = IF i <= Len(s) THEN s[i] ELSE <<e>>[i - Len(s)]
      BY <3>1, ConcatProperties
    <3>3. \A i \in 1 .. Len(s) + 1 : i <= Len(s) \/ i - Len(s) = 1
      OBVIOUS
    <3> QED
      BY <3>1, <3>2, <3>3
  <2>2. PICK u : u = <<a>> \o <<b>>
    OBVIOUS
  <2>3. /\ u \in Seq(Piv!Byte) /\ Len(u) = 2 /\ u[1] = a /\ u[2] = b
    BY <2>1, <2>2
  <2>4. u = <<a, b>>
    <3>1. <<a, b>> \in Seq(Piv!Byte) /\ Len(<<a, b>>) = 2 /\ <<a, b>>[1] = a /\ <<a, b>>[2] = b
      OBVIOUS
    <3>2. \A i \in 1 .. 2 : i = 1 \/ i = 2
      OBVIOUS
    <3>3. Len(u) = Len(<<a, b>>) /\ \A i \in 1 .. Len(u) : u[i] = <<a, b>>[i]
      BY <2>3, <3>1, <3>2
    <3> QED
      BY <2>3, <3>1, <3>3, SeqEqual
  <2>5. PICK w : w = u \o <<c>>
    OBVIOUS
  <2>6. /\ w \in Seq(Piv!Byte) /\ Len(w) = 3 /\ w[1] = a /\ w[2] = b /\ w[3] = c
    <3>1. /\ w \in Seq(Piv!Byte) /\ Len(w) = Len(u) + 1
          /\ \A i \in 1 .. Len(u) + 1 : w[i] = IF i <= Len(u) THEN u[i] ELSE c
      BY <2>1, <2>3, <2>5
    <3>2. /\ Len(u) + 1 = 3 /\ 1 \in 1 .. Len(u) + 1 /\ 2 \in 1 .. Len(u) + 1 /\ 3 \in 1 .. Len(u) + 1
          /\ 1 <= Len(u) /\ 2 <= Len(u) /\ ~ (3 <= Len(u))
      BY <2>3
    <3>3. w[1] = u[1] /\ w[2] = u[2] /\ w[3] = c
      BY <3>1, <3>2
    <3> QED
      BY <2>3, <3>1, <3>2, <3>3
  <2>7. w = <<a, b, c>>
    <3>1. /\ <<a, b, c>> \in Seq(Piv!Byte) /\ Len(<<a, b, c>>) = 3
          /\ <<a, b, c>>[1] = a /\ <<a, b, c>>[2] = b /\ <<a, b, c>>[3] = c
      OBVIOUS
    <3>2. \A i \in 1 .. 3 : i = 1 \/ i = 2 \/ i = 3
      OBVIOUS
    <3>3. Len(w) = Len(<<a, b, c>>) /\ \A i \in 1 .. Len(w) : w[i] = <<a, b, c>>[i]
      BY <2>6, <3>1, <3>2
    <3> QED
      BY <2>6, <3>1, <3>3, SeqEqual
  <2> QED
    BY <2>2, <2>4, <2>5, <2>7
<1> QED
  BY <1>1, <1>2, <1>3

LEMMA TlvReadsAlone ==
  ASSUME NEW tag \in Piv!Byte, NEW value \in Bytes, Len(value) < 65536,
         NEW t \in Piv!Tlvs(tag, value)
  PROVE  t \in Bytes /\ ReadsAs(t, tag, value, <<>>)
<1>1. t \in Bytes
  BY TlvFacts
<1>2. t \o <<>> = t
  BY <1>1, ByteSeqFacts
<1>3. ReadsAs(t \o <<>>, tag, value, <<>>)
  <2>e. PICK e \in Bytes : e = <<>>
    BY ByteSeqFacts
  <2>1. ReadsAs(t \o e, tag, value, e)
    BY TlvReads
  <2> QED
    BY <2>e, <2>1
<1> QED
  BY <1>1, <1>2, <1>3

LEMMA FoundHere ==
  ASSUME NEW d, NEW tag, NEW value, NEW rest, ReadsAs(d, tag, value, rest)
  PROVE  Holds(Piv!FindTlv(d, tag), value)
<1>1. d \in Bytes /\ d # <<>> /\ Piv!ReadTlv(d).ok = TRUE /\ Piv!ReadTlv(d).tag = tag /\ Piv!ReadTlv(d).value = value
  BY DEF ReadsAs
<1>2. Piv!FindTlv(d, tag) = Piv!ReadTlv(d)
  BY <1>1, FindTlvIs
<1> QED
  BY <1>1, <1>2 DEF Holds

LEMMA FoundPast ==
  ASSUME NEW d, NEW other, NEW value, NEW rest, ReadsAs(d, other, value, rest),
         NEW tag, tag # other
  PROVE  Piv!FindTlv(d, tag) = Piv!FindTlv(rest, tag)
<1>1. d \in Bytes /\ d # <<>> /\ Piv!ReadTlv(d).ok = TRUE /\ Piv!ReadTlv(d).tag = other /\ Piv!ReadTlv(d).rest = rest
  BY DEF ReadsAs
<1> QED
  BY <1>1, FindTlvIs

(* What stands beside the wanted TLV is a TLV of another tag. *)
ReadsPast(b, inner) ==
  \E other, value : other # inner /\ ReadsAs(b, other, value, <<>>)
                      /\ \A rest \in Bytes : ReadsAs(b \o rest, other, value, rest)

LEMMA BesideFacts ==
  ASSUME NEW inner, NEW b \in Piv!Beside(inner)
  PROVE  /\ ReadsPast(b, inner)
         /\ \E n \in Neighbour : b \in Bytes /\ Len(b) \in 2 + Len(n.value) .. 4 + Len(n.value)
<1>1. PICK n \in Neighbour : n.tag # inner /\ b \in Piv!Tlvs(n.tag, n.value)
  BY DEF Piv!Beside
<1>2. n.tag \in Piv!Byte /\ n.value \in Bytes /\ Len(n.value) + 8 < 65536
  BY LabAssumption DEF Piv!ValueAssumption, Bytes
<1>3. Len(n.value) < 65536
  <2>1. Len(n.value) \in Nat
    BY <1>2 DEF Bytes
  <2> QED
    BY <1>2, <2>1
<1>4. b \in Bytes /\ Len(b) \in 2 + Len(n.value) .. 4 + Len(n.value)
  BY <1>1, <1>2, <1>3, TlvFacts
<1>5. ReadsAs(b, n.tag, n.value, <<>>) /\ \A rest \in Bytes : ReadsAs(b \o rest, n.tag, n.value, rest)
  BY <1>1, <1>2, <1>3, TlvReads, TlvReadsAlone
<1> QED
  BY <1>1, <1>4, <1>5 DEF ReadsPast

(* The wanted TLV is found alone, past another one, and before another one. *)
FoundIn(c, inner, value) ==
  c \in Bytes /\ Len(c) < 65536 /\ Len(c) > 0 /\ Holds(Piv!FindTlv(c, inner), value)

LEMMA ContentsFacts ==
  ASSUME NEW inner \in Piv!Byte, NEW value \in Value, NEW c \in Piv!Contents(inner, value)
  PROVE  FoundIn(c, inner, value)
<1>v. value \in Bytes /\ Len(value) + 8 < 65536
  BY LabAssumption DEF Piv!ValueAssumption, Bytes
<1>n. PICK n \in Nat : n = Len(value) /\ n + 8 < 65536 /\ n < 65536
  <2>1. Len(value) \in Nat
    BY <1>v DEF Bytes
  <2> QED
    BY <1>v, <2>1
<1>1. PICK t \in Piv!Tlvs(inner, value) :
        c = t \/ (\E b \in Piv!Beside(inner) : c = b \o t) \/ \E b \in Piv!Beside(inner) : c = t \o b
  <2> DEFINE Around(t) == {t} \cup {b \o t : b \in Piv!Beside(inner)} \cup {t \o b : b \in Piv!Beside(inner)}
  <2>1. Piv!Contents(inner, value) = UNION {Around(t) : t \in Piv!Tlvs(inner, value)}
    BY DEF Piv!Contents
  <2> HIDE DEF Around
  <2>2. PICK t \in Piv!Tlvs(inner, value) : c \in Around(t)
    BY <2>1
  <2> QED
    BY <2>2 DEF Around
<1>2. t \in Bytes /\ Len(t) \in 2 + n .. 4 + n
  <2>1. Len(value) < 65536
    BY <1>n
  <2> QED
    BY <1>v, <1>n, <2>1, TlvFacts
<1>3. ReadsAs(t, inner, value, <<>>) /\ \A rest \in Bytes : ReadsAs(t \o rest, inner, value, rest)
  BY <1>v, <1>n, TlvReads, TlvReadsAlone
<1>4. Len(t) \in Nat /\ Len(t) >= 2 /\ Len(t) <= 4 + n
  BY <1>n, <1>2
<1>b. \A b \in Piv!Beside(inner) : b \in Bytes /\ Len(b) \in Nat /\ Len(b) + Len(t) < 65536
  <2> TAKE b \in Piv!Beside(inner)
  <2>1. PICK m \in Neighbour : b \in Bytes /\ Len(b) \in 2 + Len(m.value) .. 4 + Len(m.value)
    BY BesideFacts
  <2>2. Len(value) + Len(m.value) + 8 < 65536 /\ Len(m.value) \in Nat
    BY LabAssumption DEF Piv!ValueAssumption
  <2>3. PICK k \in Nat : k = Len(m.value) /\ n + k + 8 < 65536
    BY <1>n, <2>2
  <2>4. Len(b) \in Nat /\ Len(b) <= 4 + k
    BY <2>1, <2>3
  <2> QED
    BY <1>4, <2>1, <2>3, <2>4
<1>5. CASE c = t
  <2>1. Holds(Piv!FindTlv(t, inner), value)
    BY <1>3, FoundHere
  <2>2. Len(t) < 65536 /\ Len(t) > 0
    BY <1>4, <1>n
  <2> QED
    BY <1>2, <1>5, <2>1, <2>2 DEF FoundIn
<1>6. ASSUME NEW b \in Piv!Beside(inner), c = t \o b PROVE FoundIn(c, inner, value)
  <2>1. b \in Bytes /\ Len(b) \in Nat /\ Len(b) + Len(t) < 65536
    BY <1>b
  <2>2. c \in Bytes /\ Len(c) = Len(t) + Len(b)
    BY <1>2, <1>6, <2>1, ByteSeqFacts
  <2>3. Holds(Piv!FindTlv(c, inner), value)
    BY <1>3, <1>6, <2>1, FoundHere
  <2>4. Len(c) < 65536 /\ Len(c) > 0
    BY <1>4, <2>1, <2>2
  <2> QED
    BY <2>2, <2>3, <2>4 DEF FoundIn
<1>7. ASSUME NEW b \in Piv!Beside(inner), c = b \o t PROVE FoundIn(c, inner, value)
  <2>1. b \in Bytes /\ Len(b) \in Nat /\ Len(b) + Len(t) < 65536
    BY <1>b
  <2>2. c \in Bytes /\ Len(c) = Len(b) + Len(t)
    BY <1>2, <1>7, <2>1, ByteSeqFacts
  <2>3. PICK other, beside : other # inner /\ ReadsAs(c, other, beside, t)
    <3>1. ReadsPast(b, inner)
      BY BesideFacts
    <3> QED
      BY <1>2, <1>7, <3>1 DEF ReadsPast
  <2>4. Piv!FindTlv(c, inner) = Piv!FindTlv(t, inner)
    BY <2>3, FoundPast
  <2>5. Holds(Piv!FindTlv(t, inner), value)
    BY <1>3, FoundHere
  <2>6. Len(c) < 65536 /\ Len(c) > 0
    BY <1>4, <2>1, <2>2
  <2> QED
    BY <2>2, <2>4, <2>5, <2>6 DEF FoundIn
<1> QED
  BY <1>1, <1>5, <1>6, <1>7

(* The outer TLV is taken off, unless it was cut short. *)
LEMMA UnwrapFacts ==
  ASSUME NEW outer \in Piv!Byte, NEW inner, NEW c \in Bytes, Len(c) < 65536, Len(c) > 0,
         NEW b \in Piv!Tlvs(outer, c)
  PROVE  /\ b \in Bytes /\ SubSeq(b, 1, Len(b) - 1) \in Bytes
         /\ Piv!Unwrap(b, outer, inner) = Piv!FindTlv(c, inner)
         /\ Piv!Unwrap(SubSeq(b, 1, Len(b) - 1), outer, inner) = Piv!NoTlv
<1>1. b \in Bytes /\ ~ Piv!ReadTlv(SubSeq(b, 1, Len(b) - 1)).ok
  BY TlvFacts
<1>3. Piv!ReadTlv(b) = [tag |-> outer, value |-> c, rest |-> <<>>, ok |-> TRUE]
  BY TlvReadsAlone DEF ReadsAs
<1>4. Piv!Unwrap(b, outer, inner) = Piv!FindTlv(c, inner)
  BY <1>3 DEF Piv!Unwrap
<1>5. Piv!Unwrap(SubSeq(b, 1, Len(b) - 1), outer, inner) = Piv!NoTlv
  BY <1>1 DEF Piv!Unwrap
<1>6. SubSeq(b, 1, Len(b) - 1) \in Bytes
  <2>1. Len(b) \in Nat /\ \A i \in 1 .. Len(b) : b[i] \in Piv!Byte
    BY <1>1 DEF Bytes
  <2>2. Len(b) - 1 \in Int /\ \A i \in 1 .. Len(b) - 1 : i \in 1 .. Len(b)
    BY <2>1
  <2>3. \A i \in 1 .. Len(b) - 1 : b[i] \in Piv!Byte
    BY <2>1, <2>2
  <2> QED
    BY <2>2, <2>3, SubSeqProperties DEF Bytes
<1> QED
  BY <1>1, <1>4, <1>5, <1>6

(***************************************************************************)
(* What the card's response holds is found in it: the value it was made    *)
(* with, or nothing.                                                       *)
(***************************************************************************)
HoldsAsSaid(h, outer, inner) ==
  /\ h.bytes \in Bytes /\ h.there \in BOOLEAN
  /\ Piv!Unwrap(h.bytes, outer, inner).value = h.value
  /\ Piv!Unwrap(h.bytes, outer, inner).ok = h.there

LEMMA HoldingFacts ==
  ASSUME NEW b \in Bytes, NEW outer, NEW inner
  PROVE  /\ \A v : Holds(Piv!Unwrap(b, outer, inner), v) => HoldsAsSaid(Piv!Holding(b, v), outer, inner)
         /\ Piv!Unwrap(b, outer, inner) = Piv!NoTlv => HoldsAsSaid(Piv!Without(b), outer, inner)
<1>1. ASSUME NEW v, Holds(Piv!Unwrap(b, outer, inner), v) PROVE HoldsAsSaid(Piv!Holding(b, v), outer, inner)
  <2>1. PICK h : h = Piv!Holding(b, v)
    OBVIOUS
  <2>2. h.bytes = b /\ h.there = TRUE /\ h.value = v
    BY <2>1 DEF Piv!Holding
  <2>3. Piv!Unwrap(h.bytes, outer, inner).value = h.value /\ Piv!Unwrap(h.bytes, outer, inner).ok = h.there
    BY <1>1, <2>2 DEF Holds
  <2> QED
    BY <2>1, <2>2, <2>3 DEF HoldsAsSaid
<1>2. ASSUME Piv!Unwrap(b, outer, inner) = Piv!NoTlv PROVE HoldsAsSaid(Piv!Without(b), outer, inner)
  <2>1. PICK h : h = Piv!Without(b)
    OBVIOUS
  <2>2. h.bytes = b /\ h.there = FALSE /\ h.value = <<>>
    BY <2>1 DEF Piv!Without
  <2>3. Piv!NoTlv.value = <<>> /\ Piv!NoTlv.ok = FALSE
    BY DEF Piv!NoTlv
  <2>4. Piv!Unwrap(h.bytes, outer, inner).value = h.value /\ Piv!Unwrap(h.bytes, outer, inner).ok = h.there
    BY <1>2, <2>2, <2>3
  <2> QED
    BY <2>1, <2>2, <2>4 DEF HoldsAsSaid
<1> QED
  BY <1>1, <1>2

LEMMA ObjectsFacts ==
  ASSUME NEW outer \in Piv!Byte, NEW inner \in Piv!Byte, NEW h \in Piv!Objects(outer, inner)
  PROVE  HoldsAsSaid(h, outer, inner)
<1> DEFINE whole == UNION {UNION {{Piv!Holding(b, v) : b \in Piv!Tlvs(outer, c)} : c \in Piv!Contents(inner, v)} : v \in Value}
<1>1. ASSUME NEW o \in whole
      PROVE  /\ HoldsAsSaid(o, outer, inner)
             /\ HoldsAsSaid(Piv!Without(SubSeq(o.bytes, 1, Len(o.bytes) - 1)), outer, inner)
  <2>1. PICK v \in Value : o \in UNION {{Piv!Holding(b, v) : b \in Piv!Tlvs(outer, c)} : c \in Piv!Contents(inner, v)}
    OBVIOUS
  <2>2. PICK c \in Piv!Contents(inner, v) : o \in {Piv!Holding(b, v) : b \in Piv!Tlvs(outer, c)}
    BY <2>1
  <2>3. PICK b \in Piv!Tlvs(outer, c) : o = Piv!Holding(b, v)
    BY <2>2
  <2>5. c \in Bytes /\ Len(c) < 65536 /\ Len(c) > 0 /\ Holds(Piv!FindTlv(c, inner), v)
    BY ContentsFacts DEF FoundIn
  <2>6. /\ b \in Bytes /\ SubSeq(b, 1, Len(b) - 1) \in Bytes
        /\ Piv!Unwrap(b, outer, inner) = Piv!FindTlv(c, inner)
        /\ Piv!Unwrap(SubSeq(b, 1, Len(b) - 1), outer, inner) = Piv!NoTlv
    BY <2>5, UnwrapFacts
  <2>7. o.bytes = b /\ o.there = TRUE /\ o.value = v
    BY <2>3 DEF Piv!Holding
  <2>8. HoldsAsSaid(o, outer, inner)
    BY <2>3, <2>5, <2>6, HoldingFacts
  <2>9. HoldsAsSaid(Piv!Without(SubSeq(b, 1, Len(b) - 1)), outer, inner)
    BY <2>6, HoldingFacts
  <2> QED
    BY <2>7, <2>8, <2>9
<1>2. ASSUME NEW c \in Piv!Beside(inner), NEW b \in Piv!Tlvs(outer, c) PROVE HoldsAsSaid(Piv!Without(b), outer, inner)
  <2>1. PICK n \in Neighbour : c \in Bytes /\ Len(c) \in 2 + Len(n.value) .. 4 + Len(n.value)
    BY BesideFacts
  <2>2. Len(n.value) + 8 < 65536 /\ Len(n.value) \in Nat
    BY LabAssumption DEF Piv!ValueAssumption
  <2>3. PICK k \in Nat : k = Len(n.value) /\ k + 8 < 65536
    BY <2>2
  <2>4. Len(c) < 65536 /\ Len(c) > 0
    BY <2>1, <2>3
  <2>5. PICK other, beside : other # inner /\ ReadsAs(c, other, beside, <<>>)
    BY BesideFacts DEF ReadsPast
  <2>6. Piv!FindTlv(c, inner) = Piv!FindTlv(<<>>, inner)
    BY <2>5, FoundPast
  <2>7. Piv!FindTlv(<<>>, inner) = Piv!NoTlv
    BY ByteSeqFacts, FindTlvIs
  <2>8. b \in Bytes /\ Piv!Unwrap(b, outer, inner) = Piv!FindTlv(c, inner)
    BY <2>1, <2>4, UnwrapFacts
  <2> QED
    BY <2>6, <2>7, <2>8, HoldingFacts
<1>3. \/ h \in whole
      \/ \E o \in whole : h = Piv!Without(SubSeq(o.bytes, 1, Len(o.bytes) - 1))
      \/ \E c \in Piv!Beside(inner) : \E b \in Piv!Tlvs(outer, c) : h = Piv!Without(b)
  BY DEF Piv!Objects
<1> HIDE DEF whole
<1> QED
  BY <1>1, <1>2, <1>3

-----------------------------------------------------------------------------
(***************************************************************************)
(* fl piv: what was received, with what the card has yet to give, is the   *)
(* card's whole response to the command under way.                         *)
(***************************************************************************)
PivTyped ==
  /\ stage \in 1 .. 4 /\ activity \in {"connect", "transmit", "judge", "end"}
  /\ verdict \in {"", "passed", "failed"} /\ (verdict = "") = (activity # "end")
  /\ asking \in {"command", "rest"} /\ sw \in {"more", "ok", "refused"}
  /\ out \in Bytes /\ left \in Bytes
  /\ held.bytes \in Bytes /\ held.there \in BOOLEAN /\ endless \in BOOLEAN

ForStage(h, s) ==
  /\ h.bytes \in Bytes /\ h.there \in BOOLEAN
  /\ Piv!Stages[s] = "cert" => HoldsAsSaid(h, 83, 112)
  /\ Piv!Stages[s] = "auth" => HoldsAsSaid(h, 124, 130)
  /\ Piv!Stages[s] \notin {"cert", "auth"} => h.value = <<>> /\ h.there = FALSE

Fetched ==
  /\ activity = "connect" => stage = 1 /\ asking = "command" /\ out = <<>>
  /\ activity = "transmit" /\ asking = "command" => out = <<>>
  /\ activity = "transmit" /\ asking = "rest" => out \o left = held.bytes /\ ForStage(held, stage)
  /\ activity = "judge" /\ sw = "ok" => out = held.bytes /\ ForStage(held, stage)

PivInv == PivTyped /\ Fetched

LEMMA StageFacts ==
  /\ Len(Piv!Stages) = 4
  /\ Piv!Stages[1] = "select" /\ Piv!Stages[2] = "chuid" /\ Piv!Stages[3] = "cert" /\ Piv!Stages[4] = "auth"
BY DEF Piv!Stages

LEMMA ResponsesFacts ==
  ASSUME NEW h \in Piv!Responses PROVE ForStage(h, stage)
<1>1. CASE Piv!Stages[stage] = "cert"
  <2>1. h \in Piv!Objects(83, 112)
    BY <1>1 DEF Piv!Responses
  <2>2. 83 \in Piv!Byte /\ 112 \in Piv!Byte
    BY DEF Piv!Byte
  <2>3. HoldsAsSaid(h, 83, 112)
    BY <2>1, <2>2, ObjectsFacts
  <2> QED
    BY <1>1, <2>3 DEF ForStage, HoldsAsSaid
<1>2. CASE Piv!Stages[stage] = "auth"
  <2>1. h \in Piv!Objects(124, 130)
    BY <1>2 DEF Piv!Responses
  <2>2. 124 \in Piv!Byte /\ 130 \in Piv!Byte
    BY DEF Piv!Byte
  <2>3. HoldsAsSaid(h, 124, 130)
    BY <2>1, <2>2, ObjectsFacts
  <2> QED
    BY <1>2, <2>3 DEF ForStage, HoldsAsSaid
<1>3. CASE Piv!Stages[stage] \notin {"cert", "auth"}
  <2>1. h = Piv!Without(<<1, 2>>)
    BY <1>3 DEF Piv!Responses
  <2>2. h.bytes = <<1, 2>> /\ h.there = FALSE /\ h.value = <<>>
    BY <2>1 DEF Piv!Without
  <2>3. <<1, 2>> \in Bytes
    BY DEF Bytes, Piv!Byte
  <2> QED
    BY <1>3, <2>2, <2>3 DEF ForStage
<1> QED
  BY <1>1, <1>2, <1>3

(* The card gives the front of what it has left. *)
LEMMA PartFacts ==
  ASSUME NEW rest \in Bytes, NEW p \in PartSizes, NEW n, n = Piv!Smallest(p, Len(rest))
  PROVE  /\ SubSeq(rest, 1, n) \in Bytes /\ SubSeq(rest, n + 1, Len(rest)) \in Bytes
         /\ SubSeq(rest, 1, n) \o SubSeq(rest, n + 1, Len(rest)) = rest
         /\ ~ (n < Len(rest)) => SubSeq(rest, 1, n) = rest
<1>1. p \in Nat /\ p > 0 /\ Len(rest) \in Nat /\ rest \in Seq(Piv!Byte)
  BY LabAssumption DEF Piv!ValueAssumption, Bytes
<1>2. n \in 0 .. Len(rest)
  BY <1>1 DEF Piv!Smallest
<1>3. PICK m \in Nat : m = Len(rest)
  BY <1>1
<1>4. n \in Nat /\ n <= m /\ n + 1 \in Int
  BY <1>2, <1>3
<1>5. \A i \in 1 .. m : rest[i] \in Piv!Byte
  BY <1>1, <1>3
<1>6. (\A i \in 1 .. n : rest[i] \in Piv!Byte) /\ \A i \in n + 1 .. m : rest[i] \in Piv!Byte
  BY <1>4, <1>5
<1>7. SubSeq(rest, 1, n) \in Bytes /\ SubSeq(rest, n + 1, m) \in Bytes
  BY <1>4, <1>6, SubSeqProperties DEF Bytes
<1>8. SubSeq(rest, 1, n) \o SubSeq(rest, n + 1, m) = rest
  <2>1. 1 \in 1 .. Len(rest) + 1 /\ n \in 1 - 1 .. Len(rest) /\ Len(rest) \in n .. Len(rest)
    BY <1>1, <1>2
  <2>2. SubSeq(rest, 1, n) \o SubSeq(rest, n + 1, Len(rest)) = SubSeq(rest, 1, Len(rest))
    BY <1>1, <2>1, ConcatAdjacentSubSeq
  <2>3. SubSeq(rest, 1, Len(rest)) = rest
    BY <1>1, SubSeqFull
  <2> QED
    BY <1>3, <2>2, <2>3
<1>9. ASSUME ~ (n < Len(rest)) PROVE SubSeq(rest, 1, n) = rest
  <2>1. n = Len(rest)
    BY <1>1, <1>2, <1>9
  <2>2. SubSeq(rest, 1, Len(rest)) = rest
    BY <1>1, SubSeqFull
  <2> QED
    BY <2>1, <2>2
<1> QED
  BY <1>3, <1>7, <1>8, <1>9

LEMMA PivTransmits == PivInv /\ Piv!Transmit => PivInv'
<1> SUFFICES ASSUME PivInv, Piv!Transmit PROVE PivInv'
  OBVIOUS
<1>1. PICK h \in (IF asking = "command" THEN Piv!Responses ELSE {held}) :
        LET rest == IF asking = "command" THEN h.bytes ELSE left
        IN  \E n \in {Piv!Smallest(p, Len(rest)) : p \in PartSizes}, status \in {"more", "ok", "refused"} :
              /\ held' = h /\ Piv!Answer(rest, n, status)
              /\ Piv!Receive(SubSeq(rest, 1, n)) /\ Piv!AskMore(status)
              /\ activity' = IF status = "more" THEN "transmit" ELSE "judge"
  BY DEF Piv!Transmit
<1>2. PICK rest : rest = IF asking = "command" THEN h.bytes ELSE left
  OBVIOUS
<1>3. PICK n \in {Piv!Smallest(p, Len(rest)) : p \in PartSizes}, status \in {"more", "ok", "refused"} :
        /\ held' = h /\ Piv!Answer(rest, n, status)
        /\ Piv!Receive(SubSeq(rest, 1, n)) /\ Piv!AskMore(status)
        /\ activity' = IF status = "more" THEN "transmit" ELSE "judge"
  BY <1>1, <1>2
<1>4. PICK p \in PartSizes : n = Piv!Smallest(p, Len(rest))
  BY <1>3
<1>5. activity = "transmit" /\ UNCHANGED <<stage, verdict, endless>>
  BY DEF Piv!Transmit
<1>6. out \in Bytes /\ rest \in Bytes /\ out \o rest = h.bytes /\ ForStage(h, stage)
  <2>1. CASE asking = "command"
    <3>1. h \in Piv!Responses /\ rest = h.bytes
      BY <1>1, <1>2, <2>1
    <3>2. ForStage(h, stage)
      BY <3>1, ResponsesFacts
    <3>3. out = <<>>
      BY <1>5, <2>1 DEF PivInv, Fetched
    <3>4. h.bytes \in Seq(Piv!Byte)
      BY <3>2 DEF ForStage, Bytes
    <3>5. <<>> \o h.bytes = h.bytes
      BY <3>4, ConcatEmptySeq
    <3> QED
      BY <3>1, <3>2, <3>3, <3>4, <3>5, ByteSeqFacts DEF Bytes
  <2>2. CASE asking # "command"
    <3>1. h = held /\ rest = left /\ asking = "rest"
      BY <1>1, <1>2, <2>2 DEF PivInv, PivTyped
    <3>2. out \o left = held.bytes /\ ForStage(held, stage)
      BY <1>5, <3>1 DEF PivInv, Fetched
    <3> QED
      BY <3>1, <3>2 DEF PivInv, PivTyped
  <2> QED
    BY <2>1, <2>2
<1> PICK part, after : part = SubSeq(rest, 1, n) /\ after = SubSeq(rest, n + 1, Len(rest))
  OBVIOUS
<1>7. part \in Bytes /\ after \in Bytes /\ part \o after = rest /\ (~ (n < Len(rest)) => part = rest)
  BY <1>4, <1>6, PartFacts
<1>8. /\ held' = h /\ left' = after /\ sw' = status /\ out' = out \o part
      /\ (status # "more" => ~ (n < Len(rest)))
      /\ asking' = (IF status = "more" THEN "rest" ELSE "command")
      /\ activity' = (IF status = "more" THEN "transmit" ELSE "judge")
  BY <1>3 DEF Piv!Answer, Piv!Receive, Piv!AskMore
<1>9. out' \in Bytes
  BY <1>6, <1>7, <1>8, ByteSeqFacts
<1>10. out' \o left' = held'.bytes
  <2>1. (out \o part) \o after = out \o (part \o after)
    <3>1. out \in Bytes /\ part \in Bytes /\ after \in Bytes
      BY <1>6, <1>7
    <3>2. \A x, y, z \in Bytes : (x \o y) \o z = x \o (y \o z)
      BY ConcatAssociative DEF Bytes
    <3> QED
      BY <3>1, <3>2
  <2> QED
    BY <1>6, <1>7, <1>8, <2>1
<1>11. ForStage(held', stage')
  BY <1>5, <1>6, <1>8
<1>12. status # "more" => out' = held'.bytes
  BY <1>6, <1>7, <1>8
<1>13. PivTyped'
  BY <1>3, <1>5, <1>7, <1>8, <1>9, <1>11 DEF PivInv, PivTyped, ForStage
<1>14. Fetched'
  <2>1. activity' # "connect" /\ (activity' = "transmit" <=> status = "more") /\ (status = "more" => asking' = "rest")
    BY <1>8
  <2> QED
    BY <1>10, <1>11, <1>12, <2>1 DEF Fetched
<1> QED
  BY <1>13, <1>14 DEF PivInv

LEMMA PivProceeds ==
  ASSUME PivInv, Piv!Proceed, stage \in 1 .. 3, activity = "judge" PROVE PivInv'
<1>1. /\ stage' = stage + 1 /\ activity' = "transmit" /\ asking' = "command" /\ out' = <<>>
      /\ held' = Piv!Without(<<>>) /\ UNCHANGED <<verdict, sw, left, endless>>
  BY DEF Piv!Proceed
<1>2. stage' \in 1 .. 4
  BY <1>1
<1>h. held'.bytes \in Bytes /\ held'.there \in BOOLEAN
  BY <1>1, ByteSeqFacts DEF Piv!Without
<1>3. PivTyped'
  BY <1>1, <1>2, <1>h, ByteSeqFacts DEF PivInv, PivTyped
<1>4. Fetched'
  BY <1>1 DEF Fetched
<1> QED
  BY <1>3, <1>4 DEF PivInv

LEMMA PivEnds ==
  ASSUME PivInv, NEW how \in {"passed", "failed"}, Piv!End(how) PROVE PivInv'
<1>1. activity' = "end" /\ verdict' = how /\ UNCHANGED <<stage, asking, out, sw, held, left, endless>>
  BY DEF Piv!End, Piv!card
<1>2. PivTyped'
  BY <1>1 DEF PivInv, PivTyped
<1>3. Fetched'
  BY <1>1 DEF Fetched
<1> QED
  BY <1>2, <1>3 DEF PivInv

LEMMA PivNext == PivInv /\ Piv!Next => PivInv'
<1> SUFFICES ASSUME PivInv, Piv!Next PROVE PivInv'
  OBVIOUS
<1>0. stage \in 1 .. 4
  BY DEF PivInv, PivTyped
<1>1. CASE Piv!Connect
  <2>1. /\ activity = "connect" /\ activity' = "transmit"
        /\ UNCHANGED <<stage, verdict, asking, out, sw, held, left, endless>>
    BY <1>1 DEF Piv!Connect, Piv!card
  <2>2. PivTyped'
    BY <2>1 DEF PivInv, PivTyped
  <2>3. Fetched'
    BY <2>1 DEF PivInv, Fetched
  <2> QED
    BY <2>2, <2>3 DEF PivInv
<1>2. CASE Piv!Transmit
  BY <1>2, PivTransmits
<1>3. CASE Piv!Refused
  BY <1>3, PivEnds DEF Piv!Refused
<1>4. CASE Piv!Selected
  <2>1. activity = "judge" /\ Piv!Stages[stage] \in {"select", "chuid"} /\ Piv!Proceed
    BY <1>4 DEF Piv!Selected
  <2>2. stage \in 1 .. 3
    BY <1>0, <2>1, StageFacts
  <2> QED
    BY <2>1, <2>2, PivProceeds
<1>5. CASE Piv!CertRead
  <2>1. activity = "judge" /\ Piv!Stages[stage] = "cert" /\ (Piv!Proceed \/ Piv!End("failed"))
    BY <1>5 DEF Piv!CertRead
  <2>2. stage \in 1 .. 3
    BY <1>0, <2>1, StageFacts
  <2> QED
    BY <2>1, <2>2, PivProceeds, PivEnds
<1>6. CASE Piv!SignatureRead
  <2>1. PICK how \in {"passed", "failed"} : Piv!End(how)
    BY <1>6 DEF Piv!SignatureRead
  <2> QED
    BY <2>1, PivEnds
<1>7. CASE Piv!CardFails
  BY <1>7, PivEnds DEF Piv!CardFails
<1> QED
  BY <1>1, <1>2, <1>3, <1>4, <1>5, <1>6, <1>7 DEF Piv!Next, Piv!HostStep

LEMMA PivInit == Piv!Init => PivInv
<1> SUFFICES ASSUME Piv!Init PROVE PivInv
  OBVIOUS
<1>1. /\ stage = 1 /\ activity = "connect" /\ verdict = "" /\ asking = "command" /\ out = <<>> /\ sw = "ok"
      /\ left = <<>> /\ endless \in BOOLEAN
  BY DEF Piv!Init
<1>2. held.bytes = <<>> /\ held.there = FALSE
  BY DEF Piv!Init, Piv!Without
<1>3. PivTyped
  <2>1. <<>> \in Bytes /\ FALSE \in BOOLEAN /\ 1 \in 1 .. 4
    BY ByteSeqFacts
  <2>2. out \in Bytes /\ left \in Bytes /\ held.bytes \in Bytes /\ held.there \in BOOLEAN
    BY <1>1, <1>2, <2>1
  <2>3. (verdict = "") = (activity # "end")
    BY <1>1
  <2>4. stage \in 1 .. 4
    BY <1>1, <2>1
  <2> QED
    BY <1>1, <2>2, <2>3, <2>4 DEF PivTyped
<1>4. Fetched
  BY <1>1 DEF Fetched
<1> QED
  BY <1>3, <1>4 DEF PivInv

LEMMA PivInvFacts == PivInv => Piv!TypeOK /\ Piv!ValueFound
<1> SUFFICES ASSUME PivInv PROVE Piv!TypeOK /\ Piv!ValueFound
  OBVIOUS
<1>1. Piv!TypeOK
  <2>1. \A s \in {out, left} : \A i \in 1 .. Len(s) : s[i] \in Piv!Byte
    <3>1. \A s \in Bytes : \A i \in 1 .. Len(s) : s[i] \in Piv!Byte
      BY DEF Bytes
    <3>2. out \in Bytes /\ left \in Bytes
      BY DEF PivInv, PivTyped
    <3> QED
      BY <3>1, <3>2
  <2> QED
    BY <2>1, StageFacts DEF PivInv, PivTyped, Piv!TypeOK
<1>2. ASSUME activity = "judge", sw = "ok"
      PROVE  LET t == CASE Piv!Stages[stage] = "cert" -> Piv!Unwrap(out, 83, 112)
                        [] Piv!Stages[stage] = "auth" -> Piv!Unwrap(out, 124, 130)
                        [] OTHER -> Piv!NoTlv
             IN  out = held.bytes /\ t.value = held.value /\ t.ok = held.there
  <2>1. out = held.bytes /\ ForStage(held, stage)
    BY <1>2 DEF PivInv, Fetched
  <2>2. CASE Piv!Stages[stage] = "cert"
    <3>1. Piv!Unwrap(out, 83, 112).value = held.value /\ Piv!Unwrap(out, 83, 112).ok = held.there
      BY <2>1, <2>2 DEF ForStage, HoldsAsSaid
    <3> QED
      BY <2>1, <2>2, <3>1
  <2>3. CASE Piv!Stages[stage] = "auth"
    <3>1. Piv!Unwrap(out, 124, 130).value = held.value /\ Piv!Unwrap(out, 124, 130).ok = held.there
      BY <2>1, <2>3 DEF ForStage, HoldsAsSaid
    <3> QED
      BY <2>1, <2>3, <3>1
  <2>4. CASE Piv!Stages[stage] \notin {"cert", "auth"}
    <3>1. held.value = <<>> /\ held.there = FALSE
      BY <2>1, <2>4 DEF ForStage
    <3>2. Piv!NoTlv.value = <<>> /\ Piv!NoTlv.ok = FALSE
      BY DEF Piv!NoTlv
    <3> QED
      BY <2>1, <2>4, <3>1, <3>2
  <2> QED
    BY <2>2, <2>3, <2>4
<1>3. Piv!ValueFound
  BY <1>2 DEF Piv!ValueFound
<1> QED
  BY <1>1, <1>3

-----------------------------------------------------------------------------
(* The three harnesses side by side: a step is of one of them. *)
IInv == FidoInv /\ LogsInv /\ PivInv

LEMMA FidoStutters == FidoInv /\ UNCHANGED fidoVars => FidoInv'
<1> SUFFICES ASSUME FidoInv, UNCHANGED fidoVars PROVE FidoInv'
  OBVIOUS
<1>1. UNCHANGED <<turn, phase, outcome, request, wire, acc, remaining, expectedSeq, responseCmd,
                  expired, exchangeNo, reply, confirmed, foreign, mixed>>
  BY DEF fidoVars
<1>2. FidoTyped'
  BY <1>1 DEF FidoInv, FidoTyped, Fido!TypeOK
<1>3. Requested' /\ Replied'
  BY <1>1 DEF FidoInv, Requested, Replied, Size, RequestReport
<1>4. Reassembly'
  BY <1>1 DEF FidoInv, Reassembly, OnTheWay, NotBegun, Begun, Own, KeepAlive, OfReply
<1>5. Confirming' /\ Ordered'
  BY <1>1 DEF FidoInv, Confirming, Ordered, Fido!Base
<1> QED
  BY <1>2, <1>3, <1>4, <1>5 DEF FidoInv

LEMMA LogsStutters == LogsInv /\ UNCHANGED logsVars => LogsInv'
<1> SUFFICES ASSUME LogsInv, UNCHANGED logsVars PROVE LogsInv'
  OBVIOUS
<1>1. UNCHANGED <<options, due, doing, frame, records, printed, plugged, unplugs, live,
                  made, bus, sent, since, heard, torn>>
  BY DEF logsVars
<1>2. LogsTyped'
  BY <1>1 DEF LogsInv, LogsTyped
<1>3. Transfers'
  BY <1>1 DEF LogsInv, Transfers
<1>4. Followed' /\ Limited'
  BY <1>1 DEF LogsInv, Followed, Limited, Cut, Here
<1> QED
  BY <1>2, <1>3, <1>4 DEF LogsInv

LEMMA PivStutters == PivInv /\ UNCHANGED pivVars => PivInv'
<1> SUFFICES ASSUME PivInv, UNCHANGED pivVars PROVE PivInv'
  OBVIOUS
<1>1. UNCHANGED <<stage, activity, verdict, asking, out, sw, held, left, endless>>
  BY DEF pivVars
<1>2. PivTyped' /\ Fetched'
  BY <1>1 DEF PivInv, PivTyped, Fetched
<1> QED
  BY <1>2 DEF PivInv

LEMMA InvInit == Init => IInv
BY FidoInit, LogsInit, PivInit DEF Init, IInv

LEMMA InvNext == IInv /\ [Next]_vars => IInv'
<1> SUFFICES ASSUME IInv, [Next]_vars PROVE IInv'
  OBVIOUS
<1>1. CASE RunFido
  BY <1>1, FidoNext, LogsStutters, PivStutters DEF IInv, RunFido, OnlyFido
<1>2. CASE RunLogs
  BY <1>2, FidoStutters, LogsNext, PivStutters DEF IInv, RunLogs, OnlyLogs
<1>3. CASE RunPiv
  BY <1>3, FidoStutters, LogsStutters, PivNext DEF IInv, RunPiv, OnlyPiv
<1>4. CASE UNCHANGED vars
  BY <1>4, FidoStutters, LogsStutters, PivStutters DEF IInv, vars
<1> QED
  BY <1>1, <1>2, <1>3, <1>4 DEF Next

LEMMA FidoInvFacts == FidoInv => Fido!TypeOK /\ Fido!ExchangeWhole /\ Fido!PassedMeansConfirmed
<1> SUFFICES ASSUME FidoInv PROVE Fido!TypeOK /\ Fido!ExchangeWhole /\ Fido!PassedMeansConfirmed
  OBVIOUS
<1>1. Fido!TypeOK
  BY DEF FidoInv, FidoTyped
<1>2. ASSUME phase = "judge" PROVE Fido!RequestWhole
  <2>1. Size \in Nat /\ Len(request) \in Nat
    BY SizeFacts DEF FidoInv, FidoTyped
  <2>2. PICK last \in Nat : last = Fido!LastIndex(Size)
    BY <2>1, IndexFacts
  <2>3. Len(request) = last + 1 /\ \A k \in 1 .. Len(request) : request[k] = RequestReport(k)
    BY <1>2, <2>2 DEF FidoInv, Requested
  <2>4. \A k \in 1 .. Len(request) : request[k].after = Fido!Base(k - 1)
    BY <2>3 DEF RequestReport
  <2>5. Len(request) \in 1 .. Len(request)
    BY <2>1, <2>3
  <2>6. request[Len(request)].upTo = Size
    BY <2>2, <2>3, <2>5 DEF RequestReport
  <2> QED
    BY <2>2, <2>3, <2>4, <2>6 DEF Fido!RequestWhole, Size
<1>3. ASSUME phase = "judge", ~ mixed
      PROVE  acc = Fido!Whole(reply) /\ responseCmd = reply.cmd
  BY <1>3 DEF FidoInv, Reassembly
<1>3a. ASSUME phase = "judge" PROVE Fido!InOrder
  <2>1. Ordered /\ remaining = 0
    BY <1>3a DEF FidoInv, Ordered
  <2>2. \A n \in Nat : n + 0 = n
    OBVIOUS
  <2>3. acc # <<>> => acc[1].of.size = Len(acc) + 0 /\ Len(acc) \in Nat
    BY <2>1 DEF Ordered
  <2>4. acc # <<>> => Len(acc) = acc[1].of.size
    BY <2>2, <2>3
  <2> QED
    BY <2>1, <2>4 DEF Ordered, Fido!InOrder
<1>4. Fido!ExchangeWhole
  BY <1>2, <1>3, <1>3a DEF Fido!ExchangeWhole
<1>5. Fido!PassedMeansConfirmed
  BY DEF FidoInv, Confirming, Fido!PassedMeansConfirmed
<1> QED
  BY <1>1, <1>4, <1>5

-----------------------------------------------------------------------------
(***************************************************************************)
(* The three harnesses keep their state in its types: no report is beyond  *)
(* the sequence numbers, no byte beyond a byte, and a run has a verdict    *)
(* exactly when it has ended (fido.rs, logs.rs, piv.rs).                   *)
(***************************************************************************)
THEOREM TypeCorrect == Spec => []TypeOK
<1>1. IInv => TypeOK
  BY FidoInvFacts, LogsInvFacts, PivInvFacts DEF IInv, TypeOK
<1> QED
  BY <1>1, InvInit, InvNext, PTL DEF Spec

(***************************************************************************)
(* Whenever an exchange has come to its end, the device had the whole      *)
(* request, and what was put together has no gap or overlap and the length *)
(* that its initial report announced, whatever reports were read.  In a    *)
(* run that has read no report of another channel it is the whole reply to *)
(* this request (exchange in fido.rs).                                     *)
(***************************************************************************)
THEOREM ExchangesWhole == Spec => []ExchangeWhole
<1>1. IInv => ExchangeWhole
  BY FidoInvFacts DEF IInv, ExchangeWhole
<1> QED
  BY <1>1, InvInit, InvNext, PTL DEF Spec

(***************************************************************************)
(* A fl fido that has read no report of another channel says that all      *)
(* checks passed only when the device has answered the version and the     *)
(* user has confirmed both prompts, the registration and the               *)
(* authentication (u2f_await_presence in fido.rs).                         *)
(***************************************************************************)
THEOREM PassesConfirmed == Spec => []PassedMeansConfirmed
<1>1. IInv => PassedMeansConfirmed
  BY FidoInvFacts DEF IInv, PassedMeansConfirmed
<1> QED
  BY <1>1, InvInit, InvNext, PTL DEF Spec

(***************************************************************************)
(* What fl logs has printed of a connection is the wanted records among    *)
(* those it has heard, each once and in their order, wherever transfers    *)
(* and frames cut them, unless a transfer has timed out with part of a     *)
(* frame; and with any value of --limit it prints no more than that, or    *)
(* one record where that is 0 (run in logs.rs).                            *)
(***************************************************************************)
THEOREM PrintsAreWanted == Spec => []PrintsWanted
<1>1. IInv => PrintsWanted
  BY LogsInvFacts DEF IInv, PrintsWanted
<1> QED
  BY <1>1, InvInit, InvNext, PTL DEF Spec

(***************************************************************************)
(* Data that fl piv takes as a response are the card's whole response      *)
(* (transmit in piv.rs), and unwrap_tlv and find_tlv find in them the      *)
(* value the card put there, for values of any length and content, or      *)
(* nothing when there is none.                                             *)
(***************************************************************************)
THEOREM ValuesFound == Spec => []ValueFound
<1>1. IInv => ValueFound
  BY PivInvFacts DEF IInv, ValueFound
<1> QED
  BY <1>1, InvInit, InvNext, PTL DEF Spec

=============================================================================
