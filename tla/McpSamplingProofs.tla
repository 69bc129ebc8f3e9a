-------------------------- MODULE McpSamplingProofs --------------------------
(***************************************************************************)
(* What holds of McpSampling for any number of streams and calls, any      *)
(* channel capacity and any set of reply bodies.                           *)
(*                                                                         *)
(* TypeCorrect is inductive by itself.  AnswerMatches, WaiterPresent and   *)
(* LeaksOnlyCancelled are not: they are proved together from IInv, which   *)
(* traces every id in the system back to the call that minted it.  The     *)
(* last part is about what travels in the streams: a question is put once, *)
(* and a result goes to the client that posted the request, once.          *)
(***************************************************************************)
EXTENDS McpSampling, TLAPS, SequenceTheorems, FiniteSetTheorems

USE SessionAssumption, SamplingAssumption

-----------------------------------------------------------------------------
(* A channel keeps its type and its bound when a message is queued or read. *)
LEMMA EnqueueType ==
  ASSUME chan \in [Session -> Seq(Message)],
         \A r \in Session : Len(chan[r]) <= SseCapacity,
         NEW s, NEW m \in Message, Enqueue(s, m)
  PROVE  /\ chan' \in [Session -> Seq(Message)]
         /\ \A r \in Session : Len(chan'[r]) <= SseCapacity
<1>1. CASE s \in Session
  <2>1. chan[s] \in Seq(Message) /\ Len(chan[s]) \in Nat
    BY <1>1
  <2>2. Append(chan[s], m) \in Seq(Message) /\ Len(Append(chan[s], m)) = Len(chan[s]) + 1
    BY <2>1
  <2> QED
    BY <1>1, <2>1, <2>2 DEF Enqueue
<1>2. CASE s \notin Session
  BY <1>2 DEF Enqueue
<1> QED
  BY <1>1, <1>2

LEMMA ReadType ==
  ASSUME chan \in [Session -> Seq(Message)],
         \A r \in Session : Len(chan[r]) <= SseCapacity,
         NEW s \in Session, ClientRead(s)
  PROVE  /\ chan' \in [Session -> Seq(Message)]
         /\ \A r \in Session : Len(chan'[r]) <= SseCapacity
         /\ Head(chan[s]) \in Message
<1>1. chan[s] \in Seq(Message) /\ chan[s] # <<>>
  BY DEF ClientRead
<1>2. /\ Head(chan[s]) \in Message /\ Tail(chan[s]) \in Seq(Message)
      /\ Len(Tail(chan[s])) = Len(chan[s]) - 1 /\ Len(chan[s]) \in Nat
  BY <1>1
<1> QED
  BY <1>2 DEF ClientRead

LEMMA MessageKinds ==
  /\ Endpoint \in Message
  /\ \A n \in Nat : Notification(n) \in Message /\ SamplingRequest(n) \in Message
  /\ \A c \in Call : Response(c) \in Message
BY DEF Message, Endpoint, Notification, SamplingRequest, Response

-----------------------------------------------------------------------------
LEMMA TypeInit == Init => TypeOK
<1> SUFFICES ASSUME Init PROVE TypeOK
  OBVIOUS
<1>1. chan \in [Session -> Seq(Message)] /\ \A s \in Session : Len(chan[s]) <= SseCapacity
  BY DEF Init, SessionsInit
<1> QED
  BY <1>1 DEF Init, SessionsInit, SamplingInit, TypeOK, ConnState, Entry, Pc, Result,
              Question, Reply

LEMMA TypeNext == TypeOK /\ [Next]_vars => TypeOK'
<1> SUFFICES ASSUME TypeOK, [Next]_vars PROVE TypeOK'
  OBVIOUS
<1> USE DEF TypeOK
<1>1. ASSUME NEW s \in Session, SessionStep(s) PROVE TypeOK'
  <2>1. CASE RegisterSession(s)
    <3>1. <<Endpoint>> \in Seq(Message) /\ Len(<<Endpoint>>) = 1
      BY MessageKinds
    <3> QED
      BY <1>1, <2>1, <3>1 DEF SessionStep, RegisterSession, ConnState, samplingVars, callVars
  <2>2. CASE MakePrimary(s)
    BY <1>1, <2>2 DEF SessionStep, MakePrimary, ConnState, samplingVars, callVars
  <2>3. CASE StartStream(s)
    BY <1>1, <2>3 DEF SessionStep, StartStream, ConnState, samplingVars, callVars
  <2>4. CASE CloseStream(s)
    BY <1>1, <2>4 DEF SessionStep, CloseStream, ConnState, samplingVars, callVars
  <2> QED
    BY <1>1, <2>1, <2>2, <2>3, <2>4 DEF SessionStep
<1>2. ASSUME NEW s \in Session, ReadStream(s) PROVE TypeOK'
  <2>1. ClientRead(s)
    BY <1>2 DEF ReadStream
  <2>2. /\ chan' \in [Session -> Seq(Message)]
        /\ \A r \in Session : Len(chan'[r]) <= SseCapacity
        /\ Head(chan[s]) \in Message
    BY <2>1, ReadType
  <2>3. Head(chan[s]).kind = "sampling" => Head(chan[s]).id \in Nat
    BY <2>2 DEF Message, Endpoint
  <2>4. seen' \subseteq Question
    BY <1>2, <2>3 DEF ReadStream, Question
  <2> QED
    BY <1>2, <2>1, <2>2, <2>4 DEF ReadStream, ClientRead, callVars
<1>3. ASSUME NEW s \in Session, OtherTraffic(s) PROVE TypeOK'
  <2>1. Enqueue(s, Notification(0)) /\ Notification(0) \in Message
    BY <1>3, MessageKinds DEF OtherTraffic
  <2>2. chan' \in [Session -> Seq(Message)] /\ \A r \in Session : Len(chan'[r]) <= SseCapacity
    BY <2>1, EnqueueType
  <2> QED
    BY <1>3, <2>2 DEF OtherTraffic, samplingVars, callVars
<1>4. ASSUME NEW c \in Call, NEW s \in Session, ToolRequest(c, s) PROVE TypeOK'
  BY <1>4 DEF ToolRequest, Goto, Pc, sessionVars
<1>5. ASSUME NEW c \in Call, NEW s \in Session, QuickRequest(c, s) PROVE TypeOK'
  BY <1>5 DEF QuickRequest, Return, Goto, Pc, Result, Failure, sessionVars
<1>5a. ASSUME NEW c \in Call, DeviceReturn(c) PROVE TypeOK'
  BY <1>5a DEF DeviceReturn, Return, Goto, Pc, Result, Failure, sessionVars
<1>6. ASSUME NEW c \in Call, AutoRequest(c) PROVE TypeOK'
  BY <1>6 DEF AutoRequest, Goto, Pc, sessionVars
<1>7. ASSUME NEW c \in Call, PickSession(c) PROVE TypeOK'
  <2>1. UNCHANGED <<nextId, pending, reqId, origin, answer, seen, posts, sessionVars>>
    BY <1>7 DEF PickSession
  <2>2. pc' \in [Call -> Pc]
    BY <1>7 DEF PickSession, Return, Goto, Pc
  <2>3. target' \in [Call -> Session \cup {NoSession}] /\ result' \in [Call -> Result]
    BY <1>7 DEF PickSession, Return, Result, Failure
  <2> QED
    BY <2>1, <2>2, <2>3 DEF sessionVars
<1>8. ASSUME NEW c \in Call, MintId(c) PROVE TypeOK'
  BY <1>8 DEF MintId, Goto, Pc, sessionVars
<1>9. ASSUME NEW c \in Call, RegisterWaiter(c) PROVE TypeOK'
  BY <1>9 DEF RegisterWaiter, Insert, Goto, Pc, Entry, sessionVars
<1>10. ASSUME NEW c \in Call, SendRequest(c) PROVE TypeOK'
  <2>1. chan' \in [Session -> Seq(Message)] /\ \A r \in Session : Len(chan'[r]) <= SseCapacity
    <3>1. SamplingRequest(reqId[c]) \in Message
      BY MessageKinds
    <3> QED
      BY <1>10, <3>1, EnqueueType DEF SendRequest
  <2>2. pc' \in [Call -> Pc]
    BY <1>10 DEF SendRequest, Goto, Pc
  <2> QED
    BY <1>10, <2>1, <2>2 DEF SendRequest
<1>11. ASSUME NEW c \in Call, TakeAnswer(c) PROVE TypeOK'
  <2>1. answer[c].body \in Body
    BY <1>11 DEF TakeAnswer, Reply
  <2> QED
    BY <1>11, <2>1 DEF TakeAnswer, Return, Goto, Pc, Result, sessionVars
<1>12. ASSUME NEW c \in Call, Timeout(c) PROVE TypeOK'
  BY <1>12 DEF Timeout, Goto, Pc, sessionVars
<1>13. ASSUME NEW c \in Call, DropWaiter(c) PROVE TypeOK'
  BY <1>13 DEF DropWaiter, Remove, Return, Goto, Pc, Result, Failure, sessionVars
<1>14. ASSUME NEW c \in Call, Respond(c) PROVE TypeOK'
  <2>1. chan' \in [Session -> Seq(Message)] /\ \A r \in Session : Len(chan'[r]) <= SseCapacity
    <3>1. Response(c) \in Message
      BY MessageKinds
    <3> QED
      BY <1>14, <3>1, EnqueueType DEF Respond
  <2>2. pc' \in [Call -> Pc]
    BY <1>14 DEF Respond, Goto, Pc
  <2> QED
    BY <1>14, <2>1, <2>2 DEF Respond
<1>15. ASSUME NEW c \in Call, AutoReturn(c) PROVE TypeOK'
  BY <1>15 DEF AutoReturn, Goto, Pc, sessionVars
<1>16. ASSUME NEW c \in Call, Cancel(c) PROVE TypeOK'
  BY <1>16 DEF Cancel, Goto, Pc, Result, Failure, sessionVars
<1>17. ASSUME NEW p \in posts, DeliverReply(p) PROVE TypeOK'
  BY <1>17 DEF DeliverReply, sessionVars
<1>18. ASSUME NEW q \in seen, NEW b \in Body, PostReply(q, b) PROVE TypeOK'
  <2>1. [sess |-> q.sess, id |-> q.id, body |-> b] \in Reply
    BY DEF Question, Reply
  <2> QED
    BY <1>18, <2>1 DEF PostReply, callVars, sessionVars
<1>19. CASE UNCHANGED vars
  BY <1>19 DEF vars, sessionVars, samplingVars, callVars
<1> QED
  BY <1>1, <1>2, <1>3, <1>4, <1>5, <1>5a, <1>6, <1>7, <1>8, <1>9, <1>10, <1>11, <1>12, <1>13,
     <1>14, <1>15, <1>16, <1>17, <1>18, <1>19 DEF Next, CallStep

(* Every variable keeps its type, and no channel exceeds its capacity. *)
THEOREM TypeCorrect == Spec => []TypeOK
<1> QED
  BY TypeInit, TypeNext, PTL DEF Spec

-----------------------------------------------------------------------------
(* Queuing a message keeps QueuedAsked if a question among them is asked. *)
LEMMA EnqueueAsked ==
  ASSUME TypeOK, QueuedAsked, UNCHANGED <<reqId, target>>,
         NEW s, NEW m \in Message, Enqueue(s, m),
         m.kind = "sampling" => \E c \in Call : Asks(c, s, m.id)
  PROVE  QueuedAsked'
<1> SUFFICES ASSUME NEW r \in Session, NEW n \in 1 .. Len(chan'[r]),
                    chan'[r][n].kind = "sampling"
             PROVE  \E c \in Call : Asks(c, r, chan'[r][n].id)
  BY DEF QueuedAsked, Asks, Minted
<1>1. CASE r = s
  <2>1. chan[s] \in Seq(Message) /\ chan'[s] = Append(chan[s], m)
    BY <1>1 DEF TypeOK, Enqueue
  <2>2. \/ n \in 1 .. Len(chan[s]) /\ chan'[s][n] = chan[s][n]
        \/ chan'[s][n] = m
    BY <1>1, <2>1
  <2> QED
    BY <1>1, <2>2 DEF QueuedAsked
<1>2. CASE r # s
  BY <1>2 DEF TypeOK, Enqueue, QueuedAsked
<1> QED
  BY <1>1, <1>2

LEMMA InvInit == Init => IInv
BY DEF Init, SessionsInit, SamplingInit, IInv, IdsFresh, EntriesOwned, QueuedAsked, SeenAsked,
       RepliesFounded, AnsweredLeft, NotYetAnswered, AnswerMatches, WaiterPresent,
       LeaksOnlyCancelled, Minted, Listening

LEMMA InvNext == TypeOK /\ IInv /\ [Next]_vars => IInv'
<1> SUFFICES ASSUME TypeOK, IInv, [Next]_vars PROVE IInv'
  OBVIOUS
<1>1. ASSUME NEW s \in Session, SessionStep(s) PROVE IInv'
  <2>1. UNCHANGED <<nextId, pending, pc, reqId, target, answer, result, seen, posts>>
    BY <1>1 DEF SessionStep, RegisterSession, MakePrimary, StartStream, CloseStream, samplingVars, callVars
  <2>2. (IdsFresh /\ EntriesOwned /\ SeenAsked /\ RepliesFounded /\ AnsweredLeft /\ NotYetAnswered /\ AnswerMatches /\ WaiterPresent /\ LeaksOnlyCancelled)'
    BY <2>1 DEF IInv, IdsFresh, EntriesOwned, SeenAsked, RepliesFounded, AnsweredLeft, NotYetAnswered,
        AnswerMatches, WaiterPresent, LeaksOnlyCancelled, Asks, Listening, Minted
  <2>3. QueuedAsked'
    <3>1. ASSUME NEW r \in Session, NEW n \in 1 .. Len(chan'[r])
          PROVE  \/ n \in 1 .. Len(chan[r]) /\ chan'[r][n] = chan[r][n]
                 \/ chan'[r][n] = Endpoint
      <4>1. \/ chan' = chan
            \/ chan' = [chan EXCEPT ![s] = <<Endpoint>>] \/ chan' = [chan EXCEPT ![s] = <<>>]
        BY <1>1 DEF SessionStep, RegisterSession, MakePrimary, StartStream, CloseStream
      <4>2. CASE r = s /\ chan' = [chan EXCEPT ![s] = <<Endpoint>>]
        <5>1. chan'[r] = <<Endpoint>> /\ Len(<<Endpoint>>) = 1 /\ <<Endpoint>>[1] = Endpoint
          BY <4>2 DEF TypeOK
        <5> QED
          BY <5>1
      <4>3. CASE r = s /\ chan' = [chan EXCEPT ![s] = <<>>]
        <5>1. chan'[r] = <<>> /\ Len(<<>>) = 0
          BY <4>3 DEF TypeOK
        <5> QED
          BY <5>1
      <4>4. CASE r # s \/ chan' = chan
        BY <4>1, <4>4 DEF TypeOK
      <4> QED
        BY <4>1, <4>2, <4>3, <4>4
    <3> QED
      BY <2>1, <3>1 DEF IInv, QueuedAsked, Asks, Minted, Endpoint
  <2> QED
    BY <2>2, <2>3 DEF IInv
<1>2. ASSUME NEW s \in Session, ReadStream(s) PROVE IInv'
  <2>1. UNCHANGED <<nextId, pending, pc, reqId, target, answer, result, posts>>
    BY <1>2 DEF ReadStream, ClientRead, callVars
  <2>2. (IdsFresh /\ EntriesOwned /\ AnsweredLeft /\ NotYetAnswered /\ WaiterPresent /\ LeaksOnlyCancelled)'
    BY <2>1 DEF IInv, IdsFresh, EntriesOwned, AnsweredLeft, NotYetAnswered, WaiterPresent, LeaksOnlyCancelled,
        Listening, Minted
  <2>3. chan[s] \in Seq(Message) /\ chan[s] # <<>>
    BY <1>2 DEF TypeOK, ReadStream, ClientRead
  <2>4. QueuedAsked'
    <3>1. ASSUME NEW r \in Session, NEW n \in 1 .. Len(chan'[r])
          PROVE  \E k \in 1 .. Len(chan[r]) : chan'[r][n] = chan[r][k]
      <4>1. CASE r = s
        <5>1. chan'[s] = Tail(chan[s])
          BY <1>2 DEF TypeOK, ReadStream, ClientRead
        <5>2. n + 1 \in 1 .. Len(chan[s]) /\ Tail(chan[s])[n] = chan[s][n + 1]
          BY <2>3, <4>1, <5>1
        <5> QED
          BY <4>1, <5>1, <5>2
      <4>2. CASE r # s
        BY <1>2, <4>2 DEF TypeOK, ReadStream, ClientRead
      <4> QED
        BY <4>1, <4>2
    <3> SUFFICES ASSUME NEW r \in Session, NEW n \in 1 .. Len(chan'[r]),
                        chan'[r][n].kind = "sampling"
                 PROVE  \E c \in Call : Asks(c, r, chan'[r][n].id)
      BY <2>1 DEF QueuedAsked, Asks, Minted
    <3>2. PICK k \in 1 .. Len(chan[r]) : chan'[r][n] = chan[r][k]
      BY <3>1
    <3> QED
      BY <3>2 DEF IInv, QueuedAsked
  <2>5. SeenAsked'
    <3>1. 1 \in 1 .. Len(chan[s]) /\ Head(chan[s]) = chan[s][1]
      BY <2>3
    <3>2. Head(chan[s]).kind = "sampling" => \E c \in Call : Asks(c, s, Head(chan[s]).id)
      BY <3>1 DEF IInv, QueuedAsked
    <3> QED
      BY <1>2, <2>1, <3>2 DEF IInv, ReadStream, SeenAsked, Asks, Minted
  <2>6. RepliesFounded'
    BY <1>2, <2>1 DEF IInv, TypeOK, ReadStream, ClientRead, callVars, RepliesFounded
  <2>7. AnswerMatches'
    BY <1>2, <2>1 DEF IInv, TypeOK, ReadStream, ClientRead, callVars, AnswerMatches
  <2> QED
    BY <2>2, <2>3, <2>4, <2>5, <2>6, <2>7 DEF IInv
<1>3. ASSUME NEW s \in Session, OtherTraffic(s) PROVE IInv'
  <2>1. UNCHANGED <<nextId, pending, pc, reqId, target, answer, result, seen, posts>>
    BY <1>3 DEF OtherTraffic, Enqueue, samplingVars, callVars
  <2>2. (IdsFresh /\ EntriesOwned /\ SeenAsked /\ RepliesFounded /\ AnsweredLeft /\ NotYetAnswered /\ AnswerMatches /\ WaiterPresent /\ LeaksOnlyCancelled)'
    BY <2>1 DEF IInv, IdsFresh, EntriesOwned, SeenAsked, RepliesFounded, AnsweredLeft, NotYetAnswered,
        AnswerMatches, WaiterPresent, LeaksOnlyCancelled, Asks, Listening, Minted
  <2>3. QueuedAsked'
    BY <1>3, <2>1, EnqueueAsked, MessageKinds DEF IInv, OtherTraffic, Notification, Response
  <2> QED
    BY <2>2, <2>3 DEF IInv
<1>4. ASSUME NEW c \in Call, NEW s \in Session, ToolRequest(c, s) PROVE IInv'
  <2>1. UNCHANGED <<nextId, pending, reqId, target, answer, result, seen, posts, chan>>
    BY <1>4 DEF ToolRequest, Goto, sessionVars
  <2>2. (EntriesOwned /\ QueuedAsked /\ SeenAsked /\ RepliesFounded /\ AnsweredLeft /\ AnswerMatches)'
    BY <2>1 DEF IInv, EntriesOwned, QueuedAsked, SeenAsked, RepliesFounded, AnsweredLeft, AnswerMatches, Asks,
        Minted
  <2>3. IdsFresh'
    BY <1>4, <2>1 DEF IInv, TypeOK, ToolRequest, Goto, sessionVars, IdsFresh, Minted
  <2>4. NotYetAnswered'
    BY <1>4, <2>1 DEF IInv, TypeOK, ToolRequest, Goto, sessionVars, NotYetAnswered
  <2>5. WaiterPresent'
    BY <1>4, <2>1 DEF IInv, TypeOK, ToolRequest, Goto, sessionVars, WaiterPresent, Listening
  <2>6. LeaksOnlyCancelled'
    BY <1>4, <2>1 DEF IInv, TypeOK, ToolRequest, Goto, sessionVars, LeaksOnlyCancelled
  <2> QED
    BY <2>2, <2>3, <2>4, <2>5, <2>6 DEF IInv
<1>5. ASSUME NEW c \in Call, NEW s \in Session, QuickRequest(c, s) PROVE IInv'
  <2>1. UNCHANGED <<nextId, pending, reqId, target, answer, seen, posts, chan>>
    BY <1>5 DEF QuickRequest, Return, Goto, sessionVars
  <2>2. (EntriesOwned /\ QueuedAsked /\ SeenAsked /\ RepliesFounded /\ AnsweredLeft /\ AnswerMatches)'
    BY <2>1 DEF IInv, EntriesOwned, QueuedAsked, SeenAsked, RepliesFounded, AnsweredLeft, AnswerMatches, Asks,
        Minted
  <2>3. IdsFresh'
    BY <1>5, <2>1 DEF IInv, TypeOK, QuickRequest, Return, Goto, sessionVars, IdsFresh, Minted
  <2>4. NotYetAnswered'
    BY <1>5, <2>1 DEF IInv, TypeOK, QuickRequest, Return, Goto, sessionVars, NotYetAnswered
  <2>5. WaiterPresent'
    BY <1>5, <2>1 DEF IInv, TypeOK, QuickRequest, Return, Goto, sessionVars, WaiterPresent, Listening
  <2>6. LeaksOnlyCancelled'
    <3>1. \A e \in pending : e.call # c
      BY <1>5, <2>1 DEF IInv, TypeOK, EntriesOwned, IdsFresh, Minted, Entry, QuickRequest
    <3> QED
      BY <1>5, <2>1, <3>1 DEF IInv, TypeOK, LeaksOnlyCancelled, Minted, QuickRequest, Return, Goto, Entry
  <2> QED
    BY <2>2, <2>3, <2>4, <2>5, <2>6 DEF IInv
<1>5a. ASSUME NEW c \in Call, DeviceReturn(c) PROVE IInv'
  <2>1. UNCHANGED <<nextId, pending, reqId, target, answer, seen, posts, chan>>
    BY <1>5a DEF DeviceReturn, Return, Goto, sessionVars
  <2>2. (EntriesOwned /\ QueuedAsked /\ SeenAsked /\ RepliesFounded /\ AnsweredLeft /\ AnswerMatches)'
    BY <2>1 DEF IInv, EntriesOwned, QueuedAsked, SeenAsked, RepliesFounded, AnsweredLeft, AnswerMatches, Asks,
        Minted
  <2>3. IdsFresh'
    BY <1>5a, <2>1 DEF IInv, TypeOK, DeviceReturn, Return, Goto, sessionVars, IdsFresh, Minted
  <2>4. NotYetAnswered'
    BY <1>5a, <2>1 DEF IInv, TypeOK, DeviceReturn, Return, Goto, sessionVars, NotYetAnswered
  <2>5. WaiterPresent'
    BY <1>5a, <2>1 DEF IInv, TypeOK, DeviceReturn, Return, Goto, sessionVars, WaiterPresent, Listening
  <2>6. LeaksOnlyCancelled'
    <3>1. \A e \in pending : e.call # c
      BY <1>5a, <2>1 DEF IInv, TypeOK, EntriesOwned, IdsFresh, Minted, Entry, DeviceReturn
    <3> QED
      BY <1>5a, <2>1, <3>1 DEF IInv, TypeOK, LeaksOnlyCancelled, Minted, DeviceReturn, Return, Goto, Entry
  <2> QED
    BY <2>2, <2>3, <2>4, <2>5, <2>6 DEF IInv
<1>6. ASSUME NEW c \in Call, AutoRequest(c) PROVE IInv'
  <2>1. UNCHANGED <<nextId, pending, reqId, target, answer, result, seen, posts, chan>>
    BY <1>6 DEF AutoRequest, Goto, sessionVars
  <2>2. (EntriesOwned /\ QueuedAsked /\ SeenAsked /\ RepliesFounded /\ AnsweredLeft /\ AnswerMatches)'
    BY <2>1 DEF IInv, EntriesOwned, QueuedAsked, SeenAsked, RepliesFounded, AnsweredLeft, AnswerMatches, Asks,
        Minted
  <2>3. IdsFresh'
    BY <1>6, <2>1 DEF IInv, TypeOK, AutoRequest, Goto, sessionVars, IdsFresh, Minted
  <2>4. NotYetAnswered'
    BY <1>6, <2>1 DEF IInv, TypeOK, AutoRequest, Goto, sessionVars, NotYetAnswered
  <2>5. WaiterPresent'
    BY <1>6, <2>1 DEF IInv, TypeOK, AutoRequest, Goto, sessionVars, WaiterPresent, Listening
  <2>6. LeaksOnlyCancelled'
    BY <1>6, <2>1 DEF IInv, TypeOK, AutoRequest, Goto, sessionVars, LeaksOnlyCancelled
  <2> QED
    BY <2>2, <2>3, <2>4, <2>5, <2>6 DEF IInv
<1>7. ASSUME NEW c \in Call, PickSession(c) PROVE IInv'
  <2>1. UNCHANGED <<nextId, pending, reqId, answer, seen, posts, chan>>
    BY <1>7 DEF PickSession, Return, Goto, sessionVars
  <2>2. (EntriesOwned /\ RepliesFounded /\ AnsweredLeft)'
    BY <2>1 DEF IInv, EntriesOwned, RepliesFounded, AnsweredLeft, Minted
  <2>3. IdsFresh'
    BY <1>7, <2>1 DEF IInv, TypeOK, PickSession, Return, Goto, sessionVars, IdsFresh, Minted
  <2>4. QueuedAsked' /\ SeenAsked'
    <3>1. \A d \in Call : \A s, i : Asks(d, s, i) => Asks(d, s, i)'
      BY <1>7, <2>1 DEF IInv, TypeOK, IdsFresh, Minted, Asks, PickSession
    <3> QED
      BY <2>1, <3>1 DEF IInv, QueuedAsked, SeenAsked
  <2>5. NotYetAnswered'
    BY <1>7, <2>1 DEF IInv, TypeOK, PickSession, Return, Goto, sessionVars, NotYetAnswered
  <2>6. AnswerMatches'
    <3>1. answer[c] = NoAnswer
      BY <1>7 DEF IInv, NotYetAnswered, PickSession
    <3> QED
      BY <1>7, <2>1, <3>1 DEF IInv, TypeOK, AnswerMatches, PickSession
  <2>7. WaiterPresent'
    BY <1>7, <2>1 DEF IInv, TypeOK, PickSession, Return, Goto, sessionVars, WaiterPresent, Listening
  <2>8. LeaksOnlyCancelled'
    <3>1. \A e \in pending : e.call # c
      BY <1>7, <2>1 DEF IInv, TypeOK, EntriesOwned, IdsFresh, Minted, Entry, PickSession
    <3> QED
      BY <1>7, <2>1, <3>1 DEF IInv, TypeOK, LeaksOnlyCancelled, Minted, PickSession, Return, Goto, Entry
  <2> QED
    BY <2>2, <2>3, <2>4, <2>5, <2>6, <2>7, <2>8 DEF IInv
<1>8. ASSUME NEW c \in Call, MintId(c) PROVE IInv'
  <2>1. UNCHANGED <<pending, target, answer, result, seen, posts, chan>>
    BY <1>8 DEF MintId, Goto, sessionVars
  <2>2. (RepliesFounded /\ AnsweredLeft)'
    BY <2>1 DEF IInv, RepliesFounded, AnsweredLeft
  <2>3. IdsFresh'
    BY <1>8, <2>1 DEF IInv, TypeOK, MintId, Goto, sessionVars, IdsFresh, Minted
  <2>4. EntriesOwned'
    <3>1. \A e \in pending : e.call # c
      BY <1>8, <2>1 DEF IInv, TypeOK, EntriesOwned, IdsFresh, Minted, Entry, MintId
    <3> QED
      BY <1>8, <2>1, <3>1 DEF IInv, TypeOK, EntriesOwned, Minted, MintId, Return, Goto, Entry
  <2>5. QueuedAsked' /\ SeenAsked'
    <3>1. \A d \in Call : \A s, i : Asks(d, s, i) => Asks(d, s, i)'
      BY <1>8, <2>1 DEF IInv, TypeOK, IdsFresh, Minted, Asks, MintId
    <3> QED
      BY <2>1, <3>1 DEF IInv, QueuedAsked, SeenAsked
  <2>6. NotYetAnswered'
    BY <1>8, <2>1 DEF IInv, TypeOK, MintId, Goto, sessionVars, NotYetAnswered
  <2>7. AnswerMatches'
    <3>1. answer[c] = NoAnswer
      BY <1>8 DEF IInv, NotYetAnswered, MintId
    <3> QED
      BY <1>8, <2>1, <3>1 DEF IInv, TypeOK, AnswerMatches, MintId
  <2>8. WaiterPresent'
    BY <1>8, <2>1 DEF IInv, TypeOK, MintId, Goto, sessionVars, WaiterPresent, Listening
  <2>9. LeaksOnlyCancelled'
    BY <1>8, <2>1 DEF IInv, TypeOK, MintId, Goto, sessionVars, LeaksOnlyCancelled
  <2> QED
    BY <2>2, <2>3, <2>4, <2>5, <2>6, <2>7, <2>8, <2>9 DEF IInv
<1>9. ASSUME NEW c \in Call, RegisterWaiter(c) PROVE IInv'
  <2>1. UNCHANGED <<nextId, reqId, target, answer, result, seen, posts, chan>>
    BY <1>9 DEF RegisterWaiter, Insert, Goto, sessionVars
  <2>2. (QueuedAsked /\ SeenAsked /\ RepliesFounded /\ AnswerMatches)'
    BY <2>1 DEF IInv, QueuedAsked, SeenAsked, RepliesFounded, AnswerMatches, Asks, Minted
  <2>3. IdsFresh'
    BY <1>9, <2>1 DEF IInv, TypeOK, RegisterWaiter, Insert, Goto, sessionVars, IdsFresh, Minted
  <2>4. pending' = {e \in pending : e.id # reqId[c]} \cup {[id |-> reqId[c], call |-> c]}
    BY <1>9 DEF RegisterWaiter, Insert
  <2>5. Minted(c) /\ answer[c] = NoAnswer
    BY <1>9 DEF IInv, IdsFresh, NotYetAnswered, RegisterWaiter
  <2>6. pc' = [pc EXCEPT ![c] = "registered"]
    BY <1>9 DEF RegisterWaiter, Goto
  <2>7. EntriesOwned'
    BY <2>1, <2>4, <2>5 DEF IInv, EntriesOwned, Minted
  <2>8. AnsweredLeft'
    BY <2>1, <2>4, <2>5 DEF IInv, AnsweredLeft
  <2>9. NotYetAnswered'
    BY <1>9, <2>1 DEF IInv, TypeOK, RegisterWaiter, Insert, Goto, sessionVars, NotYetAnswered
  <2>10. WaiterPresent'
    <3> SUFFICES ASSUME NEW d \in Call, Listening(d)', answer[d] = NoAnswer
                 PROVE  [id |-> reqId[d], call |-> d] \in pending'
      BY <2>1 DEF WaiterPresent
    <3>1. CASE d = c
      BY <2>4, <3>1
    <3>2. CASE d # c
      <4>1. [id |-> reqId[d], call |-> d] \in pending
        BY <2>6, <3>2 DEF IInv, TypeOK, WaiterPresent, Listening
      <4>2. reqId[d] # reqId[c]
        BY <2>5, <3>2 DEF IInv, IdsFresh
      <4> QED
        BY <2>4, <4>1, <4>2
    <3> QED
      BY <3>1, <3>2
  <2>11. LeaksOnlyCancelled'
    BY <2>1, <2>4, <2>6 DEF IInv, TypeOK, LeaksOnlyCancelled, Entry
  <2> QED
    BY <2>2, <2>3, <2>4, <2>5, <2>6, <2>7, <2>8, <2>9, <2>10, <2>11 DEF IInv
<1>10. ASSUME NEW c \in Call, SendRequest(c) PROVE IInv'
  <2>1. UNCHANGED <<nextId, pending, reqId, target, answer, result, seen, posts>>
    BY <1>10 DEF SendRequest, Enqueue, Goto
  <2>2. (EntriesOwned /\ SeenAsked /\ RepliesFounded /\ AnsweredLeft /\ AnswerMatches)'
    BY <2>1 DEF IInv, EntriesOwned, SeenAsked, RepliesFounded, AnsweredLeft, AnswerMatches, Asks, Minted
  <2>3. IdsFresh'
    BY <1>10, <2>1 DEF IInv, TypeOK, SendRequest, Enqueue, Goto, IdsFresh, Minted
  <2>4. QueuedAsked'
    <3>1. SamplingRequest(reqId[c]) \in Message
      BY MessageKinds DEF TypeOK
    <3>2. Asks(c, target[c], reqId[c])
      BY <1>10 DEF IInv, IdsFresh, SendRequest, Asks, Minted
    <3>3. CASE Enqueue(target[c], SamplingRequest(reqId[c]))
      BY <2>1, <3>1, <3>2, <3>3, EnqueueAsked DEF IInv, SamplingRequest
    <3>4. CASE UNCHANGED chan
      BY <2>1, <3>4 DEF IInv, QueuedAsked, Asks, Minted
    <3> QED
      BY <1>10, <3>3, <3>4 DEF SendRequest
  <2>5. NotYetAnswered'
    BY <1>10, <2>1 DEF IInv, TypeOK, SendRequest, Enqueue, Goto, NotYetAnswered
  <2>6. WaiterPresent'
    BY <1>10, <2>1 DEF IInv, TypeOK, SendRequest, Enqueue, Goto, WaiterPresent, Listening
  <2>7. LeaksOnlyCancelled'
    <3>1. pc' = [pc EXCEPT ![c] = pc'[c]] /\ pc'[c] \in {"waiting", "undelivered"}
      BY <1>10 DEF TypeOK, SendRequest, Goto
    <3> QED
      BY <1>10, <2>1, <3>1 DEF IInv, TypeOK, SendRequest, LeaksOnlyCancelled, Listening, Entry
  <2> QED
    BY <2>2, <2>3, <2>4, <2>5, <2>6, <2>7 DEF IInv
<1>11. ASSUME NEW c \in Call, TakeAnswer(c) PROVE IInv'
  <2>1. UNCHANGED <<nextId, pending, reqId, target, answer, seen, posts, chan>>
    BY <1>11 DEF TakeAnswer, Return, Goto, sessionVars
  <2>2. (EntriesOwned /\ QueuedAsked /\ SeenAsked /\ RepliesFounded /\ AnsweredLeft /\ AnswerMatches)'
    BY <2>1 DEF IInv, EntriesOwned, QueuedAsked, SeenAsked, RepliesFounded, AnsweredLeft, AnswerMatches, Asks,
        Minted
  <2>3. IdsFresh'
    BY <1>11, <2>1 DEF IInv, TypeOK, TakeAnswer, Return, Goto, sessionVars, IdsFresh, Minted
  <2>4. NotYetAnswered'
    BY <1>11, <2>1 DEF IInv, TypeOK, TakeAnswer, Return, Goto, sessionVars, NotYetAnswered
  <2>5. WaiterPresent'
    BY <1>11, <2>1 DEF IInv, TypeOK, TakeAnswer, Return, Goto, sessionVars, WaiterPresent, Listening
  <2>6. LeaksOnlyCancelled'
    <3>1. \A e \in pending : e.call # c
      BY <1>11 DEF IInv, AnsweredLeft, TakeAnswer
    <3> QED
      BY <1>11, <2>1, <3>1 DEF IInv, TypeOK, Entry, TakeAnswer, Return, Goto, LeaksOnlyCancelled
  <2> QED
    BY <2>2, <2>3, <2>4, <2>5, <2>6 DEF IInv
<1>12. ASSUME NEW c \in Call, Timeout(c) PROVE IInv'
  <2>1. UNCHANGED <<nextId, pending, reqId, target, answer, result, seen, posts, chan>>
    BY <1>12 DEF Timeout, Goto, sessionVars
  <2>2. (EntriesOwned /\ QueuedAsked /\ SeenAsked /\ RepliesFounded /\ AnsweredLeft /\ AnswerMatches)'
    BY <2>1 DEF IInv, EntriesOwned, QueuedAsked, SeenAsked, RepliesFounded, AnsweredLeft, AnswerMatches, Asks,
        Minted
  <2>3. IdsFresh'
    BY <1>12, <2>1 DEF IInv, TypeOK, Timeout, Goto, sessionVars, IdsFresh, Minted
  <2>4. NotYetAnswered'
    BY <1>12, <2>1 DEF IInv, TypeOK, Timeout, Goto, sessionVars, NotYetAnswered
  <2>5. WaiterPresent'
    BY <1>12, <2>1 DEF IInv, TypeOK, Timeout, Goto, sessionVars, WaiterPresent, Listening
  <2>6. LeaksOnlyCancelled'
    BY <1>12, <2>1 DEF IInv, TypeOK, Timeout, Goto, sessionVars, LeaksOnlyCancelled
  <2> QED
    BY <2>2, <2>3, <2>4, <2>5, <2>6 DEF IInv
<1>13. ASSUME NEW c \in Call, DropWaiter(c) PROVE IInv'
  <2>1. UNCHANGED <<nextId, reqId, target, answer, seen, posts, chan>>
    BY <1>13 DEF DropWaiter, Remove, Return, Goto, sessionVars
  <2>2. (QueuedAsked /\ SeenAsked /\ RepliesFounded /\ AnswerMatches)'
    BY <2>1 DEF IInv, QueuedAsked, SeenAsked, RepliesFounded, AnswerMatches, Asks, Minted
  <2>3. IdsFresh'
    BY <1>13, <2>1 DEF IInv, TypeOK, DropWaiter, Remove, Return, Goto, sessionVars, IdsFresh, Minted
  <2>4. EntriesOwned'
    BY <1>13, <2>1 DEF IInv, TypeOK, DropWaiter, Remove, Return, Goto, sessionVars, EntriesOwned, Minted
  <2>5. AnsweredLeft'
    BY <1>13, <2>1 DEF IInv, TypeOK, DropWaiter, Remove, Return, Goto, sessionVars, AnsweredLeft
  <2>6. NotYetAnswered'
    BY <1>13, <2>1 DEF IInv, TypeOK, DropWaiter, Remove, Return, Goto, sessionVars, NotYetAnswered
  <2>7. WaiterPresent'
    <3> SUFFICES ASSUME NEW d \in Call, Listening(d)', answer[d] = NoAnswer
                 PROVE  [id |-> reqId[d], call |-> d] \in pending'
      BY <2>1 DEF WaiterPresent
    <3>1. d # c /\ Listening(d)
      BY <1>13 DEF TypeOK, DropWaiter, Return, Goto, Listening
    <3>2. reqId[d] # reqId[c]
      BY <1>13, <3>1 DEF IInv, IdsFresh, DropWaiter
    <3>3. [id |-> reqId[d], call |-> d] \in pending
      BY <3>1 DEF IInv, WaiterPresent
    <3> QED
      BY <1>13, <3>2, <3>3 DEF DropWaiter, Remove
  <2>8. LeaksOnlyCancelled'
    <3>1. \A e \in pending' : e \in pending /\ e.call # c
      BY <1>13 DEF IInv, EntriesOwned, DropWaiter, Remove
    <3> QED
      BY <1>13, <2>1, <3>1 DEF IInv, TypeOK, Entry, DropWaiter, Return, Goto, LeaksOnlyCancelled
  <2> QED
    BY <2>2, <2>3, <2>4, <2>5, <2>6, <2>7, <2>8 DEF IInv
<1>14. ASSUME NEW c \in Call, Respond(c) PROVE IInv'
  <2>1. UNCHANGED <<nextId, pending, reqId, target, answer, result, seen, posts>>
    BY <1>14 DEF Respond, Enqueue, Goto
  <2>2. (EntriesOwned /\ SeenAsked /\ RepliesFounded /\ AnsweredLeft /\ AnswerMatches)'
    BY <2>1 DEF IInv, EntriesOwned, SeenAsked, RepliesFounded, AnsweredLeft, AnswerMatches, Asks, Minted
  <2>3. IdsFresh'
    BY <1>14, <2>1 DEF IInv, TypeOK, Respond, Enqueue, Goto, IdsFresh, Minted
  <2>4. QueuedAsked'
    <3>1. Response(c) \in Message /\ Response(c).kind # "sampling"
      BY MessageKinds DEF Response
    <3>2. CASE Enqueue(origin[c], Response(c))
      BY <2>1, <3>1, <3>2, EnqueueAsked DEF IInv
    <3>3. CASE UNCHANGED chan
      BY <2>1, <3>3 DEF IInv, QueuedAsked, Asks, Minted
    <3> QED
      BY <1>14, <3>2, <3>3 DEF Respond
  <2>5. NotYetAnswered'
    BY <1>14, <2>1 DEF IInv, TypeOK, Respond, Enqueue, Goto, NotYetAnswered
  <2>6. WaiterPresent'
    BY <1>14, <2>1 DEF IInv, TypeOK, Respond, Enqueue, Goto, WaiterPresent, Listening
  <2>7. LeaksOnlyCancelled'
    BY <1>14, <2>1 DEF IInv, TypeOK, Respond, Enqueue, Goto, LeaksOnlyCancelled
  <2> QED
    BY <2>2, <2>3, <2>4, <2>5, <2>6, <2>7 DEF IInv
<1>15. ASSUME NEW c \in Call, AutoReturn(c) PROVE IInv'
  <2>1. UNCHANGED <<nextId, pending, reqId, target, answer, result, seen, posts, chan>>
    BY <1>15 DEF AutoReturn, Goto, sessionVars
  <2>2. (EntriesOwned /\ QueuedAsked /\ SeenAsked /\ RepliesFounded /\ AnsweredLeft /\ AnswerMatches)'
    BY <2>1 DEF IInv, EntriesOwned, QueuedAsked, SeenAsked, RepliesFounded, AnsweredLeft, AnswerMatches, Asks,
        Minted
  <2>3. IdsFresh'
    BY <1>15, <2>1 DEF IInv, TypeOK, AutoReturn, Goto, sessionVars, IdsFresh, Minted
  <2>4. NotYetAnswered'
    BY <1>15, <2>1 DEF IInv, TypeOK, AutoReturn, Goto, sessionVars, NotYetAnswered
  <2>5. WaiterPresent'
    BY <1>15, <2>1 DEF IInv, TypeOK, AutoReturn, Goto, sessionVars, WaiterPresent, Listening
  <2>6. LeaksOnlyCancelled'
    BY <1>15, <2>1 DEF IInv, TypeOK, AutoReturn, Goto, sessionVars, LeaksOnlyCancelled
  <2> QED
    BY <2>2, <2>3, <2>4, <2>5, <2>6 DEF IInv
<1>16. ASSUME NEW c \in Call, Cancel(c) PROVE IInv'
  <2>1. UNCHANGED <<nextId, pending, reqId, target, answer, seen, posts, chan>>
    BY <1>16 DEF Cancel, Goto, sessionVars
  <2>2. (EntriesOwned /\ QueuedAsked /\ SeenAsked /\ RepliesFounded /\ AnsweredLeft /\ AnswerMatches)'
    BY <2>1 DEF IInv, EntriesOwned, QueuedAsked, SeenAsked, RepliesFounded, AnsweredLeft, AnswerMatches, Asks,
        Minted
  <2>3. IdsFresh'
    BY <1>16, <2>1 DEF IInv, TypeOK, Cancel, Goto, sessionVars, IdsFresh, Minted
  <2>4. NotYetAnswered'
    BY <1>16, <2>1 DEF IInv, TypeOK, Cancel, Goto, sessionVars, NotYetAnswered
  <2>5. WaiterPresent'
    BY <1>16, <2>1 DEF IInv, TypeOK, Cancel, Goto, sessionVars, WaiterPresent, Listening
  <2>6. LeaksOnlyCancelled'
    BY <1>16, <2>1 DEF IInv, TypeOK, Cancel, Goto, sessionVars, LeaksOnlyCancelled
  <2> QED
    BY <2>2, <2>3, <2>4, <2>5, <2>6 DEF IInv
<1>17. ASSUME NEW p \in posts, DeliverReply(p) PROVE IInv'
  <2>1. UNCHANGED <<nextId, pc, reqId, target, result, seen, chan>>
    BY <1>17 DEF DeliverReply, sessionVars
  <2>2. (IdsFresh /\ QueuedAsked /\ SeenAsked)'
    BY <2>1 DEF IInv, IdsFresh, QueuedAsked, SeenAsked, Asks, Minted
  <2> DEFINE found == {e \in pending : p.sess \in sessions /\ e.id = p.id}
  <2>3. /\ pending' = pending \ found
        /\ \A c \in Call : \/ answer'[c] = answer[c]
                         \/ /\ Listening(c) /\ answer'[c] = p
                            /\ \E e \in found : e.call = c
    BY <1>17 DEF DeliverReply
  <2>4. EntriesOwned'
    BY <2>1, <2>3 DEF IInv, EntriesOwned, Minted
  <2>5. RepliesFounded'
    BY <1>17, <2>1 DEF IInv, TypeOK, DeliverReply, sessionVars, RepliesFounded
  <2>6. AnsweredLeft'
    <3> SUFFICES ASSUME NEW e \in pending, e \notin found
                 PROVE  answer'[e.call] = NoAnswer
      BY <2>3 DEF AnsweredLeft
    <3>1. e.call \in Call /\ answer[e.call] = NoAnswer
      BY DEF IInv, TypeOK, AnsweredLeft, Entry
    <3>2. \A f \in found : f.call # e.call
      BY DEF IInv, EntriesOwned
    <3> QED
      BY <2>3, <3>1, <3>2
  <2>7. NotYetAnswered'
    BY <2>1, <2>3 DEF IInv, NotYetAnswered, Listening
  <2>8. AnswerMatches'
    <3> SUFFICES ASSUME NEW c \in Call, Listening(c), answer'[c] = p,
                        NEW e \in found, e.call = c
                 PROVE  /\ p.sess = target[c] /\ p.id = reqId[c]
                        /\ [sess |-> target[c], id |-> reqId[c]] \in seen
      BY <2>1, <2>3 DEF IInv, AnswerMatches
    <3>1. Minted(c) /\ p.id = reqId[c]
      BY DEF IInv, EntriesOwned
    <3>2. [sess |-> p.sess, id |-> p.id] \in seen
      BY DEF IInv, TypeOK, RepliesFounded
    <3>3. PICK d \in Call : Asks(d, p.sess, p.id)
      BY <3>2 DEF IInv, SeenAsked
    <3>4. d = c
      BY <3>1, <3>3 DEF IInv, IdsFresh, Asks, Minted
    <3> QED
      BY <3>1, <3>2, <3>3, <3>4 DEF Asks
  <2>9. WaiterPresent'
    BY <1>17, <2>1 DEF IInv, TypeOK, DeliverReply, sessionVars, WaiterPresent, Listening
  <2>10. LeaksOnlyCancelled'
    BY <2>1, <2>3 DEF IInv, LeaksOnlyCancelled
  <2> QED
    BY <2>2, <2>3, <2>4, <2>5, <2>6, <2>7, <2>8, <2>9, <2>10 DEF IInv
<1>18. ASSUME NEW q \in seen, NEW b \in Body, PostReply(q, b) PROVE IInv'
  <2>1. UNCHANGED <<nextId, pending, pc, reqId, target, answer, result, seen, chan>>
    BY <1>18 DEF PostReply, callVars, sessionVars
  <2>2. (IdsFresh /\ EntriesOwned /\ QueuedAsked /\ SeenAsked /\ AnsweredLeft /\ NotYetAnswered /\ AnswerMatches /\ WaiterPresent /\ LeaksOnlyCancelled)'
    BY <2>1 DEF IInv, IdsFresh, EntriesOwned, QueuedAsked, SeenAsked, AnsweredLeft, NotYetAnswered,
        AnswerMatches, WaiterPresent, LeaksOnlyCancelled, Asks, Listening, Minted
  <2>3. RepliesFounded'
    <3>1. q = [sess |-> q.sess, id |-> q.id]
      BY DEF TypeOK, Question
    <3> QED
      <4>1. \A r \in posts' : r \in posts \/ (r.sess = q.sess /\ r.id = q.id)
        BY <1>18 DEF PostReply
      <4> QED
        BY <2>1, <3>1, <4>1 DEF IInv, RepliesFounded
  <2> QED
    BY <2>2, <2>3 DEF IInv
<1>19. CASE UNCHANGED vars
  BY <1>19 DEF vars, sessionVars, samplingVars, callVars, IInv, Minted, Asks, Listening,
              IdsFresh, EntriesOwned, QueuedAsked, SeenAsked, RepliesFounded, AnsweredLeft,
              NotYetAnswered, AnswerMatches, WaiterPresent, LeaksOnlyCancelled
<1> QED
  BY <1>1, <1>2, <1>3, <1>4, <1>5, <1>5a, <1>6, <1>7, <1>8, <1>9, <1>10, <1>11, <1>12, <1>13, <1>14,
     <1>15, <1>16, <1>17, <1>18, <1>19 DEF Next, CallStep

(* IInv holds of every reachable state, and with it each of its parts. *)
LEMMA Invariant == Spec => [](TypeOK /\ IInv)
<1> QED
  BY TypeInit, TypeNext, InvInit, InvNext, PTL DEF Spec

(***************************************************************************)
(* A reply never crosses: whatever number of calls and clients there are,  *)
(* the answer a call holds is the one its own client gave to its own       *)
(* question.                                                               *)
(***************************************************************************)
THEOREM AnswersMatch == Spec => []AnswerMatches
<1>1. IInv => AnswerMatches
  BY DEF IInv
<1> QED
  BY <1>1, Invariant, PTL

(* The oneshot of a listening call is in the table until it is answered.   *)
THEOREM WaitersPresent == Spec => []WaiterPresent
<1>1. IInv => WaiterPresent
  BY DEF IInv
<1> QED
  BY <1>1, Invariant, PTL

(* Only the entry of a dropped handler can outlive its call.               *)
THEOREM LeaksAreCancelled == Spec => []LeaksOnlyCancelled
<1>1. IInv => LeaksOnlyCancelled
  BY DEF IInv
<1> QED
  BY <1>1, Invariant, PTL

(* Only a delivery writes an answer, and its entry's call has none yet.     *)
LEMMA AnswersKept ==
  ASSUME TypeOK, IInv, [Next]_vars, NEW c \in Call, answer'[c] # answer[c]
  PROVE  answer[c] = NoAnswer /\ Listening(c)
<1>1. CASE UNCHANGED answer
  BY <1>1
<1>2. ASSUME NEW p \in posts, DeliverReply(p) PROVE answer[c] = NoAnswer /\ Listening(c)
  <2>1. Listening(c) /\ \E e \in pending : e.call = c
    BY <1>2 DEF DeliverReply
  <2> QED
    BY <2>1 DEF IInv, AnsweredLeft
<1>3. Next => UNCHANGED answer \/ \E p \in posts : DeliverReply(p)
  BY DEF Next, SessionStep, samplingVars, callVars, ReadStream, OtherTraffic, ToolRequest,
         QuickRequest, DeviceReturn, AutoRequest, CallStep, PickSession, MintId, RegisterWaiter, SendRequest,
         TakeAnswer, DropWaiter, Respond, AutoReturn, Timeout, Cancel, PostReply
<1> QED
  BY <1>1, <1>2, <1>3 DEF vars, samplingVars, callVars

(* A late or second reply changes no answer: the first one is the answer.  *)
THEOREM FirstReplyKept == Spec => FirstReplyWins
<1>1. TypeOK /\ IInv /\ [Next]_vars
      => [\A c \in Call : answer'[c] # answer[c] => answer[c] = NoAnswer /\ Listening(c)]_vars
  BY AnswersKept
<1> QED
  BY <1>1, Invariant, PTL DEF Spec, FirstReplyWins

-----------------------------------------------------------------------------
(* No text is taken for a failure, nor either for the lack of a result. *)
LEMMA Outcomes ==
  /\ "none" \notin Body /\ "none" \notin Failure
  /\ {"quick", "noClient", "closed", "timedOut", "cancelled"} = Failure
  /\ \A f \in Failure : f \notin Body
<1>1. Body \cap ({"none"} \cup Failure) = {}
  BY SamplingAssumption
<1>2. "none" \notin Failure
  BY DEF Failure
<1>3. "none" \notin Body /\ \A f \in Failure : f \notin Body
  BY <1>1
<1> QED
  BY <1>2, <1>3 DEF Failure

-----------------------------------------------------------------------------
(***************************************************************************)
(* Where a response may be queued.  ResponseOnOwnStream needs to know only *)
(* that a call which is ready to respond has a result, that of a call      *)
(* which is done nothing changes any more, and that only Respond queues a  *)
(* response: every other step at most shifts those that are there.         *)
(***************************************************************************)
ReturnedHasResult == \A c \in Call : pc[c] = "returned" => result[c] \notin {"none", "cancelled"}

LEMMA ReturnedNext == TypeOK /\ ReturnedHasResult /\ [Next]_vars => ReturnedHasResult'
<1> SUFFICES ASSUME TypeOK, ReturnedHasResult, [Next]_vars PROVE ReturnedHasResult'
  OBVIOUS
<1> USE DEF TypeOK, ReturnedHasResult
<1>1. ASSUME NEW c \in Call, NEW s \in Session, ToolRequest(c, s) \/ QuickRequest(c, s)
      PROVE  ReturnedHasResult'
  BY <1>1 DEF ToolRequest, QuickRequest, Return, Goto
<1>2. ASSUME NEW c \in Call, PickSession(c) \/ DropWaiter(c) \/ DeviceReturn(c)
      PROVE  ReturnedHasResult'
  BY <1>2 DEF PickSession, DropWaiter, DeviceReturn, Return, Goto
<1>3. ASSUME NEW c \in Call, TakeAnswer(c) PROVE ReturnedHasResult'
  <2>1. answer[c].body \in Body
    BY <1>3 DEF TakeAnswer, Reply
  <2>2. answer[c].body \notin {"none", "cancelled"}
    BY <2>1, Outcomes
  <2> QED
    BY <1>3, <2>2 DEF TakeAnswer, Return, Goto
<1>4. ASSUME NEW c \in Call, AutoRequest(c) \/ MintId(c) \/ RegisterWaiter(c) \/ SendRequest(c)
                              \/ Timeout(c) \/ Respond(c) \/ AutoReturn(c)
      PROVE  ReturnedHasResult'
  BY <1>4 DEF AutoRequest, MintId, RegisterWaiter, SendRequest, Timeout, Respond, AutoReturn, Goto
<1>5. ASSUME NEW c \in Call, Cancel(c) PROVE ReturnedHasResult'
  BY <1>5 DEF Cancel, Goto
<1>6. CASE UNCHANGED <<pc, result>>
  BY <1>6
<1>7. ASSUME NEW s \in Session, SessionStep(s) \/ ReadStream(s) \/ OtherTraffic(s)
      PROVE  UNCHANGED <<pc, result>>
  BY <1>7 DEF SessionStep, ReadStream, OtherTraffic, samplingVars, callVars
<1>8. ASSUME NEW p \in posts, DeliverReply(p) PROVE UNCHANGED <<pc, result>>
  BY <1>8 DEF DeliverReply
<1>9. ASSUME NEW q \in seen, NEW b \in Body, PostReply(q, b) PROVE UNCHANGED <<pc, result>>
  BY <1>9 DEF PostReply, callVars
<1> QED
  BY <1>1, <1>2, <1>3, <1>4, <1>5, <1>6, <1>7, <1>8, <1>9
     DEF Next, CallStep, vars, samplingVars, callVars

(* Of a call that is done nothing changes.                                 *)
LEMMA DoneStays ==
  ASSUME TypeOK, [Next]_vars, NEW d \in Call, pc[d] = "done"
  PROVE  pc'[d] = pc[d] /\ origin'[d] = origin[d] /\ result'[d] = result[d]
<1> USE DEF TypeOK
<1>1. ASSUME NEW c \in Call, NEW s \in Session, ToolRequest(c, s) \/ QuickRequest(c, s)
      PROVE  pc'[d] = pc[d] /\ origin'[d] = origin[d] /\ result'[d] = result[d]
  BY <1>1 DEF ToolRequest, QuickRequest, Return, Goto
<1>2. ASSUME NEW c \in Call, AutoRequest(c) \/ DeviceReturn(c) \/ CallStep(c) \/ Timeout(c)
                              \/ Cancel(c)
      PROVE  pc'[d] = pc[d] /\ origin'[d] = origin[d] /\ result'[d] = result[d]
  BY <1>2 DEF AutoRequest, DeviceReturn, CallStep, PickSession, MintId, RegisterWaiter, SendRequest, TakeAnswer,
              DropWaiter, Respond, AutoReturn, Timeout, Cancel, Return, Goto
<1>3. CASE UNCHANGED callVars
  BY <1>3 DEF callVars
<1>4. ASSUME NEW s \in Session, SessionStep(s) \/ ReadStream(s) \/ OtherTraffic(s)
      PROVE  UNCHANGED callVars
  BY <1>4 DEF SessionStep, ReadStream, OtherTraffic, samplingVars
<1>5. ASSUME NEW p \in posts, DeliverReply(p)
      PROVE  pc'[d] = pc[d] /\ origin'[d] = origin[d] /\ result'[d] = result[d]
  BY <1>5 DEF DeliverReply
<1>6. ASSUME NEW q \in seen, NEW b \in Body, PostReply(q, b) PROVE UNCHANGED callVars
  BY <1>6 DEF PostReply
<1> QED
  BY <1>1, <1>2, <1>3, <1>4, <1>5, <1>6 DEF Next, vars, samplingVars

(* Those of a kind that are queued in s were there, all shifted alike.      *)
Shifted(s, kind) ==
  \E k \in {0, 1} : \A n \in 1 .. Len(chan'[s]) :
    chan'[s][n].kind = kind =>
      n + k \in 1 .. Len(chan[s]) /\ chan'[s][n] = chan[s][n + k]

LEMMA EnqueueShifts ==
  ASSUME TypeOK, NEW s, NEW m \in Message, NEW kind, m.kind # kind, Enqueue(s, m),
         NEW r \in Session
  PROVE  Shifted(r, kind)
<1>1. CASE r = s
  <2>1. chan[r] \in Seq(Message) /\ chan'[r] = Append(chan[r], m)
    BY <1>1 DEF TypeOK, Enqueue
  <2>2. \A n \in 1 .. Len(chan'[r]) :
          \/ n + 0 \in 1 .. Len(chan[r]) /\ chan'[r][n] = chan[r][n + 0]
          \/ chan'[r][n] = m
    BY <2>1
  <2> QED
    BY <2>2 DEF Shifted
<1>2. CASE r # s
  <2>1. chan[r] \in Seq(Message) /\ chan'[r] = chan[r]
    BY <1>2 DEF TypeOK, Enqueue
  <2> QED
    BY <2>1 DEF Shifted
<1> QED
  BY <1>1, <1>2

(* A stream that is opened, read or closed queues no question or response.  *)
LEMMA StreamShifts ==
  ASSUME TypeOK, NEW s \in Session, SessionStep(s) \/ ReadStream(s), NEW r \in Session,
         NEW kind \in {"sampling", "response"}
  PROVE  Shifted(r, kind)
<1>0. chan[r] \in Seq(Message)
  BY DEF TypeOK
<1>1. CASE chan'[r] = chan[r]
  BY <1>0, <1>1 DEF Shifted
<1>2. CASE chan'[r] = <<Endpoint>>
  <2>1. Len(<<Endpoint>>) = 1 /\ <<Endpoint>>[1] = Endpoint /\ Endpoint.kind # kind
    BY DEF Endpoint
  <2> QED
    BY <1>2, <2>1 DEF Shifted
<1>3. CASE chan'[r] = <<>>
  BY <1>3 DEF Shifted
<1>4. CASE chan[r] # <<>> /\ chan'[r] = Tail(chan[r])
  <2>1. \A n \in 1 .. Len(chan'[r]) :
          n + 1 \in 1 .. Len(chan[r]) /\ chan'[r][n] = chan[r][n + 1]
    BY <1>0, <1>4
  <2> QED
    BY <2>1 DEF Shifted
<1>5. \/ chan'[r] = chan[r] \/ chan'[r] = <<Endpoint>> \/ chan'[r] = <<>>
      \/ chan[r] # <<>> /\ chan'[r] = Tail(chan[r])
  BY DEF TypeOK, SessionStep, RegisterSession, MakePrimary, StartStream, CloseStream, ReadStream,
         ClientRead
<1> QED
  BY <1>1, <1>2, <1>3, <1>4, <1>5

LEMMA ResponsesNext ==
  TypeOK /\ TypeOK' /\ ReturnedHasResult /\ ResponseOnOwnStream /\ [Next]_vars
    => ResponseOnOwnStream'
<1> SUFFICES ASSUME TypeOK, TypeOK', ReturnedHasResult, ResponseOnOwnStream, [Next]_vars
             PROVE  ResponseOnOwnStream'
  OBVIOUS
<1> SUFFICES ASSUME NEW r \in Session, NEW n \in 1 .. Len(chan'[r]), NEW d \in Call,
                    chan'[r][n] = Response(d)
             PROVE  /\ r = origin'[d] /\ pc'[d] = "done" /\ result'[d] \notin {"none", "cancelled"}
                    /\ \A k \in 1 .. Len(chan'[r]) : chan'[r][k] = Response(d) => k = n
  BY DEF ResponseOnOwnStream
<1>0. Len(chan[r]) \in Nat /\ Len(chan'[r]) \in Nat /\ Response(d).kind = "response"
  BY DEF TypeOK, Response
<1>1. CASE Shifted(r, "response")
  <2>1. PICK k \in {0, 1} : \A m \in 1 .. Len(chan'[r]) :
          chan'[r][m].kind = "response" =>
            m + k \in 1 .. Len(chan[r]) /\ chan'[r][m] = chan[r][m + k]
    BY <1>1 DEF Shifted
  <2>2. n + k \in 1 .. Len(chan[r]) /\ chan[r][n + k] = Response(d)
    BY <1>0, <2>1
  <2>3. /\ r = origin[d] /\ pc[d] = "done" /\ result[d] \notin {"none", "cancelled"}
        /\ \A j \in 1 .. Len(chan[r]) : chan[r][j] = Response(d) => j = n + k
    BY <2>2 DEF ResponseOnOwnStream
  <2>4. ASSUME NEW m \in 1 .. Len(chan'[r]), chan'[r][m] = Response(d) PROVE m = n
    <3>1. m + k \in 1 .. Len(chan[r]) /\ chan[r][m + k] = Response(d)
      BY <1>0, <2>1, <2>4
    <3>2. m + k = n + k
      BY <2>3, <3>1
    <3> QED
      BY <3>2
  <2> QED
    BY <2>3, <2>4, DoneStays
<1>2. ASSUME NEW c \in Call, Respond(c), Enqueue(origin[c], Response(c)), origin[c] = r
      PROVE  /\ r = origin'[d] /\ pc'[d] = "done" /\ result'[d] \notin {"none", "cancelled"}
             /\ \A k \in 1 .. Len(chan'[r]) : chan'[r][k] = Response(d) => k = n
  <2>1. chan[r] \in Seq(Message) /\ chan'[r] = Append(chan[r], Response(c))
    BY <1>2 DEF TypeOK, Enqueue
  <2>2. /\ Len(chan'[r]) = Len(chan[r]) + 1 /\ chan'[r][Len(chan[r]) + 1] = Response(c)
        /\ \A j \in 1 .. Len(chan[r]) : chan'[r][j] = chan[r][j]
    BY <2>1, MessageKinds
  <2>3. /\ pc[c] = "returned" /\ pc' = [pc EXCEPT ![c] = "done"]
        /\ origin' = origin /\ result' = result
    BY <1>2 DEF Respond, Goto
  <2>4. CASE d = c
    <3>1. \A j \in 1 .. Len(chan[r]) : chan[r][j] # Response(c)
      BY <2>3 DEF ResponseOnOwnStream
    <3>2. \A j \in 1 .. Len(chan'[r]) : chan'[r][j] = Response(d) => j = Len(chan[r]) + 1
      BY <1>0, <2>2, <2>4, <3>1
    <3>3. pc'[d] = "done" /\ result'[d] \notin {"none", "cancelled"}
      BY <2>3, <2>4 DEF TypeOK, ReturnedHasResult
    <3> QED
      BY <1>2, <2>3, <2>4, <3>2, <3>3
  <2>5. CASE d # c
    <3>1. Response(c) # Response(d)
      BY <2>5 DEF Response
    <3>2. \A j \in 1 .. Len(chan'[r]) : chan'[r][j] = Response(d)
            => j \in 1 .. Len(chan[r]) /\ chan[r][j] = Response(d)
      BY <1>0, <2>2, <3>1
    <3>3. n \in 1 .. Len(chan[r]) /\ chan[r][n] = Response(d)
      BY <3>2
    <3>4. /\ r = origin[d] /\ pc[d] = "done" /\ result[d] \notin {"none", "cancelled"}
          /\ \A j \in 1 .. Len(chan[r]) : chan[r][j] = Response(d) => j = n
      BY <3>3 DEF ResponseOnOwnStream
    <3> QED
      BY <3>2, <3>4, DoneStays
  <2> QED
    BY <2>4, <2>5
<1>3. ASSUME NEW c \in Call, Respond(c), Enqueue(origin[c], Response(c)), origin[c] # r
      PROVE  chan'[r] = chan[r]
  BY <1>3 DEF TypeOK, Enqueue
<1>4. ASSUME chan'[r] = chan[r] PROVE Shifted(r, "response")
  BY <1>0, <1>4 DEF Shifted
<1>5. ASSUME NEW s \in Session, OtherTraffic(s) PROVE Shifted(r, "response")
  BY <1>5, MessageKinds, EnqueueShifts DEF OtherTraffic, Notification
<1>6. ASSUME NEW c \in Call, SendRequest(c) PROVE Shifted(r, "response")
  <2>1. SamplingRequest(reqId[c]) \in Message /\ SamplingRequest(reqId[c]).kind # "response"
    BY MessageKinds DEF TypeOK, SamplingRequest
  <2> QED
    BY <1>4, <1>6, <2>1, EnqueueShifts DEF SendRequest
<1>7. ASSUME NEW c \in Call, AutoRequest(c) \/ PickSession(c) \/ MintId(c) \/ RegisterWaiter(c)
                              \/ TakeAnswer(c) \/ DropWaiter(c) \/ AutoReturn(c)
                              \/ Timeout(c) \/ Cancel(c) \/ DeviceReturn(c)
      PROVE  chan' = chan
  BY <1>7 DEF AutoRequest, DeviceReturn, PickSession, MintId, RegisterWaiter, TakeAnswer, DropWaiter, AutoReturn,
              Timeout, Cancel, sessionVars
<1>8. ASSUME NEW c \in Call, NEW s \in Session, ToolRequest(c, s) \/ QuickRequest(c, s)
      PROVE  chan' = chan
  BY <1>8 DEF ToolRequest, QuickRequest, sessionVars
<1>9. /\ \A p \in posts : DeliverReply(p) => chan' = chan
      /\ \A q \in seen, b \in Body : PostReply(q, b) => chan' = chan
  BY DEF DeliverReply, PostReply, sessionVars
<1>10. ASSUME NEW c \in Call, Respond(c)
       PROVE  Enqueue(origin[c], Response(c)) \/ chan' = chan
  BY <1>10 DEF Respond
<1>11. UNCHANGED vars => chan' = chan
  BY DEF vars, sessionVars
<1> QED
  BY <1>1, <1>2, <1>3, <1>4, <1>5, <1>6, <1>7, <1>8, <1>9, <1>10, <1>11, StreamShifts
     DEF Next, CallStep

(***************************************************************************)
(* The result of a request goes to the client that posted it and to no     *)
(* other, once, and when there is one.                                     *)
(***************************************************************************)
THEOREM ResponsesComeHome == Spec => []ResponseOnOwnStream
<1>1. Init => ReturnedHasResult /\ ResponseOnOwnStream
  BY DEF Init, SessionsInit, SamplingInit, ReturnedHasResult, ResponseOnOwnStream
<1> QED
  BY <1>1, TypeInit, TypeNext, ReturnedNext, ResponsesNext, PTL DEF Spec

-----------------------------------------------------------------------------
(***************************************************************************)
(* AskedOnce counts copies, so it is proved from two facts that do not.    *)
(* IInv already ties an id to one call and one stream; beyond it, a queued *)
(* question has not been read and is queued once, and a call that has not  *)
(* sent its question finds it nowhere.                                     *)
(***************************************************************************)
Queued(s, i) == \E n \in 1 .. Len(chan[s]) : chan[s][n].kind = "sampling" /\ chan[s][n].id = i

QuestionOnce ==
  \A s \in Session : \A n \in 1 .. Len(chan[s]) : chan[s][n].kind = "sampling" =>
    /\ [sess |-> s, id |-> chan[s][n].id] \notin seen
    /\ \A k \in 1 .. Len(chan[s]) :
         chan[s][k].kind = "sampling" /\ chan[s][k].id = chan[s][n].id => k = n

NotYetAsked ==
  \A c \in Call : pc[c] \in {"minted", "registered"} =>
    /\ \A s \in Session : ~ Queued(s, reqId[c])
    /\ \A q \in seen : q.id # reqId[c]

AskInv == QuestionOnce /\ NotYetAsked

(* Where no question is queued and none is read, both facts stay.          *)
LEMMA AskKept ==
  ASSUME TypeOK, TypeOK', AskInv, seen' = seen,
         \A s \in Session : Shifted(s, "sampling"),
         \A c \in Call : pc'[c] \in {"minted", "registered"}
                           => pc[c] \in {"minted", "registered"} /\ reqId'[c] = reqId[c]
  PROVE  AskInv'
<1>1. QuestionOnce'
  <2> SUFFICES ASSUME NEW s \in Session, NEW n \in 1 .. Len(chan'[s]),
                      chan'[s][n].kind = "sampling"
               PROVE  /\ [sess |-> s, id |-> chan'[s][n].id] \notin seen'
                      /\ \A k \in 1 .. Len(chan'[s]) :
                           chan'[s][k].kind = "sampling" /\ chan'[s][k].id = chan'[s][n].id
                             => k = n
    BY DEF QuestionOnce
  <2>1. PICK d \in {0, 1} : \A m \in 1 .. Len(chan'[s]) :
          chan'[s][m].kind = "sampling" =>
            m + d \in 1 .. Len(chan[s]) /\ chan'[s][m] = chan[s][m + d]
    BY DEF Shifted
  <2>2. n + d \in 1 .. Len(chan[s]) /\ chan'[s][n] = chan[s][n + d]
    BY <2>1
  <2>3. /\ [sess |-> s, id |-> chan[s][n + d].id] \notin seen
        /\ \A k \in 1 .. Len(chan[s]) :
             chan[s][k].kind = "sampling" /\ chan[s][k].id = chan[s][n + d].id => k = n + d
    BY <2>2 DEF AskInv, QuestionOnce
  <2>4. ASSUME NEW k \in 1 .. Len(chan'[s]), chan'[s][k].kind = "sampling",
               chan'[s][k].id = chan'[s][n].id
        PROVE  k = n
    <3>1. k + d \in 1 .. Len(chan[s]) /\ chan'[s][k] = chan[s][k + d]
      BY <2>1, <2>4
    <3>2. k + d = n + d
      BY <2>2, <2>3, <2>4, <3>1
    <3>3. k \in Int /\ n \in Int /\ d \in Int
      OBVIOUS
    <3> QED
      BY <3>2, <3>3
  <2> QED
    BY <2>2, <2>3, <2>4
<1>2. \A s \in Session : \A i : Queued(s, i)' => Queued(s, i)
  BY DEF Shifted, Queued
<1>3. NotYetAsked'
  BY <1>2 DEF AskInv, NotYetAsked
<1> QED
  BY <1>1, <1>3 DEF AskInv

LEMMA AskRead ==
  ASSUME TypeOK, TypeOK', AskInv, NEW s \in Session, ReadStream(s)
  PROVE  AskInv'
<1> DEFINE m == Head(chan[s])
<1>1. /\ chan[s] \in Seq(Message) /\ chan[s] # <<>> /\ chan'[s] = Tail(chan[s])
      /\ \A r \in Session \ {s} : chan'[r] = chan[r]
      /\ UNCHANGED <<pc, reqId>>
  BY DEF TypeOK, ReadStream, ClientRead, callVars
<1>2. /\ 1 \in 1 .. Len(chan[s]) /\ m = chan[s][1]
      /\ \A n \in 1 .. Len(chan'[s]) :
           n + 1 \in 1 .. Len(chan[s]) /\ chan'[s][n] = chan[s][n + 1]
  BY <1>1
<1>3. \/ seen' = seen
      \/ m.kind = "sampling" /\ seen' = seen \cup {[sess |-> s, id |-> m.id]}
  BY DEF ReadStream
<1>4. CASE seen' = seen
  BY <1>1, <1>4, StreamShifts, AskKept
<1>5. CASE m.kind = "sampling" /\ seen' = seen \cup {[sess |-> s, id |-> m.id]}
  <2>1. QuestionOnce'
    <3> SUFFICES ASSUME NEW r \in Session, NEW n \in 1 .. Len(chan'[r]),
                        chan'[r][n].kind = "sampling"
                 PROVE  /\ [sess |-> r, id |-> chan'[r][n].id] \notin seen'
                        /\ \A k \in 1 .. Len(chan'[r]) :
                             chan'[r][k].kind = "sampling" /\ chan'[r][k].id = chan'[r][n].id
                               => k = n
      BY DEF QuestionOnce
    <3>1. CASE r = s
      <4>1. n + 1 \in 1 .. Len(chan[s]) /\ chan'[s][n] = chan[s][n + 1] /\ n + 1 # 1
        BY <1>2, <3>1
      <4>2. /\ [sess |-> s, id |-> chan[s][n + 1].id] \notin seen
            /\ \A k \in 1 .. Len(chan[s]) :
                 chan[s][k].kind = "sampling" /\ chan[s][k].id = chan[s][n + 1].id => k = n + 1
        BY <3>1, <4>1 DEF AskInv, QuestionOnce
      <4>3. m.id # chan[s][n + 1].id
        BY <1>2, <1>5, <4>1, <4>2
      <4>4. ASSUME NEW k \in 1 .. Len(chan'[s]), chan'[s][k].kind = "sampling",
                   chan'[s][k].id = chan'[s][n].id
            PROVE  k = n
        <5>1. k + 1 = n + 1
          BY <1>2, <4>1, <4>2, <4>4
        <5> QED
          BY <5>1
      <4> QED
        BY <1>5, <3>1, <4>1, <4>2, <4>3, <4>4
    <3>2. CASE r # s
      BY <1>1, <1>5, <3>2 DEF AskInv, QuestionOnce
    <3> QED
      BY <3>1, <3>2
  <2>2. Queued(s, m.id)
    BY <1>2, <1>5 DEF Queued
  <2>3. \A r \in Session : \A i : Queued(r, i)' => Queued(r, i)
    <3>1. \A i : Queued(s, i)' => Queued(s, i)
      BY <1>2 DEF Queued
    <3>2. \A r \in Session \ {s} : \A i : Queued(r, i)' => Queued(r, i)
      BY <1>1 DEF Queued
    <3> QED
      BY <3>1, <3>2
  <2>4. NotYetAsked'
    BY <1>1, <1>5, <2>2, <2>3 DEF AskInv, NotYetAsked
  <2> QED
    BY <2>1, <2>4 DEF AskInv
<1> QED
  BY <1>3, <1>4, <1>5

LEMMA AskSend ==
  ASSUME TypeOK, TypeOK', IInv, AskInv, NEW c \in Call, SendRequest(c)
  PROVE  AskInv'
<1>1. /\ pc[c] = "registered" /\ UNCHANGED <<reqId, seen, target>>
      /\ \/ pc' = [pc EXCEPT ![c] = "waiting"] \/ pc' = [pc EXCEPT ![c] = "undelivered"]
  BY DEF SendRequest, Goto
<1>2. \A d \in Call : pc'[d] \in {"minted", "registered"}
        => d # c /\ pc[d] \in {"minted", "registered"} /\ reqId'[d] = reqId[d]
  BY <1>1 DEF TypeOK
<1> DEFINE s == target[c]
           i == reqId[c]
<1>3. CASE chan' = chan
  <2>1. \A r \in Session : Shifted(r, "sampling")
    <3>1. \A r \in Session : chan[r] \in Seq(Message)
      BY DEF TypeOK
    <3> QED
      BY <1>3, <3>1 DEF Shifted
  <2> QED
    BY <1>1, <1>2, <2>1, AskKept
<1>4. CASE s \in Session /\ Enqueue(s, SamplingRequest(i))
  <2>1. /\ chan[s] \in Seq(Message) /\ chan'[s] = Append(chan[s], SamplingRequest(i))
        /\ \A r \in Session \ {s} : chan'[r] = chan[r]
    BY <1>4 DEF TypeOK, Enqueue
  <2>2. /\ Len(chan[s]) \in Nat /\ Len(chan'[s]) = Len(chan[s]) + 1
        /\ chan'[s][Len(chan[s]) + 1] = SamplingRequest(i)
        /\ \A n \in 1 .. Len(chan[s]) : chan'[s][n] = chan[s][n]
    BY <2>1, MessageKinds DEF TypeOK
  <2>3. SamplingRequest(i).kind = "sampling" /\ SamplingRequest(i).id = i
    BY DEF SamplingRequest
  <2>4. \A n \in 1 .. Len(chan[s]) : chan[s][n].kind = "sampling" => chan[s][n].id # i
    BY <1>1, <1>4 DEF AskInv, NotYetAsked, Queued
  <2>5. [sess |-> s, id |-> i] \notin seen
    BY <1>1 DEF AskInv, NotYetAsked
  <2>6. QuestionOnce'
    <3> SUFFICES ASSUME NEW r \in Session, NEW n \in 1 .. Len(chan'[r]),
                        chan'[r][n].kind = "sampling"
                 PROVE  /\ [sess |-> r, id |-> chan'[r][n].id] \notin seen'
                        /\ \A k \in 1 .. Len(chan'[r]) :
                             chan'[r][k].kind = "sampling" /\ chan'[r][k].id = chan'[r][n].id
                               => k = n
      BY DEF QuestionOnce
    <3>1. CASE r # s
      BY <1>1, <2>1, <3>1 DEF AskInv, QuestionOnce
    <3>2. CASE r = s /\ n \in 1 .. Len(chan[s])
      <4>1. /\ [sess |-> s, id |-> chan[s][n].id] \notin seen
            /\ \A k \in 1 .. Len(chan[s]) :
                 chan[s][k].kind = "sampling" /\ chan[s][k].id = chan[s][n].id => k = n
        BY <2>2, <3>2 DEF AskInv, QuestionOnce
      <4>2. ASSUME NEW k \in 1 .. Len(chan'[s]), chan'[s][k].kind = "sampling",
                   chan'[s][k].id = chan'[s][n].id
            PROVE  k = n
        <5>1. chan[s][n].kind = "sampling" /\ chan[s][n].id = chan'[s][k].id
          BY <2>2, <3>2, <4>2
        <5>2. chan'[s][k].id # i
          BY <2>4, <3>2, <5>1
        <5>3. k # Len(chan[s]) + 1
          BY <2>2, <2>3, <5>2
        <5>4. k \in 1 .. Len(chan[s])
          BY <2>2, <5>3
        <5> QED
          BY <2>2, <4>1, <4>2, <5>1, <5>4
      <4> QED
        BY <1>1, <2>2, <3>2, <4>1, <4>2
    <3>3. CASE r = s /\ n = Len(chan[s]) + 1
      <4>1. chan'[s][n].id = i
        BY <2>2, <2>3, <3>3
      <4>2. \A k \in 1 .. Len(chan'[s]) :
              chan'[s][k].kind = "sampling" /\ chan'[s][k].id = i => k = Len(chan[s]) + 1
        BY <2>2, <2>4
      <4> QED
        BY <1>1, <2>5, <3>3, <4>1, <4>2
    <3> QED
      BY <2>2, <3>1, <3>2, <3>3
  <2>7. \A r \in Session : \A j : Queued(r, j)' => Queued(r, j) \/ j = i
    <3> SUFFICES ASSUME NEW r \in Session, NEW j, NEW n \in 1 .. Len(chan'[r]),
                        chan'[r][n].kind = "sampling", chan'[r][n].id = j, j # i
                 PROVE  \E k \in 1 .. Len(chan[r]) :
                          chan[r][k].kind = "sampling" /\ chan[r][k].id = j
      BY DEF Queued
    <3>1. CASE r = s
      <4>1. n \in 1 .. Len(chan[s])
        BY <2>2, <2>3, <3>1
      <4> QED
        BY <2>2, <3>1, <4>1
    <3>2. CASE r # s
      BY <2>1, <3>2
    <3> QED
      BY <3>1, <3>2
  <2>8. \A d \in Call : pc'[d] \in {"minted", "registered"} => reqId[d] # i
    BY <1>1, <1>2 DEF IInv, IdsFresh, Minted
  <2>9. NotYetAsked'
    BY <1>1, <1>2, <2>7, <2>8 DEF AskInv, NotYetAsked
  <2> QED
    BY <2>6, <2>9 DEF AskInv
<1>5. chan' = chan \/ (s \in Session /\ Enqueue(s, SamplingRequest(i)))
  <2>1. chan' = chan \/ Enqueue(s, SamplingRequest(i))
    BY DEF SendRequest
  <2>2. s \notin Session /\ Enqueue(s, SamplingRequest(i)) => chan' = chan
    BY DEF Enqueue, TypeOK
  <2> QED
    BY <2>1, <2>2
<1> QED
  BY <1>3, <1>4, <1>5

(* The id a call mints has been used for no question.                      *)
LEMMA AskMint ==
  ASSUME TypeOK, TypeOK', IInv, AskInv, NEW c \in Call, MintId(c)
  PROVE  AskInv'
<1>1. /\ UNCHANGED <<chan, seen>> /\ reqId' = [reqId EXCEPT ![c] = nextId]
      /\ pc' = [pc EXCEPT ![c] = "minted"]
  BY DEF MintId, Goto, sessionVars
<1>2. \A s \in Session : ~ Queued(s, nextId)
  BY DEF Queued, IInv, QueuedAsked, Asks, IdsFresh, TypeOK
<1>3. \A q \in seen : q.id # nextId
  BY DEF IInv, SeenAsked, Asks, IdsFresh, TypeOK
<1>4. QuestionOnce'
  BY <1>1 DEF AskInv, QuestionOnce
<1>5. \A s \in Session : \A i : Queued(s, i)' <=> Queued(s, i)
  BY <1>1 DEF Queued
<1>6. NotYetAsked'
  BY <1>1, <1>2, <1>3, <1>5 DEF AskInv, NotYetAsked, TypeOK
<1> QED
  BY <1>4, <1>6 DEF AskInv

LEMMA AskNext == TypeOK /\ TypeOK' /\ IInv /\ AskInv /\ [Next]_vars => AskInv'
<1> SUFFICES ASSUME TypeOK, TypeOK', IInv, AskInv, [Next]_vars PROVE AskInv'
  OBVIOUS
<1>0. /\ pc \in [Call -> Pc]
      /\ \A r \in Session : chan[r] \in Seq(Message)
  BY DEF TypeOK
<1>1. ASSUME chan' = chan PROVE \A r \in Session : Shifted(r, "sampling")
  BY <1>0, <1>1 DEF Shifted
<1>2. ASSUME NEW s \in Session, SessionStep(s) PROVE AskInv'
  BY <1>2, StreamShifts, AskKept DEF SessionStep, samplingVars, callVars
<1>3. ASSUME NEW s \in Session, OtherTraffic(s) PROVE AskInv'
  <2>1. Enqueue(s, Notification(0)) /\ UNCHANGED <<pc, reqId, seen>>
    BY <1>3 DEF OtherTraffic, samplingVars, callVars
  <2>2. Notification(0) \in Message /\ Notification(0).kind # "sampling"
    BY MessageKinds DEF Notification
  <2>3. \A r \in Session : Shifted(r, "sampling")
    BY <2>1, <2>2, EnqueueShifts
  <2> QED
    BY <2>1, <2>3, AskKept
<1>4. ASSUME NEW c \in Call, Respond(c) PROVE AskInv'
  <2>1. /\ UNCHANGED <<reqId, seen>> /\ pc' = [pc EXCEPT ![c] = "done"]
        /\ Enqueue(origin[c], Response(c)) \/ chan' = chan
    BY <1>4 DEF Respond, Goto
  <2>2. Response(c) \in Message /\ Response(c).kind # "sampling"
    BY MessageKinds DEF Response
  <2>3. \A r \in Session : Shifted(r, "sampling")
    BY <1>1, <2>1, <2>2, EnqueueShifts
  <2> QED
    BY <1>0, <2>1, <2>3, AskKept
<1>5. ASSUME NEW c \in Call, AutoRequest(c) \/ PickSession(c) \/ RegisterWaiter(c)
                              \/ TakeAnswer(c) \/ DropWaiter(c) \/ AutoReturn(c)
                              \/ Timeout(c) \/ Cancel(c) \/ DeviceReturn(c)
      PROVE  AskInv'
  <2>1. UNCHANGED <<chan, seen, reqId>>
    BY <1>5 DEF AutoRequest, PickSession, RegisterWaiter, TakeAnswer, DropWaiter, AutoReturn,
                DeviceReturn, Timeout, Cancel, sessionVars
  <2>2. \A d \in Call : pc'[d] \in {"minted", "registered"} => pc[d] \in {"minted", "registered"}
    BY <1>0, <1>5 DEF AutoRequest, PickSession, RegisterWaiter, TakeAnswer, DropWaiter, AutoReturn,
                      DeviceReturn, Timeout, Cancel, Return, Goto
  <2> QED
    BY <1>1, <2>1, <2>2, AskKept
<1>6. ASSUME NEW c \in Call, NEW s \in Session, ToolRequest(c, s) \/ QuickRequest(c, s)
      PROVE  AskInv'
  <2>1. UNCHANGED <<chan, seen, reqId>>
    BY <1>6 DEF ToolRequest, QuickRequest, sessionVars
  <2>2. \A d \in Call : pc'[d] \in {"minted", "registered"} => pc[d] \in {"minted", "registered"}
    BY <1>0, <1>6 DEF ToolRequest, QuickRequest, Return, Goto
  <2> QED
    BY <1>1, <2>1, <2>2, AskKept
<1>7. CASE UNCHANGED <<chan, seen, reqId, pc>>
  BY <1>1, <1>7, AskKept
<1>8. /\ \A p \in posts : DeliverReply(p) => UNCHANGED <<chan, seen, reqId, pc>>
      /\ \A q \in seen, b \in Body : PostReply(q, b) => UNCHANGED <<chan, seen, reqId, pc>>
      /\ UNCHANGED vars => UNCHANGED <<chan, seen, reqId, pc>>
  BY DEF DeliverReply, PostReply, vars, sessionVars, samplingVars, callVars
<1> QED
  BY <1>2, <1>3, <1>4, <1>5, <1>6, <1>7, <1>8, AskRead, AskSend, AskMint DEF Next, CallStep

(* At most one in each set, and not one in both: at most one altogether.   *)
LEMMA AtMostOne ==
  ASSUME NEW A, NEW B, \A x, y \in A : x = y, \A x, y \in B : x = y, A = {} \/ B = {}
  PROVE  Cardinality(A) + Cardinality(B) <= 1
<1>1. ASSUME NEW S, \A x, y \in S : x = y
      PROVE  (S = {} /\ Cardinality(S) = 0) \/ Cardinality(S) = 1
  <2>1. CASE S = {}
    BY <2>1, FS_EmptySet
  <2>2. CASE S # {}
    <3>1. PICK x : S = {x}
      BY <1>1, <2>2
    <3> QED
      BY <3>1, FS_Singleton
  <2> QED
    BY <2>1, <2>2
<1>2. Cardinality({}) = 0
  BY FS_EmptySet
<1>3. (A = {} /\ Cardinality(A) = 0) \/ Cardinality(A) = 1
  BY <1>1
<1>4. (B = {} /\ Cardinality(B) = 0) \/ Cardinality(B) = 1
  BY <1>1
<1> QED
  BY <1>2, <1>3, <1>4

LEMMA AskCounts == TypeOK /\ IInv /\ AskInv => AskedOnce
<1> SUFFICES ASSUME TypeOK, IInv, AskInv, NEW i \in 1 .. nextId
             PROVE  Cardinality(Copies(i)) + Cardinality({q \in seen : q.id = i}) <= 1
  BY DEF AskedOnce
<1> DEFINE Read == {q \in seen : q.id = i}
<1>1. ASSUME NEW p \in Copies(i)
      PROVE  /\ p = <<p[1], p[2]>> /\ p[1] \in Session /\ p[2] \in 1 .. Len(chan[p[1]])
             /\ chan[p[1]][p[2]].kind = "sampling" /\ chan[p[1]][p[2]].id = i
             /\ \E c \in Call : Asks(c, p[1], i)
  <2>1. /\ p \in Session \X (1 .. SseCapacity) /\ p[2] <= Len(chan[p[1]])
        /\ chan[p[1]][p[2]] = SamplingRequest(i)
    BY <1>1 DEF Copies
  <2>2. p = <<p[1], p[2]>> /\ p[1] \in Session /\ p[2] \in 1 .. SseCapacity
    BY <2>1
  <2>3. chan[p[1]] \in Seq(Message)
    BY <2>2 DEF TypeOK
  <2>4. p[2] \in 1 .. Len(chan[p[1]])
    BY <2>1, <2>2, <2>3
  <2>5. chan[p[1]][p[2]].kind = "sampling" /\ chan[p[1]][p[2]].id = i
    BY <2>1 DEF SamplingRequest
  <2>6. \E c \in Call : Asks(c, p[1], i)
    BY <2>2, <2>4, <2>5 DEF IInv, QueuedAsked
  <2> QED
    BY <2>2, <2>4, <2>5, <2>6
<1>2. ASSUME NEW q \in Read
      PROVE  q = [sess |-> q.sess, id |-> i] /\ \E c \in Call : Asks(c, q.sess, i)
  BY <1>2 DEF TypeOK, Question, IInv, SeenAsked
<1>3. \A c, d \in Call : \A s, r : Asks(c, s, i) /\ Asks(d, r, i) => s = r
  BY DEF IInv, IdsFresh, Asks
<1>4. \A p, r \in Copies(i) : p = r
  <2> SUFFICES ASSUME NEW p \in Copies(i), NEW r \in Copies(i) PROVE p = r
    OBVIOUS
  <2>1. p[1] = r[1]
    BY <1>1, <1>3
  <2>2. /\ p[1] \in Session
        /\ p[2] \in 1 .. Len(chan[p[1]]) /\ r[2] \in 1 .. Len(chan[p[1]])
        /\ chan[p[1]][p[2]].kind = "sampling" /\ chan[p[1]][p[2]].id = i
        /\ chan[p[1]][r[2]].kind = "sampling" /\ chan[p[1]][r[2]].id = i
    BY <1>1, <2>1
  <2>3. p[2] = r[2]
    BY <2>2 DEF AskInv, QuestionOnce
  <2> QED
    BY <1>1, <2>1, <2>3
<1>5. \A p, q \in Read : p = q
  BY <1>2, <1>3
<1>6. Copies(i) = {} \/ Read = {}
  <2> SUFFICES ASSUME NEW p \in Copies(i), NEW q \in Read PROVE FALSE
    OBVIOUS
  <2>1. p[1] = q.sess
    BY <1>1, <1>2, <1>3
  <2>2. [sess |-> p[1], id |-> i] \notin seen
    BY <1>1 DEF AskInv, QuestionOnce
  <2> QED
    BY <1>2, <2>1, <2>2
<1> QED
  BY <1>4, <1>5, <1>6, AtMostOne

(***************************************************************************)
(* No question is put twice: of each id there is at most one copy, queued  *)
(* in one stream or read by one client.                                    *)
(***************************************************************************)
THEOREM QuestionsAskedOnce == Spec => []AskedOnce
<1>1. Init => AskInv
  BY DEF Init, SessionsInit, SamplingInit, AskInv, QuestionOnce, NotYetAsked, Queued
<1> QED
  BY <1>1, TypeInit, TypeNext, InvInit, InvNext, AskNext, AskCounts, PTL DEF Spec

================================================================================
