-------------------------- MODULE McpSamplingRefines --------------------------
(***************************************************************************)
(* McpSampling implements SamplingContract, for any number of streams and  *)
(* calls.  A step of the tables and channels opens a call, lets a client   *)
(* hear one question, settles a call, or is not seen by the contract.      *)
(*                                                                         *)
(* Beside IInv this needs to know where a result comes from: a call has    *)
(* one exactly when it has returned, and a reply is returned only to a     *)
(* question some client has read.                                          *)
(***************************************************************************)
EXTENDS McpSamplingProofs

Told(c) == [sess |-> target[c], id |-> reqId[c]]

ResultsFounded ==
  /\ \A c \in Call : pc[c] \in {"returned", "done"} <=> result[c] # "none"
  /\ \A c \in Call : result[c] \in Body => Told(c) \in seen

-----------------------------------------------------------------------------
LEMMA ResultsInit == Init => ResultsFounded
BY Outcomes DEF Init, SamplingInit, ResultsFounded

LEMMA ResultsNext == TypeOK /\ IInv /\ ResultsFounded /\ [Next]_vars => ResultsFounded'
<1> SUFFICES ASSUME TypeOK, IInv, ResultsFounded, [Next]_vars PROVE ResultsFounded'
  OBVIOUS
<1> USE DEF TypeOK, ResultsFounded, Told
<1>1. ASSUME NEW s \in Session, SessionStep(s) \/ OtherTraffic(s) PROVE ResultsFounded'
  BY <1>1 DEF SessionStep, OtherTraffic, samplingVars, callVars
<1>2. ASSUME NEW s \in Session, ReadStream(s) PROVE ResultsFounded'
  BY <1>2 DEF ReadStream, callVars
<1>3. ASSUME NEW c \in Call, NEW s \in Session, ToolRequest(c, s) \/ QuickRequest(c, s)
      PROVE ResultsFounded'
  BY <1>3, Outcomes DEF ToolRequest, QuickRequest, Return, Goto
<1>4. ASSUME NEW c \in Call, AutoRequest(c) \/ RegisterWaiter(c) \/ SendRequest(c)
                              \/ Timeout(c) \/ Respond(c) \/ AutoReturn(c)
      PROVE ResultsFounded'
  BY <1>4 DEF AutoRequest, RegisterWaiter, SendRequest, Timeout, Respond, AutoReturn, Goto
<1>5. ASSUME NEW c \in Call, PickSession(c) PROVE ResultsFounded'
  <2>1. /\ pc[c] = "called" /\ UNCHANGED <<reqId, seen>>
        /\ \A d \in Call \ {c} : /\ pc'[d] = pc[d] /\ target'[d] = target[d]
                                /\ result'[d] = result[d]
        /\ \/ pc'[c] = "returned" /\ result'[c] = "noClient"
           \/ pc'[c] = "picked" /\ result'[c] = result[c]
    BY <1>5 DEF PickSession, Return, Goto
  <2> QED
    BY <2>1, Outcomes
<1>6. ASSUME NEW c \in Call, MintId(c) PROVE ResultsFounded'
  BY <1>6, Outcomes DEF MintId, Goto
<1>7. ASSUME NEW c \in Call, TakeAnswer(c) PROVE ResultsFounded'
  <2>1. answer[c].body \in Body /\ Told(c) \in seen
    BY <1>7 DEF TakeAnswer, Reply, IInv, AnswerMatches
  <2> QED
    BY <1>7, <2>1, Outcomes DEF TakeAnswer, Return, Goto
<1>8. ASSUME NEW c \in Call, DropWaiter(c) \/ Cancel(c) \/ DeviceReturn(c)
      PROVE ResultsFounded'
  BY <1>8, Outcomes DEF DropWaiter, DeviceReturn, Cancel, Return, Goto
<1>9. ASSUME NEW p \in posts, DeliverReply(p) PROVE ResultsFounded'
  BY <1>9 DEF DeliverReply
<1>10. ASSUME NEW q \in seen, NEW b \in Body, PostReply(q, b) PROVE ResultsFounded'
  BY <1>10 DEF PostReply, callVars
<1>11. CASE UNCHANGED vars
  BY <1>11 DEF vars, samplingVars, callVars
<1> QED
  BY <1>1, <1>2, <1>3, <1>4, <1>5, <1>6, <1>7, <1>8, <1>9, <1>10, <1>11 DEF Next, CallStep

-----------------------------------------------------------------------------
(* A call that has minted no id has not been heard.                        *)
LEMMA UnmintedUnheard ==
  ASSUME TypeOK, IInv, NEW c \in Call, reqId[c] = 0
  PROVE  \A s : [sess |-> s, id |-> reqId[c]] \notin seen
BY DEF TypeOK, IInv, SeenAsked, Asks, Minted

(* Steps that open no call and settle none, and of which nobody hears. *)
LEMMA Unseen ==
  ASSUME TypeOK, pc' \in [Call -> Pc], Heard' = Heard,
         \A c \in Call : \/ pc'[c] = pc[c] /\ result'[c] = result[c]
                         \/ pc[c] \notin {"idle", "done"} /\ pc'[c] \notin {"idle", "done"}
  PROVE  UNCHANGED Contract!vars
<1>1. Phase' = Phase
  BY DEF Phase, TypeOK
<1>2. Outcome' = Outcome
  BY DEF Outcome, TypeOK
<1> QED
  BY <1>1, <1>2 DEF Contract!vars

(* A call comes in: it may even have its result, as far as the code goes. *)
LEMMA Opens ==
  ASSUME TypeOK, NEW c \in Call, Heard' = Heard,
         pc[c] = "idle", NEW l \in Pc \ {"idle", "done"}, pc' = [pc EXCEPT ![c] = l],
         \A d \in Call \ {c} : result'[d] = result[d]
  PROVE  Contract!Open(c)
<1>1. Phase' = [Phase EXCEPT ![c] = "open"] /\ Phase[c] = "idle"
  BY DEF Phase, TypeOK
<1>2. Outcome' = Outcome
  BY DEF Outcome, TypeOK
<1> QED
  BY <1>1, <1>2 DEF Contract!Open

(* A call is over, with the result r. *)
LEMMA Settles ==
  ASSUME TypeOK, NEW c \in Call, Heard' = Heard,
         pc[c] \notin {"idle", "done"}, pc' = [pc EXCEPT ![c] = "done"],
         NEW r, result' = [result EXCEPT ![c] = r], r \in Body => c \in Heard
  PROVE  Contract!Settle(c, r)
<1>1. Phase' = [Phase EXCEPT ![c] = "settled"] /\ Phase[c] = "open"
  BY DEF Phase, TypeOK
<1>2. Outcome' = [Outcome EXCEPT ![c] = r]
  BY DEF Outcome, TypeOK
<1> QED
  BY <1>1, <1>2 DEF Contract!Settle

(***************************************************************************)
(* A client reads a message.  If it is a question, the one call that       *)
(* minted its id is heard; otherwise nobody is.                            *)
(***************************************************************************)
LEMMA Hears ==
  ASSUME TypeOK, IInv, NEW s \in Session, ReadStream(s)
  PROVE  (\E c \in Call : Contract!Hear(c)) \/ UNCHANGED Contract!vars
<1>1. UNCHANGED <<pc, reqId, target, result>>
  BY DEF ReadStream, callVars
<1>2. Phase' = Phase /\ Outcome' = Outcome
  BY <1>1 DEF Phase, Outcome
<1> DEFINE m == Head(chan[s])
<1>3. m = chan[s][1] /\ 1 \in 1 .. Len(chan[s])
  BY DEF ReadStream, ClientRead, TypeOK
<1>4. CASE m.kind = "sampling"
  <2>1. PICK c \in Call : Asks(c, s, m.id)
    BY <1>3, <1>4 DEF IInv, QueuedAsked
  <2>2. seen' = seen \cup {Told(c)}
    BY <1>4, <2>1 DEF ReadStream, Asks, Told
  <2>3. \A d \in Call : Told(d) = Told(c) => d = c
    BY <2>1 DEF Told, Asks, Minted, IInv, IdsFresh
  <2>4. Heard' = Heard \cup {c}
    BY <1>1, <2>2, <2>3 DEF Heard, Told
  <2>5. Phase[c] # "idle"
    BY <2>1 DEF Phase, Asks, IInv, IdsFresh
  <2>6. CASE c \in Heard
    BY <1>2, <2>4, <2>6 DEF Contract!vars
  <2>7. CASE c \notin Heard
    BY <1>2, <2>4, <2>5, <2>7 DEF Contract!Hear
  <2> QED
    BY <2>6, <2>7
<1>5. CASE m.kind # "sampling"
  <2>1. seen' = seen
    BY <1>5 DEF ReadStream
  <2>2. Heard' = Heard
    BY <1>1, <2>1 DEF Heard
  <2> QED
    BY <1>2, <2>2 DEF Contract!vars
<1> QED
  BY <1>4, <1>5

LEMMA ImplementsInit == Init => Contract!Init
<1> SUFFICES ASSUME Init PROVE Contract!Init
  OBVIOUS
<1>1. Phase = [c \in Call |-> "idle"] /\ Outcome = [c \in Call |-> "none"] /\ Heard = {}
  BY DEF Init, SamplingInit, Phase, Outcome, Heard
<1> QED
  BY <1>1 DEF Contract!Init

(* Where the questions asked and read stay as they are, so does Heard. *)
LEMMA HeardSame ==
  ASSUME UNCHANGED <<seen, target, reqId>>
  PROVE  Heard' = Heard
BY DEF Heard

LEMMA ImplementsNext ==
  TypeOK /\ TypeOK' /\ IInv /\ ResultsFounded /\ [Next]_vars => [Contract!Next]_(Contract!vars)
<1> SUFFICES ASSUME TypeOK, TypeOK', IInv, ResultsFounded, [Next]_vars
             PROVE  Contract!Next \/ UNCHANGED Contract!vars
  OBVIOUS
<1>0. pc \in [Call -> Pc] /\ pc' \in [Call -> Pc] /\ result \in [Call -> Result]
  BY DEF TypeOK
<1>1. ASSUME NEW s \in Session, SessionStep(s) \/ OtherTraffic(s)
      PROVE  UNCHANGED Contract!vars
  BY <1>0, <1>1, HeardSame, Unseen DEF SessionStep, OtherTraffic, samplingVars, callVars
<1>2. ASSUME NEW s \in Session, ReadStream(s)
      PROVE  Contract!Next \/ UNCHANGED Contract!vars
  BY <1>2, Hears DEF Contract!Next
<1>3. ASSUME NEW c \in Call, NEW s \in Session, ToolRequest(c, s) \/ QuickRequest(c, s)
      PROVE  Contract!Next
  <2>1. Heard' = Heard /\ pc[c] = "idle"
    BY <1>3, HeardSame DEF ToolRequest, QuickRequest
  <2>2. /\ \E l \in {"called", "device", "returned"} : pc' = [pc EXCEPT ![c] = l]
        /\ \A d \in Call \ {c} : result'[d] = result[d]
    BY <1>0, <1>3 DEF ToolRequest, QuickRequest, Return, Goto
  <2>3. {"called", "device", "returned"} \subseteq Pc \ {"idle", "done"}
    BY DEF Pc
  <2> QED
    BY <2>1, <2>2, <2>3, Opens DEF Contract!Next
<1>4. ASSUME NEW c \in Call, AutoRequest(c) PROVE Contract!Next
  <2>1. Heard' = Heard /\ pc[c] = "idle" /\ pc' = [pc EXCEPT ![c] = "called"] /\ result' = result
    BY <1>4, HeardSame DEF AutoRequest, Goto
  <2>2. "called" \in Pc \ {"idle", "done"}
    BY DEF Pc
  <2> QED
    BY <2>1, <2>2, Opens DEF Contract!Next
<1>5. ASSUME NEW c \in Call, PickSession(c) PROVE UNCHANGED Contract!vars
  <2>1. reqId[c] = 0 /\ UNCHANGED <<reqId, seen>> /\ \A d \in Call \ {c} : target'[d] = target[d]
    BY <1>5 DEF PickSession, IInv, IdsFresh, Minted, TypeOK
  <2>2. Heard' = Heard
    BY <2>1, UnmintedUnheard DEF Heard
  <2>3. /\ pc[c] = "called" /\ pc'[c] \in {"picked", "returned"}
        /\ \A d \in Call \ {c} : pc'[d] = pc[d] /\ result'[d] = result[d]
    BY <1>0, <1>5 DEF PickSession, Return, Goto
  <2> QED
    BY <1>0, <2>2, <2>3, Unseen
<1>6. ASSUME NEW c \in Call, MintId(c) PROVE UNCHANGED Contract!vars
  <2>1. /\ reqId[c] = 0 /\ reqId' = [reqId EXCEPT ![c] = nextId]
        /\ UNCHANGED <<seen, target, result>>
    BY <1>6 DEF MintId, IInv, IdsFresh, Minted, TypeOK
  <2>2. \A s : [sess |-> s, id |-> nextId] \notin seen
    BY DEF IInv, SeenAsked, Asks, IdsFresh, TypeOK
  <2>3. Heard' = Heard
    BY <2>1, <2>2, UnmintedUnheard DEF Heard, TypeOK
  <2>4. pc[c] = "picked" /\ pc' = [pc EXCEPT ![c] = "minted"]
    BY <1>6 DEF MintId, Goto
  <2> QED
    BY <1>0, <2>1, <2>3, <2>4, Unseen
<1>7. ASSUME NEW c \in Call, RegisterWaiter(c) \/ SendRequest(c) \/ Timeout(c)
      PROVE  UNCHANGED Contract!vars
  <2>1. Heard' = Heard
    BY <1>7, HeardSame DEF RegisterWaiter, SendRequest, Timeout
  <2>2. /\ pc[c] \notin {"idle", "done"} /\ result' = result
        /\ \E l \in {"registered", "waiting", "undelivered", "expired"} : pc' = [pc EXCEPT ![c] = l]
    BY <1>7 DEF RegisterWaiter, SendRequest, Timeout, Goto
  <2> QED
    BY <1>0, <2>1, <2>2, Unseen
<1>8. ASSUME NEW c \in Call, TakeAnswer(c) \/ DropWaiter(c) \/ DeviceReturn(c)
      PROVE  UNCHANGED Contract!vars
  <2>1. Heard' = Heard
    BY <1>8, HeardSame DEF TakeAnswer, DropWaiter, DeviceReturn
  <2>2. /\ pc[c] \notin {"idle", "done"} /\ pc' = [pc EXCEPT ![c] = "returned"]
        /\ \A d \in Call \ {c} : result'[d] = result[d]
    BY <1>0, <1>8 DEF TakeAnswer, DropWaiter, DeviceReturn, Return, Goto
  <2> QED
    BY <1>0, <2>1, <2>2, Unseen
<1>9. ASSUME NEW c \in Call, Respond(c) \/ AutoReturn(c) PROVE Contract!Next
  <2>1. /\ Heard' = Heard /\ pc[c] = "returned" /\ pc' = [pc EXCEPT ![c] = "done"]
        /\ result' = [result EXCEPT ![c] = result[c]]
    BY <1>0, <1>9, HeardSame DEF Respond, AutoReturn, Goto
  <2>2. result[c] \in Body \cup Failure /\ (result[c] \in Body => c \in Heard)
    BY <1>0, <2>1 DEF ResultsFounded, Told, Heard, Result
  <2> QED
    BY <2>1, <2>2, Settles DEF Contract!Next
<1>10. ASSUME NEW c \in Call, Cancel(c) PROVE Contract!Next
  <2>1. /\ Heard' = Heard /\ pc[c] \notin {"idle", "done"} /\ pc' = [pc EXCEPT ![c] = "done"]
        /\ result' = [result EXCEPT ![c] = "cancelled"]
    BY <1>10, HeardSame DEF Cancel, Goto
  <2>2. "cancelled" \in Failure /\ "cancelled" \notin Body
    BY Outcomes
  <2> QED
    BY <2>1, <2>2, Settles DEF Contract!Next
<1>11. ASSUME NEW p \in posts, DeliverReply(p) PROVE UNCHANGED Contract!vars
  BY <1>0, <1>11, HeardSame, Unseen DEF DeliverReply
<1>12. ASSUME NEW q \in seen, NEW b \in Body, PostReply(q, b) PROVE UNCHANGED Contract!vars
  BY <1>0, <1>12, HeardSame, Unseen DEF PostReply, callVars
<1>13. CASE UNCHANGED vars
  BY <1>0, <1>13, HeardSame, Unseen DEF vars, samplingVars, callVars
<1> QED
  BY <1>1, <1>2, <1>3, <1>4, <1>5, <1>6, <1>7, <1>8, <1>9, <1>10, <1>11, <1>12, <1>13
     DEF Next, CallStep

(***************************************************************************)
(* Seen from its callers, the server's tables, channels and timers are a   *)
(* question that is settled once, with a reply only if it was heard.       *)
(***************************************************************************)
THEOREM Implements == Spec => ContractSpec
<1>1. Spec => [](TypeOK /\ IInv /\ ResultsFounded)
  BY TypeInit, TypeNext, InvInit, InvNext, ResultsInit, ResultsNext, PTL DEF Spec
<1> QED
  BY <1>1, ImplementsInit, ImplementsNext, PTL DEF Spec, ContractSpec, Contract!Spec

=============================================================================
