------------------------------ MODULE RelayProofs ------------------------------
(***************************************************************************)
(* What holds of Relay for any number of backends and of bytes.  The       *)
(* argument is that the end of a direction comes last in it: once a side   *)
(* has ended it writes no more, and its end is passed on when nothing is   *)
(* left to pass, so that what has come out stays equal to what went in.    *)
(***************************************************************************)
EXTENDS Relay, TLAPS

USE RelayAssumption

Inv == TypeOK /\ NothingLost

LEMMA InvInit == Init => Inv
BY DEF Init, Inv, TypeOK, NothingLost

-----------------------------------------------------------------------------
LEMMA DialKeeps == Inv /\ Dial => Inv'
<1> SUFFICES ASSUME Inv, Dial PROVE Inv'
  OBVIOUS
<1>1. PICK outcome \in {"linked", "dropped"} : link' = [link EXCEPT ![dialing] = outcome]
  BY DEF Dial
<1>2. dialing \in Backend
  BY DEF Dial, Inv, TypeOK
<1>3. TypeOK'
  BY <1>1, <1>2 DEF Inv, TypeOK, Dial, pipeVars
<1>4. \A b \in Backend : link'[b] = "closed" => link[b] = "closed"
  BY <1>1, <1>2 DEF Inv, TypeOK
<1>5. NothingLost'
  BY <1>4 DEF Inv, NothingLost, Dial, pipeVars
<1> QED
  BY <1>3, <1>5 DEF Inv

(* Only the state of b's link changes, and it closes when both ends are out. *)
LEMMA LinkKeeps ==
  ASSUME Inv, NEW b \in Backend, Connect(b) \/ Accept(b) \/ Close(b) \/ Break(b)
  PROVE  Inv'
<1>1. TypeOK'
  <2>1. CASE Connect(b)
    BY <2>1 DEF Inv, TypeOK, Connect, pipeVars
  <2>2. CASE Accept(b)
    BY <2>2 DEF Inv, TypeOK, Accept, pipeVars
  <2>3. CASE Close(b)
    BY <2>3 DEF Inv, TypeOK, Close, pipeVars
  <2>4. CASE Break(b)
    BY <2>4 DEF Inv, TypeOK, Break, pipeVars
  <2> QED
    BY <2>1, <2>2, <2>3, <2>4
<1>2. UNCHANGED pipeVars
  BY DEF Connect, Accept, Close, Break
<1>3. \A a \in Backend : link'[a] = "closed" => link[a] = "closed" \/ shut[a] = Direction
  BY DEF Inv, TypeOK, Connect, Accept, Close, Break
<1>4. NothingLost'
  BY <1>2, <1>3 DEF Inv, NothingLost, pipeVars
<1> QED
  BY <1>1, <1>4 DEF Inv

(* A side writes only before its end, and only while the link lives. *)
LEMMA BytesKeep ==
  ASSUME Inv, NEW b \in Backend, NEW d \in Direction, Write(b, d) \/ Pass(b, d) \/ Take(b, d)
  PROVE  Inv'
<1>1. link[b] = "linked" /\ UNCHANGED <<dialing, link, ended, shut>>
  BY DEF Write, Pass, Take
<1>2. sent[b][d] \in 0 .. MaxBytes /\ passed[b][d] \in 0 .. MaxBytes
      /\ taken[b][d] \in 0 .. MaxBytes
  BY DEF Inv, TypeOK
<1>3. /\ taken[b][d] <= passed[b][d] /\ passed[b][d] <= sent[b][d]
      /\ d \in shut[b] => d \in ended[b] /\ passed[b][d] = sent[b][d]
  BY DEF Inv, NothingLost
<1>4. d \in shut[b] => Take(b, d)
  BY <1>2, <1>3 DEF Write, Pass
<1>4a. Write(b, d) => sent[b][d] < MaxBytes
  <2> SUFFICES ASSUME Write(b, d) PROVE sent[b][d] < MaxBytes
    OBVIOUS
  <2>1. sent[b]["up"] \in Nat /\ sent[b]["down"] \in Nat /\ d \in {"up", "down"}
    BY DEF Inv, TypeOK, Direction
  <2>2. sent[b]["up"] + sent[b]["down"] < MaxBytes
    BY DEF Write
  <2> QED
    BY <2>1, <2>2
<1>5. /\ sent'[b][d] \in 0 .. MaxBytes /\ passed'[b][d] \in 0 .. MaxBytes
      /\ taken'[b][d] \in 0 .. MaxBytes
      /\ taken'[b][d] <= passed'[b][d] /\ passed'[b][d] <= sent'[b][d]
  BY <1>2, <1>3, <1>4a DEF Inv, TypeOK, Write, Pass, Take
<1>6. \A a \in Backend, e \in Direction :
        a # b \/ e # d => /\ sent'[a][e] = sent[a][e]
                          /\ passed'[a][e] = passed[a][e]
                          /\ taken'[a][e] = taken[a][e]
  BY DEF Inv, TypeOK, Write, Pass, Take
<1>4b. Take(b, d) => sent' = sent /\ passed' = passed
  BY DEF Take
<1>7. sent' \in [Backend -> [Direction -> 0 .. MaxBytes]]
  <2>1. CASE Write(b, d)
    <3>1. sent[b][d] + 1 \in 0 .. MaxBytes
      BY <1>2, <1>4a, <2>1
    <3>2. [sent[b] EXCEPT ![d] = sent[b][d] + 1] \in [Direction -> 0 .. MaxBytes]
      BY <3>1 DEF Inv, TypeOK
    <3>3. sent' = [sent EXCEPT ![b] = [sent[b] EXCEPT ![d] = sent[b][d] + 1]]
      BY <2>1 DEF Write
    <3> QED
      BY <3>2, <3>3 DEF Inv, TypeOK
  <2>2. CASE Pass(b, d) \/ Take(b, d)
    BY <2>2 DEF Inv, TypeOK, Pass, Take
  <2> QED
    BY <2>1, <2>2
<1>8. passed' \in [Backend -> [Direction -> 0 .. MaxBytes]]
  <2>1. CASE Pass(b, d)
    <3>1. passed[b][d] + 1 \in 0 .. MaxBytes
      BY <1>2, <1>3, <2>1 DEF Pass
    <3>2. [passed[b] EXCEPT ![d] = passed[b][d] + 1] \in [Direction -> 0 .. MaxBytes]
      BY <3>1 DEF Inv, TypeOK
    <3>3. passed' = [passed EXCEPT ![b] = [passed[b] EXCEPT ![d] = passed[b][d] + 1]]
      BY <2>1 DEF Pass
    <3> QED
      BY <3>2, <3>3 DEF Inv, TypeOK
  <2>2. CASE Write(b, d) \/ Take(b, d)
    BY <2>2 DEF Inv, TypeOK, Write, Take
  <2> QED
    BY <2>1, <2>2
<1>8a. taken' \in [Backend -> [Direction -> 0 .. MaxBytes]]
  <2>1. CASE Take(b, d)
    <3>1. taken[b][d] + 1 \in 0 .. MaxBytes
      BY <1>2, <1>3, <2>1 DEF Take
    <3>2. [taken[b] EXCEPT ![d] = taken[b][d] + 1] \in [Direction -> 0 .. MaxBytes]
      BY <3>1 DEF Inv, TypeOK
    <3>3. taken' = [taken EXCEPT ![b] = [taken[b] EXCEPT ![d] = taken[b][d] + 1]]
      BY <2>1 DEF Take
    <3> QED
      BY <3>2, <3>3 DEF Inv, TypeOK
  <2>2. CASE Write(b, d) \/ Pass(b, d)
    BY <2>2 DEF Inv, TypeOK, Write, Pass
  <2> QED
    BY <2>1, <2>2
<1>9. TypeOK'
  BY <1>1, <1>7, <1>8, <1>8a DEF Inv, TypeOK
<1>10. NothingLost'
  <2> SUFFICES ASSUME NEW a \in Backend
      PROVE  /\ \A e \in Direction : taken'[a][e] <= passed'[a][e] /\ passed'[a][e] <= sent'[a][e]
             /\ \A e \in shut[a] : e \in ended[a] /\ passed'[a][e] = sent'[a][e]
             /\ link[a] = "closed" => \A e \in Direction : passed'[a][e] = sent'[a][e]
    BY <1>1 DEF NothingLost
  <2>1. shut[a] \subseteq Direction
    BY DEF Inv, TypeOK
  <2> QED
    BY <1>1, <1>4, <1>5, <1>6, <1>4b, <2>1 DEF Inv, NothingLost
<1> QED
  BY <1>9, <1>10 DEF Inv

LEMMA EndsKeep ==
  ASSUME Inv, NEW b \in Backend, NEW d \in Direction, End(b, d) \/ PassEnd(b, d)
  PROVE  Inv'
<1>1. UNCHANGED <<dialing, link, sent, passed, taken>>
  BY DEF End, PassEnd
<1>2. TypeOK'
  <2>1. ended' \in [Backend -> SUBSET Direction]
    <3>1. ended[b] \cup {d} \in SUBSET Direction
      BY DEF Inv, TypeOK
    <3>2. CASE End(b, d)
      BY <3>1, <3>2 DEF Inv, TypeOK, End
    <3>3. CASE PassEnd(b, d)
      BY <3>3 DEF Inv, TypeOK, PassEnd
    <3> QED
      BY <3>2, <3>3
  <2>2. shut' \in [Backend -> SUBSET Direction]
    BY DEF Inv, TypeOK, End, PassEnd
  <2> QED
    BY <1>1, <2>1, <2>2 DEF Inv, TypeOK
<1>3. \A a \in Backend : ended[a] \subseteq ended'[a]
  <2>1. CASE End(b, d)
    <3>1. \A a \in Backend : ended'[a] = IF a = b THEN ended[b] \cup {d} ELSE ended[a]
      BY <2>1 DEF Inv, TypeOK, End
    <3> QED
      BY <3>1
  <2>2. CASE PassEnd(b, d)
    BY <2>2 DEF PassEnd
  <2> QED
    BY <2>1, <2>2
<1>3a. \A a \in Backend : \A e \in shut'[a] :
        e \in shut[a] \/ (a = b /\ e = d /\ d \in ended[b] /\ passed[b][d] = sent[b][d])
  <2>1. CASE End(b, d)
    BY <2>1 DEF End
  <2>2. CASE PassEnd(b, d)
    <3>1. \A a \in Backend : shut'[a] = IF a = b THEN shut[b] \cup {d} ELSE shut[a]
      BY <2>2 DEF Inv, TypeOK, PassEnd
    <3>2. d \in ended[b] /\ passed[b][d] = sent[b][d]
      BY <2>2 DEF PassEnd
    <3> QED
      BY <3>1, <3>2
  <2> QED
    BY <2>1, <2>2
<1>4. NothingLost'
  BY <1>1, <1>3, <1>3a DEF Inv, NothingLost
<1> QED
  BY <1>2, <1>4 DEF Inv

LEMMA InvNext == Inv /\ [Next]_vars => Inv'
<1> SUFFICES ASSUME Inv, [Next]_vars PROVE Inv'
  OBVIOUS
<1>1. CASE Dial
  BY <1>1, DialKeeps
<1>2. CASE \E b \in Backend : Connect(b) \/ Accept(b) \/ Close(b) \/ Break(b)
  BY <1>2, LinkKeeps
<1>3. CASE \E b \in Backend, d \in Direction :
             Write(b, d) \/ End(b, d) \/ Pass(b, d) \/ Take(b, d) \/ PassEnd(b, d)
  BY <1>3, BytesKeep, EndsKeep
<1>4. CASE UNCHANGED vars
  BY <1>4 DEF vars, pipeVars, Inv, TypeOK, NothingLost
<1> QED
  BY <1>1, <1>2, <1>3, <1>4 DEF Next

-----------------------------------------------------------------------------
(***************************************************************************)
(* The relay keeps its counts within their bounds and every link in a      *)
(* known state, also one that is dropped or breaks (handle_link).          *)
(***************************************************************************)
THEOREM TypeCorrect == Spec => []TypeOK
<1>1. Inv => TypeOK
  BY DEF Inv
<1> QED
  BY <1>1, InvInit, InvNext, PTL DEF Spec

(***************************************************************************)
(* No byte is lost before an orderly end: a side that sees the end of a    *)
(* direction has every byte of it, also when the other direction goes on,  *)
(* and a link that closes in order has lost none (copy_bidirectional).     *)
(***************************************************************************)
THEOREM NoneLost == Spec => []NothingLost
<1>1. Inv => NothingLost
  BY DEF Inv
<1> QED
  BY <1>1, InvInit, InvNext, PTL DEF Spec

=============================================================================
