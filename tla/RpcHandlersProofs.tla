--------------------------- MODULE RpcHandlersProofs ---------------------------
(***************************************************************************)
(* What holds of RpcHandlers for any number of streams, any length a       *)
(* device asks for, any chunk and any window.                              *)
(*                                                                         *)
(* IInv says, handler by handler, how much of the answer has been written  *)
(* at each of its awaits (Progress, Reported), that the streams in the     *)
(* queue are distinct and have no handler yet (Queue), and counts the rate *)
(* subscriptions against the sessions lost (Subscriptions).                *)
(***************************************************************************)
EXTENDS RpcHandlers, TLAPS, SequenceTheorems, FiniteSetTheorems

USE HandlerAssumption

Item == {"reply", "rate", "end", "header", "part", "endpart"} \cup Nat

(* The chunks of n bytes, and the bytes that j of them leave. *)
Size(n)    == (n + ChunkLen - 1) \div ChunkLen
Left(n, j) == IF j * ChunkLen <= n THEN n - j * ChunkLen ELSE 0

AnswerOf(s) == Answer(kind[s], length[s])

(* Every stream has the beginning of its answer. *)
Begun(s) ==
  /\ Len(wrote[s]) <= Len(AnswerOf(s))
  /\ \A i \in 1 .. Len(wrote[s]) : wrote[s][i] = AnswerOf(s)[i]

(* How much of it, at each await of its handler. *)
Progress(s) ==
  LET w == Len(wrote[s])
      n == length[s]
  IN  /\ pc[s] = "new" => kind[s] = "unrouted" /\ n = 0
      /\ pc[s] \in {"new", "queued"} => w = 0
      /\ pc[s] \in {"begin", "respond"} => kind[s] \in Request /\ w = 0
      /\ pc[s] = "rate" => kind[s] = "rate" /\ w = 0
      /\ pc[s] = "parked" => kind[s] = "rate"
      /\ pc[s] = "chunk" => kind[s] = "bytes" /\ w <= Size(n) /\ remaining[s] = Left(n, w)
      /\ pc[s] = "finish" => kind[s] = "bytes" /\ w = Size(n)
      /\ pc[s] = "header" => kind[s] = "download" /\ w = 0 /\ remaining[s] = n
      /\ pc[s] = "part" => kind[s] = "download" /\ w = 1 /\ remaining[s] = n
      /\ pc[s] = "body" => /\ kind[s] = "download" /\ 2 <= w /\ w <= Size(n) + 2
                           /\ remaining[s] = Left(n, w - 2)
      /\ pc[s] = "endpart" => kind[s] = "download" /\ w = Size(n) + 2
      /\ pc[s] = "close" => kind[s] = "download" /\ w = Size(n) + 3

(* What it has published by then. *)
Reported(s) ==
  IF kind[s] = "chat" /\ pc[s] \in {"respond", "done"} THEN reports[s] = <<"chat">>
  ELSE \/ reports[s] = <<>>
       \/ /\ pc[s] = "done" /\ Len(reports[s]) = 1
          /\ Len(wrote[s]) = Len(AnswerOf(s))

Queue ==
  /\ \A i \in 1 .. Len(inbox) : pc[inbox[i]] = "queued"
  /\ \A i, j \in 1 .. Len(inbox) : i # j => inbox[i] # inbox[j]

(* A subscription ends with its session only. *)
Rates == {s \in Stream : kind[s] = "rate"}

Subscriptions ==
  /\ IsFiniteSet(Rates)
  /\ \A r, s \in Rates : r \in open /\ s \in open => r = s
  /\ Cardinality(Rates) <= losses + (IF Rates \cap open = {} THEN 0 ELSE 1)

Local(s) == Begun(s) /\ Progress(s) /\ Reported(s)
Handlers == \A s \in Stream : Local(s)

Typed ==
  /\ TypeOK
  /\ wrote \in [Stream -> Seq(Item)]
  /\ reports \in [Stream -> Seq({"chat", "echo"} \cup Nat)]

IInv == Typed /\ Handlers /\ Queue /\ Subscriptions

-----------------------------------------------------------------------------
(***************************************************************************)
(* The arithmetic of a body: what j chunks of n bytes leave.               *)
(***************************************************************************)

(* The chunks cover the bytes, with less than a chunk to spare. *)
LEMMA SizeBounds ==
  ASSUME NEW n \in Nat
  PROVE  /\ Size(n) \in Nat
         /\ n <= Size(n) * ChunkLen
         /\ Size(n) * ChunkLen < n + ChunkLen
<1> DEFINE c == ChunkLen
           q == (n + c - 1) \div c
<1>1. c \in Nat /\ c > 0
  BY DEF HandlerAssumption
<1> HIDE DEF c
<1>2. n + c - 1 \in Nat
  BY <1>1
<1>3. q \in Nat /\ q * c <= n + c - 1 /\ n + c - 1 < q * c + c
  BY <1>1, <1>2
<1> HIDE DEF q
<1>4. q * c \in Nat
  BY <1>1, <1>3
<1>5. n <= q * c /\ q * c < n + c
  BY <1>1, <1>3, <1>4
<1> USE DEF c, q
<1> QED BY <1>3, <1>5 DEF Size

(* As long as bytes are left there is a chunk to come: all of them, or ChunkLen. *)
LEMMA NextChunk ==
  ASSUME NEW n \in Nat, NEW j \in Nat, Left(n, j) > 0
  PROVE  LET l == Left(n, j)
             k == IF l < ChunkLen THEN l ELSE ChunkLen
         IN  /\ j < Size(n)
             /\ Chunks(n)[j + 1] = k
             /\ l \in Nat /\ l - k \in 0 .. n
             /\ Left(n, j + 1) = l - k
<1> DEFINE c == ChunkLen
           m == Size(n)
           l == n - j * c
<1>1. c \in Nat /\ c > 0
  BY DEF HandlerAssumption
<1>2. m \in Nat /\ n <= m * c
  BY SizeBounds
<1>3. j * c <= n /\ Left(n, j) = l /\ l > 0
  BY DEF Left
<1>c. Chunks(n) = [k \in 1 .. m |-> IF k * c <= n THEN c ELSE n % c]
  BY DEF Chunks, Size
<1>l. Left(n, j + 1) = IF (j + 1) * c <= n THEN n - (j + 1) * c ELSE 0
  BY DEF Left
<1> HIDE DEF c, m
<1>4. j * c \in Nat /\ (j + 1) * c = j * c + c
  BY <1>1
<1>5. j < m
  <2> SUFFICES ASSUME m <= j PROVE FALSE
    BY <1>2
  <2>1. m * c <= j * c
    BY <1>1, <1>2
  <2>2. m * c \in Nat
    BY <1>1, <1>2
  <2> QED BY <1>2, <1>3, <1>4, <2>1, <2>2
<1>6. CASE (j + 1) * c <= n
  <2>1. Chunks(n)[j + 1] = c
    BY <1>c, <1>2, <1>5, <1>6
  <2>2. ~(l < c) /\ l \in Nat /\ l - c \in 0 .. n
    BY <1>1, <1>4, <1>6, <1>3
  <2>3. Left(n, j + 1) = l - c
    BY <1>1, <1>4, <1>6, <1>l
  <2> QED BY <1>3, <1>5, <2>1, <2>2, <2>3 DEF c, m
<1>7. CASE ~((j + 1) * c <= n)
  <2>1. n < j * c + c /\ l < c /\ l \in Nat
    BY <1>1, <1>3, <1>4, <1>7
  <2>2. n \div c = j
    <3> DEFINE d == n \div c
    <3>1. d \in Nat /\ d * c <= n /\ n < d * c + c
      BY <1>1
    <3> HIDE DEF d
    <3>2. d * c \in Nat
      BY <1>1, <3>1
    <3>3. ~(d < j)
      <4> SUFFICES ASSUME d < j PROVE FALSE
        OBVIOUS
      <4>1. (d + 1) * c <= j * c /\ (d + 1) * c = d * c + c
        BY <1>1, <3>1
      <4> QED BY <4>1, <3>1, <3>2, <1>3, <1>4, <1>1
    <3>4. ~(j < d)
      <4> SUFFICES ASSUME j < d PROVE FALSE
        OBVIOUS
      <4>1. (j + 1) * c <= d * c
        BY <1>1, <3>1
      <4> QED BY <4>1, <3>1, <3>2, <1>4, <1>1, <1>7
    <3>5. d = j
      BY <3>1, <3>3, <3>4
    <3> QED BY <3>5 DEF d
  <2>3. n % c = n - (n \div c) * c
    BY <1>1
  <2>4. Chunks(n)[j + 1] = l
    BY <1>c, <1>2, <1>5, <1>7, <2>2, <2>3
  <2>5. Left(n, j + 1) = 0 /\ l - l = 0
    BY <1>l, <1>7, <2>1
  <2> QED BY <1>3, <1>5, <2>1, <2>4, <2>5 DEF c, m
<1> QED BY <1>6, <1>7

(* No bytes are left after the last chunk only. *)
LEMMA LastOne ==
  ASSUME NEW n \in Nat, NEW j \in 0 .. Size(n), Left(n, j) = 0
  PROVE  j = Size(n)
<1> DEFINE c == ChunkLen
           m == Size(n)
<1>1. c \in Nat /\ c > 0
  BY DEF HandlerAssumption
<1>2. m \in Nat /\ m * c < n + c /\ j \in Nat /\ j <= m
  BY SizeBounds
<1>3. j * c <= n => n - j * c = 0
  BY DEF Left
<1> HIDE DEF c, m
<1>4. m * c \in Nat /\ j * c \in Nat
  BY <1>1, <1>2
<1>5. n <= j * c
  BY <1>3, <1>4
<1> SUFFICES ASSUME j < m PROVE FALSE
  BY <1>2 DEF m
<1>6. (j + 1) * c <= m * c /\ (j + 1) * c = j * c + c
  BY <1>1, <1>2
<1> QED BY <1>1, <1>2, <1>4, <1>5, <1>6

LEMMA LeftStart ==
  ASSUME NEW n \in Nat
  PROVE  Left(n, 0) = n /\ 0 <= Size(n)
<1>1. ChunkLen \in Nat /\ Size(n) \in Nat
  BY SizeBounds DEF HandlerAssumption
<1>2. 0 * ChunkLen = 0
  BY <1>1
<1> QED BY <1>1, <1>2 DEF Left

-----------------------------------------------------------------------------
(***************************************************************************)
(* What an answer is, item by item.                                        *)
(***************************************************************************)
LEMMA ChunkSeq ==
  ASSUME NEW n \in Nat
  PROVE  Chunks(n) \in Seq(Item) /\ Len(Chunks(n)) = Size(n)
<1> DEFINE c == ChunkLen
           m == Size(n)
           chunk(k) == IF k * c <= n THEN c ELSE n % c
<1>1. c \in Nat /\ c > 0
  BY DEF HandlerAssumption
<1>m. m \in Nat
  BY SizeBounds
<1>2. Chunks(n) = [k \in 1 .. m |-> chunk(k)]
  BY DEF Chunks, Size
<1> HIDE DEF c, m
<1>3. \A k \in 1 .. m : chunk(k) \in Nat
  BY <1>1
<1>4. \A k \in 1 .. m : chunk(k) \in Item
  BY <1>3 DEF Item
<1> HIDE DEF chunk
<1>5. Chunks(n) \in Seq(Item) /\ Len(Chunks(n)) = m
  BY <1>m, <1>2, <1>4
<1> QED BY <1>5 DEF m

LEMMA ShortAnswer ==
  ASSUME NEW k \in Request \cup {"rate", "unrouted"}, NEW n \in Nat
  PROVE  /\ Answer(k, n) \in Seq(Item)
         /\ k \in Request => Len(Answer(k, n)) = 1 /\ Answer(k, n)[1] = "reply"
         /\ k = "rate" => Len(Answer(k, n)) = 1 /\ Answer(k, n)[1] = "rate"
         /\ k = "unrouted" => Len(Answer(k, n)) = 0
<1>1. CASE k \in Request
  <2>1. Answer(k, n) = <<"reply">> /\ k # "rate" /\ k # "unrouted"
    BY <1>1 DEF Answer, Request
  <2> QED BY <1>1, <2>1 DEF Item
<1>2. CASE k = "rate"
  <2>1. Answer(k, n) = <<"rate">> /\ k \notin Request /\ k # "unrouted"
    BY <1>2 DEF Answer, Request
  <2> QED BY <2>1, <1>2 DEF Item
<1>3. CASE k = "unrouted"
  <2>1. Answer(k, n) = <<>> /\ k \notin Request /\ k # "rate"
    BY <1>3 DEF Answer, Request
  <2> QED BY <2>1, <1>3 DEF Item
<1> QED BY <1>1, <1>2, <1>3

LEMMA Joined ==
  ASSUME NEW p \in Seq(Item), NEW q \in Seq(Item)
  PROVE  /\ p \o q \in Seq(Item)
         /\ Len(p \o q) = Len(p) + Len(q)
         /\ \A i \in 1 .. Len(p) : (p \o q)[i] = p[i]
         /\ \A i \in 1 .. Len(q) : (p \o q)[Len(p) + i] = q[i]
BY ConcatProperties

LEMMA BytesAnswer ==
  ASSUME NEW n \in Nat
  PROVE  LET a == Answer("bytes", n)
             m == Size(n)
         IN  /\ a \in Seq(Item) /\ Len(a) = m + 1
             /\ \A j \in 1 .. m : a[j] = Chunks(n)[j]
             /\ a[m + 1] = "end"
<1>1. Answer("bytes", n) = Chunks(n) \o <<"end">>
  BY DEF Answer, Request
<1>2. Chunks(n) \in Seq(Item) /\ Len(Chunks(n)) = Size(n) /\ Size(n) \in Nat
  BY ChunkSeq, SizeBounds
<1> DEFINE d == Chunks(n)
           e == <<"end">>
           m == Size(n)
<1>3. e \in Seq(Item) /\ Len(e) = 1 /\ e[1] = "end"
  BY DEF Item
<1> HIDE DEF d, e, m
<1>4. d \in Seq(Item) /\ Len(d) = m /\ m \in Nat
  BY <1>2 DEF d, m
<1>5. /\ d \o e \in Seq(Item) /\ Len(d \o e) = m + 1
      /\ \A i \in 1 .. m : (d \o e)[i] = d[i]
      /\ (d \o e)[m + 1] = "end"
  <2>1. /\ d \o e \in Seq(Item)
        /\ Len(d \o e) = Len(d) + Len(e)
        /\ \A i \in 1 .. Len(d) : (d \o e)[i] = d[i]
        /\ \A i \in 1 .. Len(e) : (d \o e)[Len(d) + i] = e[i]
    BY <1>3, <1>4, Joined
  <2>2. 1 \in 1 .. Len(e)
    BY <1>3
  <2> QED BY <2>1, <2>2, <1>3, <1>4
<1> QED BY <1>1, <1>5 DEF d, e, m

LEMMA DownloadAnswer ==
  ASSUME NEW n \in Nat
  PROVE  LET a == Answer("download", n)
             m == Size(n)
         IN  /\ a \in Seq(Item) /\ Len(a) = m + 4
             /\ a[1] = "header" /\ a[2] = "part"
             /\ \A j \in 1 .. m : a[j + 2] = Chunks(n)[j]
             /\ a[m + 3] = "endpart" /\ a[m + 4] = "end"
<1> DEFINE m == Size(n)
           b == <<"header", "part">>
           d == Chunks(n)
           e == <<"endpart", "end">>
           f == b \o d
<1>1. Answer("download", n) = f \o e
  BY DEF Answer, Request
<1>2. d \in Seq(Item) /\ Len(d) = m /\ m \in Nat
  BY ChunkSeq, SizeBounds
<1>3. b \in Seq(Item) /\ Len(b) = 2 /\ b[1] = "header" /\ b[2] = "part"
  BY DEF Item
<1>4. e \in Seq(Item) /\ Len(e) = 2 /\ e[1] = "endpart" /\ e[2] = "end"
  BY DEF Item
<1> HIDE DEF b, d, e, m
<1>5. /\ f \in Seq(Item) /\ Len(f) = m + 2
      /\ f[1] = "header" /\ f[2] = "part"
      /\ \A j \in 1 .. m : f[j + 2] = d[j]
  <2>0. /\ f \in Seq(Item)
        /\ Len(f) = Len(b) + Len(d)
        /\ \A i \in 1 .. Len(b) : f[i] = b[i]
        /\ \A i \in 1 .. Len(d) : f[Len(b) + i] = d[i]
    BY <1>2, <1>3, Joined
  <2>1. /\ f \in Seq(Item) /\ Len(f) = 2 + m
        /\ \A i \in 1 .. 2 : f[i] = b[i]
        /\ \A i \in 1 .. m : f[2 + i] = d[i]
    BY <2>0, <1>2, <1>3
  <2> HIDE DEF f
  <2>2. 2 + m = m + 2 /\ \A i \in 1 .. m : 2 + i = i + 2
    BY <1>2
  <2> QED BY <2>1, <2>2, <1>3
<1> HIDE DEF f
<1>6. /\ f \o e \in Seq(Item) /\ Len(f \o e) = m + 4
      /\ \A i \in 1 .. m + 2 : (f \o e)[i] = f[i]
      /\ \A i \in 1 .. 2 : (f \o e)[m + 2 + i] = e[i]
  <2>0. /\ f \o e \in Seq(Item)
        /\ Len(f \o e) = Len(f) + Len(e)
        /\ \A i \in 1 .. Len(f) : (f \o e)[i] = f[i]
        /\ \A i \in 1 .. Len(e) : (f \o e)[Len(f) + i] = e[i]
    BY <1>4, <1>5, Joined
  <2>1. /\ f \o e \in Seq(Item) /\ Len(f \o e) = m + 2 + 2
        /\ \A i \in 1 .. m + 2 : (f \o e)[i] = f[i]
        /\ \A i \in 1 .. 2 : (f \o e)[m + 2 + i] = e[i]
    BY <2>0, <1>4, <1>5
  <2>2. m + 2 + 2 = m + 4
    BY <1>2
  <2> QED BY <2>1, <2>2
<1>7. (f \o e)[m + 3] = "endpart" /\ (f \o e)[m + 4] = "end"
  <2>1. 1 \in 1 .. 2 /\ 2 \in 1 .. 2
    OBVIOUS
  <2>2. (f \o e)[m + 2 + 1] = e[1] /\ (f \o e)[m + 2 + 2] = e[2]
    BY <1>6, <2>1
  <2>3. m + 2 + 1 = m + 3 /\ m + 2 + 2 = m + 4
    BY <1>2
  <2> QED BY <2>2, <2>3, <1>4
<1>8. (f \o e)[1] = "header" /\ (f \o e)[2] = "part"
  BY <1>2, <1>5, <1>6
<1>9. \A j \in 1 .. m : (f \o e)[j + 2] = d[j]
  BY <1>2, <1>5, <1>6
<1> QED BY <1>1, <1>6, <1>7, <1>8, <1>9 DEF d, m

LEMMA AnswerLength ==
  ASSUME NEW k \in Kind, NEW n \in Nat
  PROVE  Answer(k, n) \in Seq(Item) /\ Len(Answer(k, n)) \in Nat
<1> DEFINE a == Answer(k, n)
<1>1. ASSUME k \in Request \cup {"rate", "unrouted"} PROVE a \in Seq(Item)
  BY <1>1, ShortAnswer
<1>2. ASSUME k = "bytes" PROVE a \in Seq(Item)
  <2>1. Answer("bytes", n) \in Seq(Item)
    BY BytesAnswer
  <2> QED BY <1>2, <2>1
<1>3. ASSUME k = "download" PROVE a \in Seq(Item)
  <2>1. Answer("download", n) \in Seq(Item)
    BY DownloadAnswer
  <2> QED BY <1>3, <2>1
<1> HIDE DEF a
<1>4. a \in Seq(Item)
  BY <1>1, <1>2, <1>3 DEF Kind, Route
<1> QED BY <1>4 DEF a

(* A sequence that agrees with another as far as it goes is its beginning. *)
LEMMA Beginning ==
  ASSUME NEW w \in Seq(Item), NEW a \in Seq(Item), Len(w) \in 0 .. Len(a),
         \A i \in 1 .. Len(w) : w[i] = a[i]
  PROVE  w = SubSeq(a, 1, Len(w))
<1> DEFINE m == Len(w)
           b == SubSeq(a, 1, m)
<1>1. m \in Nat /\ Len(a) \in Nat /\ m <= Len(a)
  OBVIOUS
<1>2. b \in Seq(Item) /\ Len(b) = m /\ \A i \in 1 .. m : b[i] = a[i]
  BY <1>1, SubSeqProperties
<1>3. \A i \in 1 .. m : w[i] = b[i]
  BY <1>2
<1> HIDE DEF b
<1>4. w = b
  BY <1>2, <1>3, SeqEqual
<1> QED BY <1>4 DEF b

-----------------------------------------------------------------------------
(***************************************************************************)
(* What a step that leaves a part alone keeps of it.                       *)
(***************************************************************************)
LEMMA LocalKept ==
  ASSUME NEW s \in Stream, Local(s),
         kind'[s] = kind[s], length'[s] = length[s], pc'[s] = pc[s],
         remaining'[s] = remaining[s], wrote'[s] = wrote[s], reports'[s] = reports[s]
  PROVE  Local(s)'
<1>1. AnswerOf(s)' = AnswerOf(s)
  BY DEF AnswerOf
<1>2. Begun(s)'
  BY <1>1 DEF Begun, Local
<1>3. Progress(s)'
  BY DEF Progress, Local
<1>4. Reported(s)'
  BY <1>1 DEF Reported, Local
<1> QED BY <1>2, <1>3, <1>4 DEF Local

LEMMA QueueKept ==
  ASSUME Queue, TypeOK, inbox' = inbox,
         \A s \in Stream : pc[s] = "queued" => pc'[s] = "queued"
  PROVE  Queue'
<1>1. \A i \in 1 .. Len(inbox) : inbox[i] \in Stream
  BY DEF TypeOK
<1> QED BY <1>1 DEF Queue

(* Streams end, but no subscription does. *)
LEMMA SubscriptionsKept ==
  ASSUME Subscriptions, kind' = kind, losses' = losses, open' \subseteq open,
         \A s \in open \ open' : kind[s] # "rate"
  PROVE  Subscriptions'
<1>1. Rates' = Rates
  BY DEF Rates
<1>2. Rates \cap open' = Rates \cap open
  BY DEF Rates
<1> QED BY <1>1, <1>2 DEF Subscriptions

(* What is written next is the next item of the answer. *)
LEMMA WrittenInOrder ==
  ASSUME NEW s \in Stream, NEW item \in Item, Typed, Begun(s), Written(s, item),
         kind' = kind, length' = length,
         Len(wrote[s]) < Len(AnswerOf(s)), item = AnswerOf(s)[Len(wrote[s]) + 1]
  PROVE  /\ wrote' \in [Stream -> Seq(Item)]
         /\ unread' \in [Stream -> 0 .. Window]
         /\ Len(wrote'[s]) = Len(wrote[s]) + 1
         /\ \A t \in Stream \ {s} : wrote'[t] = wrote[t]
         /\ Begun(s)'
<1> DEFINE w == wrote[s]
           a == AnswerOf(s)
<1>1. w \in Seq(Item) /\ Len(w) \in Nat
  BY DEF Typed
<1>2. a' = a
  BY DEF AnswerOf
<1>3. wrote'[s] = Append(w, item)
  BY DEF Typed, Written
<1> HIDE DEF a
<1>4. /\ Append(w, item) \in Seq(Item)
      /\ Len(Append(w, item)) = Len(w) + 1
      /\ \A i \in 1 .. Len(w) : Append(w, item)[i] = w[i]
      /\ Append(w, item)[Len(w) + 1] = item
  BY <1>1
<1>5. wrote' \in [Stream -> Seq(Item)] /\ \A t \in Stream \ {s} : wrote'[t] = wrote[t]
  BY <1>4 DEF Typed, Written
<1>6. unread' \in [Stream -> 0 .. Window]
  <2>1. unread[s] \in 0 .. Window /\ unread[s] < Window /\ Window \in Nat
    BY DEF Typed, TypeOK, Written, HandlerAssumption
  <2>2. unread[s] + 1 \in 0 .. Window
    BY <2>1
  <2> QED BY <2>2 DEF Typed, TypeOK, Written
<1>7. Begun(s)'
  <2>1. Len(w) <= Len(a) /\ \A i \in 1 .. Len(w) : w[i] = a[i]
    BY DEF Begun, a
  <2>2. Len(w) < Len(a) /\ item = a[Len(w) + 1]
    BY DEF a
  <2>3. Len(a) \in Nat
    BY AnswerLength DEF a, AnswerOf, Typed, TypeOK
  <2>4. Len(wrote'[s]) <= Len(a)
    BY <1>1, <1>3, <1>4, <2>2, <2>3
  <2>5. \A i \in 1 .. Len(w) + 1 : Append(w, item)[i] = a[i]
    BY <1>1, <1>4, <2>1, <2>2
  <2>6. \A i \in 1 .. Len(wrote'[s]) : wrote'[s][i] = a[i]
    BY <1>3, <1>4, <2>5
  <2> QED BY <1>2, <2>4, <2>6 DEF Begun, a
<1> QED BY <1>3, <1>4, <1>5, <1>6, <1>7

LEMMA ReportsTyped ==
  ASSUME NEW s \in Stream, NEW what \in {"chat", "echo"} \cup Nat, Typed, Report(s, what)
  PROVE  /\ reports' \in [Stream -> Seq({"chat", "echo"} \cup Nat)]
         /\ reports'[s] = Append(reports[s], what)
         /\ reports[s] = <<>> => reports'[s] = <<what>> /\ Len(reports'[s]) = 1
         /\ \A t \in Stream \ {s} : reports'[t] = reports[t]
<1>1. Append(reports[s], what) \in Seq({"chat", "echo"} \cup Nat)
  BY DEF Typed
<1>2. reports[s] = <<>> => Append(reports[s], what) = <<what>>
  OBVIOUS
<1> QED BY <1>1, <1>2 DEF Typed, Report

LEMMA GoTyped ==
  ASSUME NEW s \in Stream, NEW to \in Running \cup {"parked", "done"}, Typed, Go(s, to)
  PROVE  /\ pc' \in [Stream -> Running \cup {"new", "queued", "parked", "done"}]
         /\ pc'[s] = to
         /\ \A t \in Stream \ {s} : pc'[t] = pc[t]
         /\ pc[s] # "queued" => \A t \in Stream : pc[t] = "queued" => pc'[t] = "queued"
BY DEF Typed, TypeOK, Go

LEMMA HandlersFrom ==
  ASSUME NEW s \in Stream, Handlers, Local(s)', kind' = kind, length' = length,
         \A t \in Stream \ {s} : /\ pc'[t] = pc[t] /\ remaining'[t] = remaining[t]
                                 /\ wrote'[t] = wrote[t] /\ reports'[t] = reports[t]
  PROVE  Handlers'
<1>1. ASSUME NEW t \in Stream \ {s} PROVE Local(t)'
  BY LocalKept DEF Handlers
<1> QED BY <1>1 DEF Handlers

-----------------------------------------------------------------------------
(***************************************************************************)
(* The beginning, and what the device does.                                *)
(***************************************************************************)
THEOREM Start == Init => IInv
<1> SUFFICES ASSUME Init PROVE IInv
  OBVIOUS
<1>1. Typed
  BY DEF Init, Typed, TypeOK, Kind, Item, HandlerAssumption
<1>2. ASSUME NEW s \in Stream PROVE Local(s)
  <2>1. Len(AnswerOf(s)) = 0
    <3>1. Len(Answer("unrouted", 0)) = 0
      BY ShortAnswer DEF Request
    <3> QED BY <3>1 DEF Init, AnswerOf
  <2>2. Begun(s)
    BY <2>1 DEF Init, Begun
  <2>3. Progress(s)
    BY DEF Init, Progress
  <2>4. Reported(s)
    BY DEF Init, Reported
  <2> QED BY <2>2, <2>3, <2>4 DEF Local
<1>3. Queue
  BY DEF Init, Queue
<1>4. Subscriptions
  <2>1. Rates = {}
    BY DEF Init, Rates
  <2>2. IsFiniteSet(Rates) /\ Cardinality(Rates) = 0
    BY <2>1, FS_EmptySet
  <2>3. Rates \cap open = {} /\ losses = 0
    BY <2>1 DEF Init
  <2> QED BY <2>1, <2>2, <2>3 DEF Subscriptions
<1> QED BY <1>1, <1>2, <1>3, <1>4 DEF IInv, Handlers

(* A stream the device opens joins the end of the queue. *)
LEMMA OpenStep ==
  ASSUME NEW s \in Stream, IInv, Open(s)
  PROVE  IInv'
<1>0. Typed /\ Handlers /\ Queue /\ Subscriptions /\ Local(s)
  BY DEF IInv, Handlers
<1> PICK k \in Kind, n \in 0 .. MaxLength :
      /\ k = "rate" => \A r \in open : kind[r] # "rate"
      /\ kind' = [kind EXCEPT ![s] = k] /\ length' = [length EXCEPT ![s] = n]
  BY DEF Open
<1>1. n \in Nat
  BY DEF HandlerAssumption
<1>2. /\ pc[s] = "new" /\ pc' = [pc EXCEPT ![s] = "queued"]
      /\ inbox' = Append(inbox, s) /\ open' = open \cup {s}
      /\ UNCHANGED <<remaining, wrote, unread, reports, losses>>
  BY DEF Open
<1>3. Typed'
  <2>1. inbox' \in Seq(Stream)
    BY <1>0, <1>2 DEF Typed, TypeOK
  <2>2. kind' \in [Stream -> Kind] /\ length' \in [Stream -> 0 .. MaxLength]
    BY <1>0 DEF Typed, TypeOK
  <2>3. pc' \in [Stream -> Running \cup {"new", "queued", "parked", "done"}]
    BY <1>0, <1>2 DEF Typed, TypeOK
  <2>4. open' \subseteq Stream
    BY <1>0, <1>2 DEF Typed, TypeOK
  <2> QED BY <1>0, <1>2, <2>1, <2>2, <2>3, <2>4 DEF Typed, TypeOK
<1>4. Handlers'
  <2>1. ASSUME NEW t \in Stream \ {s} PROVE Local(t)'
    <3>1. Local(t)
      BY <1>0 DEF Handlers
    <3>2. kind'[t] = kind[t] /\ length'[t] = length[t] /\ pc'[t] = pc[t]
      BY <1>0, <1>2 DEF Typed, TypeOK
    <3> QED BY <3>1, <3>2, <1>2, LocalKept
  <2>2. kind[s] = "unrouted" /\ length[s] = 0 /\ Len(wrote[s]) = 0
    BY <1>0, <1>2 DEF Local, Progress
  <2>3. reports[s] = <<>>
    BY <1>0, <1>2, <2>2 DEF Local, Reported
  <2>4. pc'[s] = "queued" /\ wrote'[s] = wrote[s] /\ reports'[s] = <<>>
    BY <1>0, <1>2, <2>3 DEF Typed, TypeOK
  <2>5. Begun(s)'
    <3>1. Len(AnswerOf(s)') \in Nat
      BY <1>3, AnswerLength DEF Typed, TypeOK, AnswerOf, HandlerAssumption
    <3> QED BY <2>2, <2>4, <3>1 DEF Begun
  <2>6. Progress(s)'
    BY <2>2, <2>4 DEF Progress
  <2>7. Reported(s)'
    BY <2>4 DEF Reported
  <2>8. Local(s)'
    BY <2>5, <2>6, <2>7 DEF Local
  <2> QED BY <2>1, <2>8 DEF Handlers
<1>5. Queue'
  <2> DEFINE q == inbox
             m == Len(inbox)
  <2>1. q \in Seq(Stream) /\ m \in Nat /\ \A i \in 1 .. m : q[i] \in Stream
    BY <1>0 DEF Typed, TypeOK
  <2>2. Len(q') = m + 1 /\ q'[m + 1] = s /\ \A i \in 1 .. m : q'[i] = q[i]
    BY <1>2, <2>1
  <2>3. \A i \in 1 .. m : pc[q[i]] = "queued" /\ q[i] # s
    BY <1>0, <1>2 DEF Queue
  <2>4. \A i \in 1 .. m : pc'[q[i]] = "queued"
    BY <1>2, <2>1, <2>3
  <2>5. pc'[s] = "queued"
    BY <1>0, <1>2 DEF Typed, TypeOK
  <2>6. \A i, j \in 1 .. m : i # j => q[i] # q[j]
    BY <1>0 DEF Queue
  <2>7. \A i \in 1 .. m + 1 : i \in 1 .. m \/ i = m + 1
    BY <2>1
  <2> HIDE DEF m
  <2>8. \A i \in 1 .. m + 1 : pc'[q'[i]] = "queued"
    BY <2>2, <2>4, <2>5, <2>7
  <2>9. \A i, j \in 1 .. m + 1 : i # j => q'[i] # q'[j]
    BY <2>2, <2>3, <2>6, <2>7
  <2> QED BY <2>2, <2>8, <2>9 DEF Queue
<1>6. Subscriptions'
  <2>0. s \notin Rates /\ Rates \subseteq Stream
    BY <1>0, <1>2 DEF Rates, Local, Progress
  <2>1. CASE k = "rate"
    <3>1. Rates' = Rates \cup {s}
      BY <1>0, <2>1 DEF Rates, Typed, TypeOK
    <3>2. Rates \cap open = {}
      BY <2>1 DEF Rates
    <3>3. Cardinality(Rates') = Cardinality(Rates) + 1 /\ IsFiniteSet(Rates')
      BY <1>0, <2>0, <3>1, FS_AddElement DEF Subscriptions
    <3>4. Rates' \cap open' = {s}
      BY <1>2, <3>1, <3>2
    <3>5. Cardinality(Rates) <= losses + 0
      BY <1>0, <3>2 DEF Subscriptions
    <3>6. losses \in Nat /\ Cardinality(Rates) \in Nat
      BY <1>0, FS_CardinalityType DEF Typed, TypeOK, HandlerAssumption, Subscriptions
    <3>7. Cardinality(Rates') <= losses + 1
      BY <3>3, <3>5, <3>6
    <3> QED BY <1>2, <3>3, <3>4, <3>7 DEF Subscriptions
  <2>2. CASE k # "rate"
    <3>1. Rates' = Rates
      BY <1>0, <2>0, <2>2 DEF Rates, Typed, TypeOK
    <3>2. Rates \cap open' = Rates \cap open
      BY <1>2, <2>0
    <3> QED BY <1>0, <1>2, <3>1, <3>2 DEF Subscriptions
  <2> QED BY <2>1, <2>2
<1> QED BY <1>3, <1>4, <1>5, <1>6 DEF IInv

LEMMA ReadStep ==
  ASSUME NEW s \in Stream, IInv, DeviceReads(s)
  PROVE  IInv'
<1>0. Typed /\ Handlers /\ Queue /\ Subscriptions
  BY DEF IInv
<1>1. UNCHANGED <<kind, length, inbox, pc, remaining, wrote, open, reports, losses>>
  BY DEF DeviceReads
<1>2. unread' \in [Stream -> 0 .. Window]
  <2>1. unread[s] \in 0 .. Window /\ unread[s] > 0 /\ Window \in Nat
    BY <1>0 DEF DeviceReads, Typed, TypeOK, HandlerAssumption
  <2>2. unread[s] - 1 \in 0 .. Window
    BY <2>1
  <2> QED BY <1>0, <2>2 DEF DeviceReads, Typed, TypeOK
<1>3. Typed'
  BY <1>0, <1>1, <1>2 DEF Typed, TypeOK
<1>4. Handlers'
  <2>1. ASSUME NEW t \in Stream PROVE Local(t)'
    BY <1>0, <1>1, LocalKept DEF Handlers
  <2> QED BY <2>1 DEF Handlers
<1>5. Queue'
  BY <1>0, <1>1, QueueKept DEF Typed
<1>6. Subscriptions'
  BY <1>0, <1>1, SubscriptionsKept
<1> QED BY <1>3, <1>4, <1>5, <1>6 DEF IInv

(* A stream that is reset, or the session that is lost, takes nothing back. *)
LEMMA ResetKeeps ==
  ASSUME NEW gone \in SUBSET Stream, IInv, Reset(gone), losses' \in 0 .. MaxLosses
  PROVE  Typed' /\ Handlers' /\ Queue'
<1>0. Typed /\ Handlers /\ Queue
  BY DEF IInv
<1>1. UNCHANGED <<kind, length, inbox, pc, remaining, wrote, reports>>
  BY DEF Reset
<1>2. unread' \in [Stream -> 0 .. Window]
  BY <1>0 DEF Reset, Typed, TypeOK, HandlerAssumption
<1>3. open' \subseteq Stream
  BY <1>0 DEF Reset, Typed, TypeOK
<1>4. Typed'
  BY <1>0, <1>1, <1>2, <1>3 DEF Typed, TypeOK
<1>5. Handlers'
  <2>1. ASSUME NEW t \in Stream PROVE Local(t)'
    BY <1>0, <1>1, LocalKept DEF Handlers
  <2> QED BY <2>1 DEF Handlers
<1>6. Queue'
  BY <1>0, <1>1, QueueKept DEF Typed
<1> QED BY <1>4, <1>5, <1>6

LEMMA ResetStep ==
  ASSUME NEW s \in Stream, IInv, DeviceResets(s)
  PROVE  IInv'
<1>1. Reset({s}) /\ losses' = losses /\ kind[s] # "rate"
  BY DEF DeviceResets
<1>2. losses' \in 0 .. MaxLosses
  BY <1>1 DEF IInv, Typed, TypeOK
<1>3. Typed' /\ Handlers' /\ Queue'
  BY <1>1, <1>2, ResetKeeps
<1>4. Subscriptions'
  BY <1>1, SubscriptionsKept DEF IInv, Reset
<1> QED BY <1>3, <1>4 DEF IInv

LEMMA LossStep ==
  ASSUME IInv, SessionLost
  PROVE  IInv'
<1>0. Typed /\ Subscriptions
  BY DEF IInv
<1>1. Reset(open) /\ losses < MaxLosses /\ losses' = losses + 1 /\ open \in SUBSET Stream
  BY <1>0 DEF SessionLost, Typed, TypeOK
<1>2. losses \in Nat /\ losses' \in 0 .. MaxLosses
  BY <1>0, <1>1 DEF Typed, TypeOK, HandlerAssumption
<1>3. Typed' /\ Handlers' /\ Queue'
  BY <1>1, <1>2, ResetKeeps
<1>4. Subscriptions'
  <2>1. Rates' = Rates /\ open' = {}
    BY <1>1 DEF Rates, Reset
  <2>2. Cardinality(Rates) \in Nat
    BY <1>0, FS_CardinalityType DEF Subscriptions
  <2>3. Cardinality(Rates) <= losses + 1
    BY <1>0, <1>2, <2>2 DEF Subscriptions
  <2> QED BY <1>0, <1>1, <1>2, <2>1, <2>2, <2>3 DEF Subscriptions
<1> QED BY <1>3, <1>4 DEF IInv

(***************************************************************************)
(* The serve loop: the head of the queue gets its handler, which has       *)
(* written and published nothing.                                          *)
(***************************************************************************)
LEMMA ServeStep ==
  ASSUME IInv, Serve
  PROVE  IInv'
<1>0. Typed /\ Handlers /\ Queue /\ Subscriptions
  BY DEF IInv
<1>p. inbox \in Seq(Stream) /\ Len(inbox) \in Nat \ {0}
  BY <1>0 DEF Serve, Typed, TypeOK
<1> PICK s \in Stream : s = Head(inbox)
  BY <1>p
<1>q. inbox \in Seq(Stream) /\ Len(inbox) \in Nat \ {0} /\ s = inbox[1]
  BY <1>p
<1>1. s \in Stream /\ pc[s] = "queued" /\ Local(s)
  BY <1>0, <1>q DEF Queue, Handlers
<1>2. /\ inbox' = Tail(inbox)
      /\ pc' = [pc EXCEPT ![s] = First(kind[s])]
      /\ remaining' = [remaining EXCEPT ![s] = length[s]]
      /\ open' = IF kind[s] = "unrouted" THEN open \ {s} ELSE open
      /\ UNCHANGED <<kind, length, wrote, unread, reports, losses>>
  BY DEF Serve
<1>3. kind[s] \in Kind /\ length[s] \in Nat /\ length[s] \in 0 .. MaxLength
  BY <1>0, <1>1 DEF Typed, TypeOK, HandlerAssumption
<1>f. /\ kind[s] \in Request => First(kind[s]) = "begin"
      /\ kind[s] = "bytes" => First(kind[s]) = "chunk"
      /\ kind[s] = "rate" => First(kind[s]) = "rate"
      /\ kind[s] = "download" => First(kind[s]) = "header"
      /\ kind[s] = "unrouted" => First(kind[s]) = "done"
  BY DEF First, Request
<1>g. First(kind[s]) \in Running \cup {"done"}
  BY <1>3, <1>f DEF Kind, Route, Running, Waiting
<1>h. pc'[s] = First(kind[s]) /\ remaining'[s] = length[s]
  BY <1>0, <1>1, <1>2 DEF Typed, TypeOK
<1>4. Typed'
  <2>1. inbox' \in Seq(Stream)
    BY <1>q, <1>2
  <2>2. pc' \in [Stream -> Running \cup {"new", "queued", "parked", "done"}]
    BY <1>0, <1>2, <1>g DEF Typed, TypeOK
  <2>3. remaining' \in [Stream -> 0 .. MaxLength]
    BY <1>0, <1>2, <1>3 DEF Typed, TypeOK
  <2>4. open' \subseteq Stream
    BY <1>0, <1>2 DEF Typed, TypeOK
  <2> QED BY <1>0, <1>2, <2>1, <2>2, <2>3, <2>4 DEF Typed, TypeOK
<1>5. Handlers'
  <2>1. /\ Len(wrote[s]) = 0 /\ reports[s] = <<>>
    BY <1>1 DEF Local, Progress, Reported
  <2>2. wrote'[s] = wrote[s] /\ kind'[s] = kind[s] /\ length'[s] = length[s]
    BY <1>2
  <2>3. reports'[s] = <<>>
    BY <1>2, <2>1
  <2>4. Begun(s)'
    <3>1. AnswerOf(s)' = AnswerOf(s)
      BY <1>2 DEF AnswerOf
    <3> QED BY <1>1, <2>2, <3>1 DEF Local, Begun
  <2>5. Progress(s)'
    <3>1. kind[s] \in Request \/ kind[s] \in {"bytes", "rate", "download", "unrouted"}
      BY <1>3 DEF Kind, Route
    <3>2. Left(length[s], 0) = length[s] /\ 0 <= Size(length[s])
      BY <1>3, LeftStart
    <3>3. "begin" \notin {"chunk", "rate", "header"} /\ {"bytes", "rate", "download", "unrouted"} \cap Request = {}
      BY DEF Request
    <3> QED BY <1>f, <1>h, <2>1, <2>2, <3>1, <3>2, <3>3 DEF Progress
  <2>6. Reported(s)'
    <3>1. kind[s] = "chat" => First(kind[s]) = "begin"
      BY <1>f DEF Request
    <3> QED BY <1>h, <2>2, <2>3, <3>1 DEF Reported
  <2>7. Local(s)'
    BY <2>4, <2>5, <2>6 DEF Local
  <2>8. \A t \in Stream \ {s} : /\ pc'[t] = pc[t] /\ remaining'[t] = remaining[t]
                                /\ wrote'[t] = wrote[t] /\ reports'[t] = reports[t]
    BY <1>0, <1>2 DEF Typed, TypeOK
  <2> QED BY <1>0, <1>1, <1>2, <2>7, <2>8, HandlersFrom
<1>6. Queue'
  <2> DEFINE m == Len(inbox)
  <2>1. Len(inbox') = m - 1 /\ \A i \in 1 .. m - 1 : inbox'[i] = inbox[i + 1]
    BY <1>q, <1>2
  <2>2. /\ \A i \in 1 .. m : inbox[i] \in Stream /\ pc[inbox[i]] = "queued"
        /\ \A i, j \in 1 .. m : i # j => inbox[i] # inbox[j]
    BY <1>0, <1>q DEF Queue
  <2>3. m \in Nat \ {0} /\ s = inbox[1]
    BY <1>q
  <2> HIDE DEF m
  <2>4. \A i \in 1 .. m - 1 : i + 1 \in 1 .. m /\ i + 1 # 1 /\ 1 \in 1 .. m
    BY <2>3
  <2>5. \A i \in 1 .. m - 1 : inbox[i + 1] \in Stream \ {s}
    BY <2>2, <2>3, <2>4
  <2>6. \A i \in 1 .. m - 1 : pc'[inbox[i + 1]] = "queued"
    BY <1>0, <1>2, <2>2, <2>4, <2>5 DEF Typed, TypeOK
  <2>7. \A i, j \in 1 .. m - 1 : i # j => i + 1 # j + 1
    BY <2>3
  <2>8. \A i, j \in 1 .. m - 1 : i # j => inbox'[i] # inbox'[j]
    BY <2>1, <2>2, <2>4, <2>7
  <2> QED BY <2>1, <2>6, <2>8 DEF Queue
<1>7. Subscriptions'
  BY <1>0, <1>2, SubscriptionsKept
<1> QED BY <1>4, <1>5, <1>6, <1>7 DEF IInv

-----------------------------------------------------------------------------
(***************************************************************************)
(* The handlers.  Each step touches one stream: what remains to prove of   *)
(* it is what the step makes of the stream's own part of the invariant.    *)
(***************************************************************************)
Types(s) ==
  /\ pc' \in [Stream -> Running \cup {"new", "queued", "parked", "done"}]
  /\ remaining' \in [Stream -> 0 .. MaxLength]
  /\ wrote' \in [Stream -> Seq(Item)]
  /\ unread' \in [Stream -> 0 .. Window]
  /\ reports' \in [Stream -> Seq({"chat", "echo"} \cup Nat)]
  /\ \A t \in Stream \ {s} : /\ pc'[t] = pc[t] /\ remaining'[t] = remaining[t]
                             /\ wrote'[t] = wrote[t] /\ reports'[t] = reports[t]

LEMMA OneStream ==
  ASSUME NEW s \in Stream, IInv, UNCHANGED Asked, pc[s] \in Running,
         Types(s), Local(s)',
         open' = open \/ (open' = open \ {s} /\ kind[s] # "rate")
  PROVE  IInv'
<1>0. Typed /\ Handlers /\ Queue /\ Subscriptions
  BY DEF IInv
<1>1. kind' = kind /\ length' = length /\ inbox' = inbox /\ losses' = losses
  BY DEF Asked
<1>2. open' \subseteq open /\ \A t \in open \ open' : kind[t] # "rate"
  OBVIOUS
<1>3. Typed'
  BY <1>0, <1>1, <1>2 DEF Typed, TypeOK, Types
<1>4. Handlers'
  BY <1>0, <1>1, HandlersFrom DEF Types
<1>5. Queue'
  <2>1. \A t \in Stream : pc[t] = "queued" => t # s
    BY DEF Running, Waiting
  <2>2. \A t \in Stream : pc[t] = "queued" => pc'[t] = "queued"
    BY <2>1 DEF Types
  <2> QED BY <1>0, <1>1, <2>2, QueueKept DEF Typed
<1>6. Subscriptions'
  BY <1>0, <1>1, <1>2, SubscriptionsKept
<1> QED BY <1>3, <1>4, <1>5, <1>6 DEF IInv

(* A step that writes nothing keeps the beginning that was written. *)
LEMMA BegunKept ==
  ASSUME NEW s \in Stream, Begun(s), UNCHANGED <<kind, length, wrote>>
  PROVE  Begun(s)' /\ AnswerOf(s)' = AnswerOf(s)
BY DEF Begun, AnswerOf

LEMMA BeginStep ==
  ASSUME NEW s \in Stream, IInv, Begin(s)
  PROVE  IInv'
<1>0. Typed /\ Local(s)
  BY DEF IInv, Handlers
<1>1. /\ pc[s] = "begin" /\ Go(s, "respond") /\ UNCHANGED <<kind, length, inbox, losses>>
      /\ UNCHANGED <<remaining, wrote, unread, open>>
  BY DEF Begin, Asked
<1>2. kind[s] \in Request /\ Len(wrote[s]) = 0 /\ reports[s] = <<>>
  BY <1>0, <1>1 DEF Local, Progress, Reported
<1>3. /\ pc' \in [Stream -> Running \cup {"new", "queued", "parked", "done"}]
      /\ pc'[s] = "respond" /\ \A t \in Stream \ {s} : pc'[t] = pc[t]
  BY <1>0, <1>1, GoTyped DEF Running, Waiting
<1>4. /\ reports' \in [Stream -> Seq({"chat", "echo"} \cup Nat)]
      /\ reports'[s] = IF kind[s] = "chat" THEN <<"chat">> ELSE <<>>
      /\ \A t \in Stream \ {s} : reports'[t] = reports[t]
  <2>1. CASE kind[s] = "chat"
    <3>1. Report(s, "chat")
      BY <2>1 DEF Begin
    <3> QED BY <1>0, <1>2, <2>1, <3>1, ReportsTyped
  <2>2. CASE kind[s] # "chat"
    BY <1>0, <1>2, <2>2 DEF Begin, Typed
  <2> QED BY <2>1, <2>2
<1>5. Types(s)
  BY <1>0, <1>1, <1>3, <1>4 DEF Types, Typed, TypeOK
<1>6. Local(s)'
  <2>1. Begun(s)'
    BY <1>0, <1>1, BegunKept DEF Local
  <2>2. Progress(s)'
    BY <1>1, <1>2, <1>3 DEF Progress
  <2>3. Reported(s)'
    BY <1>1, <1>3, <1>4 DEF Reported
  <2> QED BY <2>1, <2>2, <2>3 DEF Local
<1> QED BY <1>1, <1>5, <1>6, OneStream DEF Asked, Running, Waiting

LEMMA RespondStep ==
  ASSUME NEW s \in Stream, IInv, Respond(s)
  PROVE  IInv'
<1>0. Typed /\ Local(s)
  BY DEF IInv, Handlers
<1>1. /\ pc[s] = "respond" /\ Written(s, "reply") /\ Go(s, "done")
      /\ open' = open \ {s} /\ UNCHANGED <<kind, length, inbox, losses, remaining>>
  BY DEF Respond, Asked
<1>2. kind[s] \in Request /\ Len(wrote[s]) = 0
  BY <1>0, <1>1 DEF Local, Progress
<1>a. Len(AnswerOf(s)) = 1 /\ AnswerOf(s)[1] = "reply" /\ AnswerOf(s)' = AnswerOf(s)
  <2>1. length[s] \in Nat
    BY <1>0 DEF Typed, TypeOK, HandlerAssumption
  <2>2. Len(AnswerOf(s)) = 1 /\ AnswerOf(s)[1] = "reply"
    BY <1>2, <2>1, ShortAnswer DEF AnswerOf
  <2> QED BY <1>1, <2>2 DEF AnswerOf
<1>3. /\ pc' \in [Stream -> Running \cup {"new", "queued", "parked", "done"}]
      /\ pc'[s] = "done" /\ \A t \in Stream \ {s} : pc'[t] = pc[t]
  BY <1>0, <1>1, GoTyped
<1>4. /\ wrote' \in [Stream -> Seq(Item)] /\ unread' \in [Stream -> 0 .. Window]
      /\ Len(wrote'[s]) = 1 /\ \A t \in Stream \ {s} : wrote'[t] = wrote[t]
      /\ Begun(s)'
  <2>1. "reply" \in Item
    BY DEF Item
  <2>3. Len(wrote[s]) < Len(AnswerOf(s)) /\ "reply" = AnswerOf(s)[Len(wrote[s]) + 1]
    BY <1>2, <1>a
  <2>2. /\ wrote' \in [Stream -> Seq(Item)] /\ unread' \in [Stream -> 0 .. Window]
        /\ Len(wrote'[s]) = Len(wrote[s]) + 1 /\ \A t \in Stream \ {s} : wrote'[t] = wrote[t]
        /\ Begun(s)'
    BY <1>0, <1>1, <2>1, <2>3, WrittenInOrder DEF Local
  <2> QED BY <2>2, <1>2
<1>5. /\ reports' \in [Stream -> Seq({"chat", "echo"} \cup Nat)]
      /\ \A t \in Stream \ {s} : reports'[t] = reports[t]
      /\ kind[s] = "chat" => reports'[s] = <<"chat">>
      /\ kind[s] # "chat" => reports'[s] = <<>> \/ Len(reports'[s]) = 1
  <2>1. kind[s] = "chat" => reports[s] = <<"chat">>
    BY <1>0, <1>1 DEF Local, Reported
  <2>2. kind[s] # "chat" => reports[s] = <<>>
    BY <1>0, <1>1 DEF Local, Reported
  <2>3. CASE kind[s] = "echo"
    <3>1. Report(s, "echo")
      BY <2>3 DEF Respond
    <3> QED BY <1>0, <2>2, <2>3, <3>1, ReportsTyped
  <2>4. CASE kind[s] # "echo"
    BY <1>0, <2>1, <2>2, <2>4 DEF Respond, Typed
  <2> QED BY <2>3, <2>4
<1>6. Types(s)
  BY <1>0, <1>1, <1>3, <1>4, <1>5 DEF Types, Typed, TypeOK
<1>7. Local(s)'
  <2>1. Progress(s)'
    BY <1>3 DEF Progress
  <2>2. Reported(s)'
    BY <1>1, <1>3, <1>4, <1>5, <1>a DEF Reported
  <2> QED BY <1>4, <2>1, <2>2 DEF Local
<1>8. kind[s] # "rate"
  BY <1>2 DEF Request
<1> QED BY <1>1, <1>6, <1>7, <1>8, OneStream DEF Asked, Running, Waiting

LEMMA RateStep ==
  ASSUME NEW s \in Stream, IInv, SendRate(s)
  PROVE  IInv'
<1>0. Typed /\ Local(s)
  BY DEF IInv, Handlers
<1>1. /\ pc[s] = "rate" /\ Written(s, "rate") /\ Go(s, "parked")
      /\ UNCHANGED <<kind, length, inbox, losses, remaining, open, reports>>
  BY DEF SendRate, Asked
<1>2. kind[s] = "rate" /\ Len(wrote[s]) = 0 /\ reports[s] = <<>>
  BY <1>0, <1>1 DEF Local, Progress, Reported
<1>a. Len(AnswerOf(s)) = 1 /\ AnswerOf(s)[1] = "rate"
  <2>1. length[s] \in Nat
    BY <1>0 DEF Typed, TypeOK, HandlerAssumption
  <2> QED BY <1>2, <2>1, ShortAnswer DEF AnswerOf
<1>3. /\ pc' \in [Stream -> Running \cup {"new", "queued", "parked", "done"}]
      /\ pc'[s] = "parked" /\ \A t \in Stream \ {s} : pc'[t] = pc[t]
  BY <1>0, <1>1, GoTyped
<1>4. /\ wrote' \in [Stream -> Seq(Item)] /\ unread' \in [Stream -> 0 .. Window]
      /\ \A t \in Stream \ {s} : wrote'[t] = wrote[t]
      /\ Begun(s)'
  <2>1. "rate" \in Item
    BY DEF Item
  <2>2. Len(wrote[s]) < Len(AnswerOf(s)) /\ "rate" = AnswerOf(s)[Len(wrote[s]) + 1]
    BY <1>2, <1>a
  <2> QED BY <1>0, <1>1, <2>1, <2>2, WrittenInOrder DEF Local
<1>5. Types(s)
  BY <1>0, <1>1, <1>3, <1>4 DEF Types, Typed, TypeOK
<1>6. Local(s)'
  <2>1. Progress(s)'
    BY <1>1, <1>2, <1>3 DEF Progress, Request
  <2>2. Reported(s)'
    BY <1>1, <1>2, <1>3 DEF Reported
  <2> QED BY <1>4, <2>1, <2>2 DEF Local
<1> QED BY <1>1, <1>5, <1>6, OneStream DEF Asked, Running, Waiting

(* A chunk is due: the next of Chunks, of the bytes that are left. *)
LEMMA ChunkDue ==
  ASSUME NEW s \in Stream, Typed, Local(s), pc[s] \in {"chunk", "body"}, remaining[s] > 0
  PROVE  \E j \in Nat :
           /\ pc[s] = "chunk" => kind[s] = "bytes" /\ Len(wrote[s]) = j
           /\ pc[s] = "body" => kind[s] = "download" /\ Len(wrote[s]) = j + 2
           /\ j + 1 \in 1 .. Size(length[s])
           /\ NextSize(s) \in Nat
           /\ Chunks(length[s])[j + 1] = NextSize(s)
           /\ remaining[s] - NextSize(s) \in 0 .. MaxLength
           /\ Left(length[s], j + 1) = remaining[s] - NextSize(s)
<1> PICK n \in Nat : n = length[s] /\ n <= MaxLength
  BY DEF Typed, TypeOK, HandlerAssumption
<1>1. Len(wrote[s]) \in Nat
  BY DEF Typed
<1>2. PICK j \in Nat : /\ pc[s] = "chunk" => kind[s] = "bytes" /\ Len(wrote[s]) = j
                       /\ pc[s] = "body" => kind[s] = "download" /\ Len(wrote[s]) = j + 2
                       /\ remaining[s] = Left(n, j)
  <2>1. CASE pc[s] = "chunk"
    <3>1. kind[s] = "bytes" /\ remaining[s] = Left(n, Len(wrote[s]))
      BY <2>1 DEF Local, Progress
    <3> QED BY <1>1, <2>1, <3>1
  <2>2. CASE pc[s] = "body"
    <3>1. kind[s] = "download" /\ 2 <= Len(wrote[s]) /\ remaining[s] = Left(n, Len(wrote[s]) - 2)
      BY <2>2 DEF Local, Progress
    <3>2. Len(wrote[s]) - 2 \in Nat /\ Len(wrote[s]) = (Len(wrote[s]) - 2) + 2
      BY <1>1, <3>1
    <3> QED BY <2>2, <3>1, <3>2
  <2> QED BY <2>1, <2>2
<1>3. /\ j < Size(n)
      /\ Chunks(n)[j + 1] = NextSize(s)
      /\ remaining[s] \in Nat
      /\ remaining[s] - NextSize(s) \in 0 .. n
      /\ Left(n, j + 1) = remaining[s] - NextSize(s)
  <2>1. Left(n, j) > 0
    BY <1>2
  <2> QED BY <1>2, <2>1, NextChunk DEF NextSize
<1>4. Size(n) \in Nat
  BY SizeBounds
<1>5. j + 1 \in 1 .. Size(n)
  BY <1>3, <1>4
<1>6. NextSize(s) \in Nat
  BY <1>3 DEF NextSize, HandlerAssumption
<1>7. remaining[s] - NextSize(s) \in 0 .. MaxLength
  <2>1. MaxLength \in Nat
    BY DEF HandlerAssumption
  <2> QED BY <1>3, <2>1
<1> QED BY <1>2, <1>3, <1>5, <1>6, <1>7

LEMMA ChunkStep ==
  ASSUME NEW s \in Stream, IInv, SendChunk(s)
  PROVE  IInv'
<1>0. Typed /\ Local(s)
  BY DEF IInv, Handlers
<1>1. /\ pc[s] \in {"chunk", "body"} /\ remaining[s] > 0
      /\ Written(s, NextSize(s))
      /\ remaining' = [remaining EXCEPT ![s] = remaining[s] - NextSize(s)]
      /\ UNCHANGED <<kind, length, inbox, losses, pc, open, reports>>
  BY DEF SendChunk, Asked
<1>2. PICK j \in Nat :
           /\ pc[s] = "chunk" => kind[s] = "bytes" /\ Len(wrote[s]) = j
           /\ pc[s] = "body" => kind[s] = "download" /\ Len(wrote[s]) = j + 2
           /\ j + 1 \in 1 .. Size(length[s])
           /\ NextSize(s) \in Nat
           /\ Chunks(length[s])[j + 1] = NextSize(s)
           /\ remaining[s] - NextSize(s) \in 0 .. MaxLength
           /\ Left(length[s], j + 1) = remaining[s] - NextSize(s)
  BY <1>0, <1>1, ChunkDue
<1> PICK n \in Nat : n = length[s]
  BY <1>0 DEF Typed, TypeOK, HandlerAssumption
<1> PICK m \in Nat : m = Size(n)
  BY SizeBounds
<1>3. reports[s] = <<>>
  BY <1>0, <1>1, <1>2 DEF Local, Reported
<1>4. /\ Len(wrote[s]) < Len(AnswerOf(s))
      /\ NextSize(s) = AnswerOf(s)[Len(wrote[s]) + 1]
  <2>1. j + 1 \in 1 .. m /\ Chunks(n)[j + 1] = NextSize(s)
    BY <1>2
  <2>2. CASE pc[s] = "chunk"
    <3>1. AnswerOf(s) = Answer("bytes", n)
      BY <1>2, <2>2 DEF AnswerOf
    <3>2. Len(AnswerOf(s)) = m + 1 /\ AnswerOf(s)[j + 1] = Chunks(n)[j + 1]
      <4>1. /\ Len(Answer("bytes", n)) = Size(n) + 1
            /\ \A i \in 1 .. Size(n) : Answer("bytes", n)[i] = Chunks(n)[i]
        BY BytesAnswer
      <4> QED BY <2>1, <3>1, <4>1
    <3>3. Len(wrote[s]) = j
      BY <1>2, <2>2
    <3>4. j < m + 1
      BY <2>1
    <3> QED BY <2>1, <3>2, <3>3, <3>4
  <2>3. CASE pc[s] = "body"
    <3>1. AnswerOf(s) = Answer("download", n)
      BY <1>2, <2>3 DEF AnswerOf
    <3>2. Len(AnswerOf(s)) = m + 4 /\ AnswerOf(s)[(j + 1) + 2] = Chunks(n)[j + 1]
      <4>1. /\ Len(Answer("download", n)) = Size(n) + 4
            /\ \A i \in 1 .. Size(n) : Answer("download", n)[i + 2] = Chunks(n)[i]
        BY DownloadAnswer
      <4> QED BY <2>1, <3>1, <4>1
    <3>3. Len(wrote[s]) = j + 2 /\ (j + 2) + 1 = (j + 1) + 2
      BY <1>2, <2>3
    <3>4. j + 2 < m + 4
      BY <2>1
    <3> QED BY <2>1, <3>2, <3>3, <3>4
  <2> QED BY <1>1, <2>2, <2>3
<1>5. NextSize(s) \in Item
  BY <1>2 DEF Item
<1>6. /\ wrote' \in [Stream -> Seq(Item)] /\ unread' \in [Stream -> 0 .. Window]
      /\ Len(wrote'[s]) = Len(wrote[s]) + 1
      /\ \A t \in Stream \ {s} : wrote'[t] = wrote[t]
      /\ Begun(s)'
  BY <1>0, <1>1, <1>4, <1>5, WrittenInOrder DEF Local
<1>7. /\ remaining' \in [Stream -> 0 .. MaxLength]
      /\ remaining'[s] = Left(n, j + 1)
      /\ \A t \in Stream \ {s} : remaining'[t] = remaining[t]
  BY <1>0, <1>1, <1>2 DEF Typed, TypeOK
<1>8. Types(s)
  BY <1>0, <1>1, <1>6, <1>7 DEF Types, Typed, TypeOK
<1>9. Local(s)'
  <2>1. Progress(s)'
    <3>1. pc'[s] = pc[s] /\ kind'[s] = kind[s] /\ length'[s] = n
      BY <1>1
    <3>j. j + 1 \in 1 .. m
      BY <1>2
    <3>2. CASE pc[s] = "chunk"
      <4>1. Len(wrote'[s]) = j + 1 /\ j + 1 <= m
        BY <1>2, <1>6, <3>2, <3>j
      <4> QED BY <1>2, <1>7, <3>1, <3>2, <4>1 DEF Progress
    <3>3. CASE pc[s] = "body"
      <4>1. Len(wrote'[s]) = (j + 2) + 1
        BY <1>2, <1>6, <3>3
      <4>2. (j + 2) + 1 = j + 3 /\ 2 <= j + 3 /\ j + 3 <= m + 2 /\ (j + 3) - 2 = j + 1
        BY <3>j
      <4>3. /\ Len(wrote'[s]) = j + 3 /\ 2 <= Len(wrote'[s]) /\ Len(wrote'[s]) <= m + 2
            /\ remaining'[s] = Left(n, Len(wrote'[s]) - 2)
        BY <4>1, <4>2, <1>7
      <4> QED BY <1>2, <3>1, <3>3, <4>3 DEF Progress
    <3> QED BY <1>1, <3>2, <3>3
  <2>2. Reported(s)'
    <3>1. reports'[s] = <<>> /\ kind'[s] # "chat"
      BY <1>1, <1>2, <1>3
    <3> QED BY <3>1 DEF Reported
  <2> QED BY <1>6, <2>1, <2>2 DEF Local
<1> QED BY <1>1, <1>8, <1>9, OneStream DEF Asked, Running, Waiting

LEMMA LastStep ==
  ASSUME NEW s \in Stream, IInv, LastChunk(s)
  PROVE  IInv'
<1>0. Typed /\ Local(s)
  BY DEF IInv, Handlers
<1>1. /\ pc[s] \in {"chunk", "body"} /\ remaining[s] = 0
      /\ Go(s, IF pc[s] = "chunk" THEN "finish" ELSE "endpart")
      /\ UNCHANGED <<kind, length, inbox, losses, remaining, wrote, unread, open, reports>>
  BY DEF LastChunk, Asked
<1>2. length[s] \in Nat /\ Len(wrote[s]) \in Nat /\ Size(length[s]) \in Nat
  <2>1. length[s] \in Nat /\ Len(wrote[s]) \in Nat
    BY <1>0 DEF Typed, TypeOK, HandlerAssumption
  <2> QED BY <2>1, SizeBounds
<1>3. reports[s] = <<>>
  BY <1>0, <1>1 DEF Local, Reported, Progress
<1>4. pc[s] = "chunk" => kind[s] = "bytes" /\ Len(wrote[s]) = Size(length[s])
  <2> SUFFICES ASSUME pc[s] = "chunk" PROVE kind[s] = "bytes" /\ Len(wrote[s]) = Size(length[s])
    OBVIOUS
  <2>1. kind[s] = "bytes" /\ Len(wrote[s]) <= Size(length[s]) /\ Left(length[s], Len(wrote[s])) = 0
    BY <1>0, <1>1 DEF Local, Progress
  <2> QED BY <1>2, <2>1, LastOne
<1>5. pc[s] = "body" => kind[s] = "download" /\ Len(wrote[s]) = Size(length[s]) + 2
  <2> SUFFICES ASSUME pc[s] = "body" PROVE kind[s] = "download" /\ Len(wrote[s]) = Size(length[s]) + 2
    OBVIOUS
  <2>1. /\ kind[s] = "download" /\ 2 <= Len(wrote[s]) /\ Len(wrote[s]) <= Size(length[s]) + 2
        /\ Left(length[s], Len(wrote[s]) - 2) = 0
    BY <1>0, <1>1 DEF Local, Progress
  <2>2. Len(wrote[s]) - 2 \in 0 .. Size(length[s])
    BY <1>2, <2>1
  <2>3. Len(wrote[s]) - 2 = Size(length[s])
    BY <1>2, <2>1, <2>2, LastOne
  <2> QED BY <1>2, <2>1, <2>3
<1>6. /\ pc' \in [Stream -> Running \cup {"new", "queued", "parked", "done"}]
      /\ pc'[s] = IF pc[s] = "chunk" THEN "finish" ELSE "endpart"
      /\ \A t \in Stream \ {s} : pc'[t] = pc[t]
  <2>1. (IF pc[s] = "chunk" THEN "finish" ELSE "endpart") \in Running \cup {"parked", "done"}
    BY DEF Running, Waiting
  <2> QED BY <1>0, <1>1, <2>1, GoTyped
<1>7. Types(s)
  BY <1>0, <1>1, <1>6 DEF Types, Typed, TypeOK
<1>8. Local(s)'
  <2>1. Begun(s)'
    BY <1>0, <1>1, BegunKept DEF Local
  <2>2. Progress(s)'
    BY <1>1, <1>4, <1>5, <1>6 DEF Progress
  <2>3. Reported(s)'
    BY <1>1, <1>3, <1>6 DEF Reported
  <2> QED BY <2>1, <2>2, <2>3 DEF Local
<1> QED BY <1>1, <1>7, <1>8, OneStream DEF Asked, Running, Waiting

(* The end of both benchmarks, which is reported once it is sent. *)
LEMMA FinishStep ==
  ASSUME NEW s \in Stream, IInv, Finish(s)
  PROVE  IInv'
<1>0. Typed /\ Local(s)
  BY DEF IInv, Handlers
<1>1. /\ pc[s] \in {"finish", "close"} /\ Written(s, "end") /\ Go(s, "done")
      /\ open' = open \ {s} /\ Report(s, length[s])
      /\ UNCHANGED <<kind, length, inbox, losses, remaining>>
  BY DEF Finish, Asked
<1> PICK n \in Nat : n = length[s]
  BY <1>0 DEF Typed, TypeOK, HandlerAssumption
<1> PICK m \in Nat : m = Size(n)
  BY SizeBounds
<1>2. /\ kind[s] \in {"bytes", "download"} /\ reports[s] = <<>>
      /\ pc[s] = "finish" => kind[s] = "bytes" /\ Len(wrote[s]) = m
      /\ pc[s] = "close" => kind[s] = "download" /\ Len(wrote[s]) = m + 3
  BY <1>0, <1>1 DEF Local, Progress, Reported
<1>3. /\ Len(AnswerOf(s)) = Len(wrote[s]) + 1
      /\ "end" = AnswerOf(s)[Len(wrote[s]) + 1]
  <2>1. CASE pc[s] = "finish"
    <3>1. AnswerOf(s) = Answer("bytes", n)
      BY <1>2, <2>1 DEF AnswerOf
    <3>2. Len(Answer("bytes", n)) = Size(n) + 1 /\ Answer("bytes", n)[Size(n) + 1] = "end"
      BY BytesAnswer
    <3> QED BY <1>2, <2>1, <3>1, <3>2
  <2>2. CASE pc[s] = "close"
    <3>1. AnswerOf(s) = Answer("download", n)
      BY <1>2, <2>2 DEF AnswerOf
    <3>2. Len(Answer("download", n)) = Size(n) + 4 /\ Answer("download", n)[Size(n) + 4] = "end"
      BY DownloadAnswer
    <3>3. Len(wrote[s]) + 1 = m + 4
      BY <1>2, <2>2
    <3> QED BY <3>1, <3>2, <3>3
  <2> QED BY <1>1, <2>1, <2>2
<1>4. Len(wrote[s]) \in Nat /\ Len(wrote[s]) < Len(AnswerOf(s)) /\ AnswerOf(s)' = AnswerOf(s)
  <2>1. Len(wrote[s]) \in Nat
    BY <1>0 DEF Typed
  <2> QED BY <1>1, <1>3, <2>1 DEF AnswerOf
<1>5. /\ wrote' \in [Stream -> Seq(Item)] /\ unread' \in [Stream -> 0 .. Window]
      /\ Len(wrote'[s]) = Len(wrote[s]) + 1
      /\ \A t \in Stream \ {s} : wrote'[t] = wrote[t]
      /\ Begun(s)'
  <2>1. "end" \in Item
    BY DEF Item
  <2> QED BY <1>0, <1>1, <1>3, <1>4, <2>1, WrittenInOrder DEF Local
<1>6. /\ pc' \in [Stream -> Running \cup {"new", "queued", "parked", "done"}]
      /\ pc'[s] = "done" /\ \A t \in Stream \ {s} : pc'[t] = pc[t]
  BY <1>0, <1>1, GoTyped
<1>7. /\ reports' \in [Stream -> Seq({"chat", "echo"} \cup Nat)]
      /\ Len(reports'[s]) = 1
      /\ \A t \in Stream \ {s} : reports'[t] = reports[t]
  BY <1>0, <1>1, <1>2, ReportsTyped
<1>8. Types(s)
  BY <1>0, <1>1, <1>5, <1>6, <1>7 DEF Types, Typed, TypeOK
<1>9. Local(s)'
  <2>1. Progress(s)'
    BY <1>6 DEF Progress
  <2>2. Len(wrote'[s]) = Len(AnswerOf(s)')
    BY <1>3, <1>4, <1>5
  <2>3. Reported(s)'
    BY <1>1, <1>2, <1>6, <1>7, <2>2 DEF Reported
  <2> QED BY <1>5, <2>1, <2>3 DEF Local
<1> QED BY <1>1, <1>2, <1>8, <1>9, OneStream DEF Asked, Running, Waiting

LEMMA FrameStep ==
  ASSUME NEW s \in Stream, IInv, SendFrame(s)
  PROVE  IInv'
<1>0. Typed /\ Local(s)
  BY DEF IInv, Handlers
<1>1. /\ Frame(s)
      /\ UNCHANGED <<kind, length, inbox, losses, remaining, open, reports>>
  BY DEF SendFrame, Asked
<1> PICK n \in Nat : n = length[s]
  BY <1>0 DEF Typed, TypeOK, HandlerAssumption
<1> PICK m \in Nat : m = Size(n)
  BY SizeBounds
<1>2. PICK item \in Item, to \in Running :
        /\ Written(s, item) /\ Go(s, to)
        /\ \/ pc[s] = "header" /\ item = "header" /\ to = "part"
           \/ pc[s] = "part" /\ item = "part" /\ to = "body"
           \/ pc[s] = "endpart" /\ item = "endpart" /\ to = "close"
  <2>1. {"header", "part", "endpart"} \subseteq Item /\ {"part", "body", "close"} \subseteq Running
    BY DEF Item, Running, Waiting
  <2> QED BY <1>1, <2>1 DEF Frame
<1>3. /\ kind[s] = "download" /\ reports[s] = <<>>
      /\ pc[s] = "header" => Len(wrote[s]) = 0 /\ remaining[s] = n
      /\ pc[s] = "part" => Len(wrote[s]) = 1 /\ remaining[s] = n
      /\ pc[s] = "endpart" => Len(wrote[s]) = m + 2
  BY <1>0, <1>2 DEF Local, Progress, Reported
<1>4. Len(wrote[s]) < Len(AnswerOf(s)) /\ item = AnswerOf(s)[Len(wrote[s]) + 1]
  <2>1. /\ AnswerOf(s) = Answer("download", n)
        /\ Len(Answer("download", n)) = Size(n) + 4
        /\ Answer("download", n)[1] = "header" /\ Answer("download", n)[2] = "part"
        /\ Answer("download", n)[Size(n) + 3] = "endpart"
    BY <1>3, DownloadAnswer DEF AnswerOf
  <2>2. CASE pc[s] = "header"
    BY <1>2, <1>3, <2>1, <2>2
  <2>3. CASE pc[s] = "part"
    <3>1. Len(wrote[s]) = 1 /\ item = "part" /\ 1 + 1 = 2 /\ 1 < m + 4
      BY <1>2, <1>3, <2>3
    <3> QED BY <2>1, <3>1
  <2>4. CASE pc[s] = "endpart"
    <3>1. m + 2 < m + 4 /\ m + 2 + 1 = m + 3
      OBVIOUS
    <3> QED BY <1>2, <1>3, <2>1, <2>4, <3>1
  <2> QED BY <1>2, <2>2, <2>3, <2>4
<1>5. /\ wrote' \in [Stream -> Seq(Item)] /\ unread' \in [Stream -> 0 .. Window]
      /\ Len(wrote'[s]) = Len(wrote[s]) + 1
      /\ \A t \in Stream \ {s} : wrote'[t] = wrote[t]
      /\ Begun(s)'
  BY <1>0, <1>1, <1>2, <1>4, WrittenInOrder DEF Local
<1>6. /\ pc' \in [Stream -> Running \cup {"new", "queued", "parked", "done"}]
      /\ pc'[s] = to /\ \A t \in Stream \ {s} : pc'[t] = pc[t]
  BY <1>0, <1>2, GoTyped
<1>7. Types(s)
  BY <1>0, <1>1, <1>5, <1>6 DEF Types, Typed, TypeOK
<1>8. Local(s)'
  <2>1. Progress(s)'
    <3>0. kind'[s] = "download" /\ length'[s] = n /\ remaining'[s] = remaining[s]
      BY <1>1, <1>3
    <3>1. CASE pc[s] = "header"
      <4>1. pc'[s] = "part" /\ Len(wrote'[s]) = 1
        BY <1>2, <1>3, <1>5, <1>6, <3>1
      <4> QED BY <1>3, <3>0, <3>1, <4>1 DEF Progress
    <3>2. CASE pc[s] = "part"
      <4>1. pc'[s] = "body" /\ Len(wrote'[s]) = 2
        <5>1. pc'[s] = "body" /\ Len(wrote[s]) = 1 /\ Len(wrote'[s]) = Len(wrote[s]) + 1
          BY <1>2, <1>3, <1>5, <1>6, <3>2
        <5>2. 1 + 1 = 2
          OBVIOUS
        <5> QED BY <5>1, <5>2
      <4>2. Left(n, 2 - 2) = n /\ 2 <= Size(n) + 2
        <5>1. Left(n, 0) = n /\ 2 - 2 = 0 /\ 2 <= m + 2
          BY LeftStart
        <5> QED BY <5>1
      <4> QED BY <1>3, <3>0, <3>2, <4>1, <4>2 DEF Progress
    <3>3. CASE pc[s] = "endpart"
      <4>1. pc'[s] = "close" /\ Len(wrote'[s]) = Size(n) + 3
        BY <1>2, <1>3, <1>5, <1>6, <3>3
      <4> QED BY <3>0, <4>1 DEF Progress
    <3> QED BY <1>2, <3>1, <3>2, <3>3
  <2>2. Reported(s)'
    BY <1>1, <1>3 DEF Reported
  <2> QED BY <1>5, <2>1, <2>2 DEF Local
<1>9. pc[s] \in Running
  BY <1>2 DEF Running, Waiting
<1> QED BY <1>1, <1>7, <1>8, <1>9, OneStream DEF Asked

(* A write that fails ends the handler with what it has written. *)
LEMMA FailStep ==
  ASSUME NEW s \in Stream, IInv, Fail(s)
  PROVE  IInv'
<1>0. Typed /\ Local(s)
  BY DEF IInv, Handlers
<1>1. /\ pc[s] \in Waiting /\ Go(s, IF pc[s] = "rate" THEN "parked" ELSE "done")
      /\ UNCHANGED <<kind, length, inbox, losses, remaining, wrote, unread, open, reports>>
  BY DEF Fail, Asked
<1>2. /\ pc' \in [Stream -> Running \cup {"new", "queued", "parked", "done"}]
      /\ pc'[s] = IF pc[s] = "rate" THEN "parked" ELSE "done"
      /\ \A t \in Stream \ {s} : pc'[t] = pc[t]
  BY <1>0, <1>1, GoTyped
<1>3. Types(s)
  BY <1>0, <1>1, <1>2 DEF Types, Typed, TypeOK
<1>4. Local(s)'
  <2>1. Begun(s)'
    BY <1>0, <1>1, BegunKept DEF Local
  <2>2. Progress(s)'
    BY <1>0, <1>1, <1>2 DEF Local, Progress
  <2>3. Reported(s)'
    <3>1. kind[s] = "chat" => pc[s] = "respond" /\ reports[s] = <<"chat">>
      BY <1>0, <1>1 DEF Local, Progress, Reported, Waiting
    <3>2. kind[s] # "chat" => reports[s] = <<>>
      BY <1>0, <1>1 DEF Local, Reported, Waiting
    <3> QED BY <1>1, <1>2, <3>1, <3>2 DEF Reported
  <2> QED BY <2>1, <2>2, <2>3 DEF Local
<1> QED BY <1>1, <1>3, <1>4, OneStream DEF Asked, Running

-----------------------------------------------------------------------------
THEOREM Inductive == IInv /\ [Next]_vars => IInv'
<1> SUFFICES ASSUME IInv, [Next]_vars PROVE IInv'
  OBVIOUS
<1>1. CASE UNCHANGED vars
  <2>1. Typed' /\ Queue' /\ Subscriptions'
    BY <1>1 DEF vars, IInv, Typed, TypeOK, Queue, Subscriptions, Rates
  <2>2. ASSUME NEW s \in Stream PROVE Local(s)'
    BY <1>1, LocalKept DEF vars, IInv, Handlers
  <2> QED BY <2>1, <2>2 DEF IInv, Handlers
<1>2. CASE Serve
  BY <1>2, ServeStep
<1>3. CASE SessionLost
  BY <1>3, LossStep
<1>4. ASSUME NEW s \in Stream, Open(s) \/ DeviceReads(s) \/ DeviceResets(s)
      PROVE  IInv'
  BY <1>4, OpenStep, ReadStep, ResetStep
<1>5. ASSUME NEW s \in Stream, HandlerStep(s) PROVE IInv'
  BY <1>5, BeginStep, RespondStep, RateStep, ChunkStep, LastStep, FinishStep, FrameStep,
     FailStep DEF HandlerStep
<1> QED BY <1>1, <1>2, <1>3, <1>4, <1>5 DEF Next

THEOREM HandlersInv == Spec => []IInv
BY Start, Inductive, PTL DEF Spec

(* Every variable has its type: no stream holds more than its window unread. *)
THEOREM TypeCorrect == Spec => []TypeOK
<1>1. IInv => TypeOK
  BY DEF IInv, Typed
<1> QED BY <1>1, HandlersInv, PTL

(***************************************************************************)
(* What a device reads of a stream is the beginning of the answer to its   *)
(* request, whatever length it asks for.                                   *)
(***************************************************************************)
THEOREM AnswersOrdered == Spec => []AnswersInOrder
<1>1. IInv => AnswersInOrder
  <2> SUFFICES ASSUME IInv, NEW s \in Stream
               PROVE  IsPrefixOf(wrote[s], Answer(kind[s], length[s]))
    BY DEF AnswersInOrder
  <2> DEFINE w == wrote[s]
             a == Answer(kind[s], length[s])
  <2>1. w \in Seq(Item) /\ a \in Seq(Item)
    BY AnswerLength DEF IInv, Typed, TypeOK, HandlerAssumption
  <2>2. Len(w) <= Len(a) /\ \A i \in 1 .. Len(w) : w[i] = a[i]
    BY DEF IInv, Handlers, Local, Begun, AnswerOf
  <2> HIDE DEF w, a
  <2>3. Len(w) \in 0 .. Len(a)
    BY <2>1, <2>2
  <2>4. w = SubSeq(a, 1, Len(w))
    BY <2>1, <2>2, <2>3, Beginning
  <2> USE DEF w, a
  <2> QED BY <2>2, <2>4 DEF IsPrefixOf
<1> QED BY <1>1, HandlersInv, PTL

(***************************************************************************)
(* A completion is published once, for an answer sent to its end, and a    *)
(* chat before it is acknowledged.                                         *)
(***************************************************************************)
THEOREM ReportsHold == Spec => []ReportsTrue
<1>1. IInv => ReportsTrue
  <2> SUFFICES ASSUME IInv, NEW s \in Stream
               PROVE  /\ Len(reports[s]) <= 1
                      /\ reports[s] # <<>> /\ kind[s] # "chat" => wrote[s] = Answer(kind[s], length[s])
                      /\ wrote[s] # <<>> /\ kind[s] = "chat" => reports[s] = <<"chat">>
    BY DEF ReportsTrue
  <2>0. Typed /\ Local(s)
    BY DEF IInv, Handlers
  <2>1. Len(reports[s]) <= 1
    <3>1. reports[s] = <<"chat">> \/ reports[s] = <<>> \/ Len(reports[s]) = 1
      BY <2>0 DEF Local, Reported
    <3>2. CASE reports[s] = <<"chat">>
      BY <3>2
    <3>3. CASE reports[s] = <<>>
      BY <3>3
    <3>4. CASE Len(reports[s]) = 1
      BY <3>4
    <3> QED BY <3>1, <3>2, <3>3, <3>4
  <2>2. ASSUME reports[s] # <<>>, kind[s] # "chat" PROVE wrote[s] = Answer(kind[s], length[s])
    <3>1. wrote[s] \in Seq(Item) /\ AnswerOf(s) \in Seq(Item)
      BY <2>0, AnswerLength DEF Typed, TypeOK, AnswerOf, HandlerAssumption
    <3>2. Len(wrote[s]) = Len(AnswerOf(s))
      BY <2>0, <2>2 DEF Local, Reported
    <3>3. \A i \in 1 .. Len(wrote[s]) : wrote[s][i] = AnswerOf(s)[i]
      BY <2>0 DEF Local, Begun
    <3>4. wrote[s] = AnswerOf(s)
      BY <3>1, <3>2, <3>3, SeqEqual
    <3> QED BY <3>4 DEF AnswerOf
  <2>3. ASSUME wrote[s] # <<>>, kind[s] = "chat" PROVE reports[s] = <<"chat">>
    <3>1. Len(wrote[s]) # 0
      BY <2>0, <2>3 DEF Typed
    <3>2. pc[s] \in {"respond", "done"}
      BY <2>0, <2>3, <3>1 DEF Typed, TypeOK, Running, Waiting, Local, Progress
    <3> QED BY <2>0, <2>3, <3>2 DEF Local, Reported
  <2> QED BY <2>1, <2>2, <2>3
<1> QED BY <1>1, HandlersInv, PTL

(***************************************************************************)
(* However often the device wants a rate, it opens one subscription, and   *)
(* one more at most for every session it loses.                            *)
(***************************************************************************)
THEOREM StormBounded == Spec => []NoStorm
<1>1. IInv => NoStorm
  <2> SUFFICES ASSUME IInv PROVE Cardinality(Rates) <= losses + 1
    BY DEF NoStorm, Rates
  <2>1. Cardinality(Rates) \in Nat /\ losses \in Nat
    BY FS_CardinalityType DEF IInv, Subscriptions, Typed, TypeOK, HandlerAssumption
  <2> QED BY <2>1 DEF IInv, Subscriptions
<1> QED BY <1>1, HandlersInv, PTL

================================================================================
