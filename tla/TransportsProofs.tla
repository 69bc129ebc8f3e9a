---------------------------- MODULE TransportsProofs ----------------------------
(***************************************************************************)
(* What holds of Transports for any records, window, slots and number of   *)
(* bad frames.  First the link alone, for any division of the records into *)
(* frames.  The chunks of a record are neighbours on the wire.  So of the  *)
(* record being read every good chunk is in the dechunker, what a full     *)
(* dechunker gives up belongs to records with a bad frame, and a record    *)
(* that was read to its end without one has come out.                      *)
(*                                                                         *)
(* Then the two programs: each moves the link by the steps of FramedLink   *)
(* alone, so its connection is a pipe of records in each direction; and    *)
(* where the v1 client is says what it has read and sent.                  *)
(***************************************************************************)
EXTENDS Transports, TLAPS

NewestOf(d) == IF delivered[d] = <<>> THEN 0 ELSE delivered[d][Len(delivered[d])]

(* No frame before its record is handed over, and every record has frames. *)
FramesFounded(d) ==
  /\ \A k \in 1 .. written[d] : Plan[d][k] <= emitted[d]
  /\ \A r \in 1 .. emitted[d] : FramesOf(d, r) # {}
  /\ bad[d] \subseteq 1 .. written[d]

(* The good chunks of a record still to come are all in the dechunker. *)
PartialKept(d) ==
  /\ partial[d] \subseteq (1 .. read[d]) \ bad[d]
  /\ \A k \in (1 .. read[d]) \ bad[d] :
       (\E j \in FramesOf(d, Plan[d][k]) : j > read[d]) => k \in partial[d]

(* A record read to its end without a bad frame is no longer missing. *)
WholeCame(d) ==
  \A k \in 1 .. read[d] :
    (\A j \in FramesOf(d, Plan[d][k]) : j <= read[d] /\ j \notin bad[d])
      => Plan[d][k] <= NewestOf(d)

(* And a record that came out was read to its end without one. *)
CameWhole(d) ==
  \A i \in 1 .. Len(delivered[d]) :
    /\ delivered[d][i] <= NewestOf(d)
    /\ FramesOf(d, delivered[d][i]) # {}
    /\ \A j \in FramesOf(d, delivered[d][i]) : j <= read[d] /\ j \notin bad[d]

DirInv(d) == FramesFounded(d) /\ PartialKept(d) /\ WholeCame(d) /\ CameWhole(d)

LinkInv == \A d \in Direction : DirInv(d)

(* What moves on a link, as against whether its ends live. *)
linkData == <<emitted, written, bad, read, partial, delivered>>

DataType ==
  /\ emitted \in [Direction -> Nat]
  /\ written \in [Direction -> Nat] /\ read \in [Direction -> Nat]
  /\ \A d \in Direction : read[d] <= written[d] /\ written[d] <= Len(Plan[d])
  /\ bad \in [Direction -> SUBSET (Nat \ {0})]
  /\ partial \in [Direction -> SUBSET (Nat \ {0})]
  /\ delivered \in [Direction -> Seq(Nat \ {0})]

DataStep(d) == Emit(d) \/ WriteFrame(d) \/ SkipFrame(d) \/ Complete(d) \/ Keep(d)

-----------------------------------------------------------------------------
LEMMA PlanType ==
  ASSUME NEW d \in Direction
  PROVE  /\ Plan[d] \in Seq(Nat \ {0}) /\ Len(Plan[d]) \in Nat
         /\ \A k \in 1 .. Len(Plan[d]) : Plan[d][k] \in Nat \ {0}
         /\ \A j, k \in 1 .. Len(Plan[d]) : j <= k => Plan[d][j] <= Plan[d][k]
BY LinkAssumption

(* The counts alone, for the steps that only do arithmetic with them. *)
LEMMA Counts ==
  ASSUME DataType, NEW d \in Direction
  PROVE  /\ emitted[d] \in Nat /\ written[d] \in Nat /\ read[d] \in Nat /\ Len(Plan[d]) \in Nat
         /\ read[d] <= written[d] /\ written[d] <= Len(Plan[d])
BY PlanType DEF DataType

LEMMA ValueTypes ==
  ASSUME DataType, NEW d \in Direction
  PROVE  /\ emitted[d] \in Nat /\ written[d] \in Nat /\ read[d] \in Nat
         /\ read[d] <= written[d] /\ written[d] <= Len(Plan[d])
         /\ bad[d] \subseteq Nat \ {0} /\ partial[d] \subseteq Nat \ {0}
         /\ delivered[d] \in Seq(Nat \ {0}) /\ Len(delivered[d]) \in Nat
         /\ \A i \in 1 .. Len(delivered[d]) : delivered[d][i] \in Nat \ {0}
         /\ NewestOf(d) \in Nat
<1>1. delivered[d] \in Seq(Nat \ {0})
  BY DEF DataType
<1>2. Len(delivered[d]) \in Nat /\ \A i \in 1 .. Len(delivered[d]) : delivered[d][i] \in Nat \ {0}
  BY <1>1
<1>3. delivered[d] # <<>> => Len(delivered[d]) \in 1 .. Len(delivered[d])
  BY <1>1
<1>4. NewestOf(d) \in Nat
  BY <1>2, <1>3 DEF NewestOf
<1> QED
  BY <1>1, <1>2, <1>4 DEF DataType

(* A direction on which nothing moves. *)
LEMMA Still ==
  ASSUME NEW d \in Direction, emitted'[d] = emitted[d], written'[d] = written[d],
         bad'[d] = bad[d], read'[d] = read[d], partial'[d] = partial[d],
         delivered'[d] = delivered[d]
  PROVE  /\ DirInv(d) => DirInv(d)'
         /\ Lost(d)' = Lost(d)
BY DEF DirInv, FramesFounded, PartialKept, WholeCame, CameWhole, NewestOf, FramesOf, Lost, Damaged

LEMMA OneDirection ==
  ASSUME DataType, NEW d \in Direction, DataStep(d), NEW c \in Direction \ {d}
  PROVE  /\ emitted'[c] = emitted[c] /\ written'[c] = written[c] /\ bad'[c] = bad[c]
         /\ read'[c] = read[c] /\ partial'[c] = partial[c] /\ delivered'[c] = delivered[c]
BY DEF DataType, DataStep, Emit, WriteFrame, SkipFrame, Complete, Keep

-----------------------------------------------------------------------------
(* The newest record that came out is over when a frame is still to be read. *)
LEMMA NextIsNewer ==
  ASSUME DataType, NEW d \in Direction, DirInv(d),
         NEW k \in 1 .. Len(Plan[d]), k > read[d]
  PROVE  NewestOf(d) < Plan[d][k]
<1>1. CASE delivered[d] = <<>>
  BY <1>1, PlanType DEF NewestOf
<1>2. CASE delivered[d] # <<>>
  <2>1. /\ Len(delivered[d]) \in 1 .. Len(delivered[d])
        /\ NewestOf(d) = delivered[d][Len(delivered[d])]
    BY <1>2, ValueTypes DEF NewestOf
  <2>2. /\ FramesOf(d, NewestOf(d)) # {}
        /\ \A j \in FramesOf(d, NewestOf(d)) : j <= read[d]
    BY <2>1 DEF DirInv, CameWhole
  <2>3. PICK j \in 1 .. Len(Plan[d]) : Plan[d][j] = NewestOf(d) /\ j <= read[d]
    BY <2>2 DEF FramesOf
  <2>4. NewestOf(d) <= Plan[d][k]
    BY <2>3, PlanType, ValueTypes
  <2>5. NewestOf(d) # Plan[d][k]
    BY <2>2, ValueTypes DEF FramesOf
  <2> QED
    BY <2>4, <2>5, PlanType, ValueTypes
<1> QED
  BY <1>1, <1>2

LEMMA EmitKeeps ==
  ASSUME DataType, NEW d \in Direction, DirInv(d), Emit(d)
  PROVE  /\ DirInv(d)'
         /\ emitted'[d] = emitted[d] + 1 /\ Lost(d)' = Lost(d) /\ delivered'[d] = delivered[d]
<1>1. /\ emitted'[d] = emitted[d] + 1 /\ FramesOf(d, emitted[d] + 1) # {}
      /\ UNCHANGED <<written, bad, read, partial, delivered>>
  BY DEF Emit, DataType
<1>2. FramesFounded(d)'
  <2>1. \A r \in 1 .. emitted'[d] : r \in 1 .. emitted[d] \/ r = emitted[d] + 1
    BY <1>1, ValueTypes
  <2>2. \A k \in 1 .. written[d] : Plan[d][k] <= emitted'[d]
    BY <1>1, ValueTypes, PlanType DEF DirInv, FramesFounded
  <2> QED
    BY <1>1, <2>1, <2>2 DEF DirInv, FramesFounded, FramesOf
<1>3. PartialKept(d)' /\ WholeCame(d)' /\ CameWhole(d)'
  BY <1>1 DEF DirInv, PartialKept, WholeCame, CameWhole, NewestOf, FramesOf
<1>4. ~ Damaged(d, emitted[d] + 1)
  BY ValueTypes, PlanType DEF DirInv, FramesFounded, Damaged, FramesOf
<1>5. Lost(d)' = Lost(d)
  <2>1. 1 .. emitted'[d] = (1 .. emitted[d]) \cup {emitted[d] + 1}
    BY <1>1, ValueTypes
  <2> QED
    BY <1>1, <1>4, <2>1 DEF Lost, Damaged, FramesOf
<1> QED
  BY <1>1, <1>2, <1>3, <1>5 DEF DirInv

LEMMA WriteFrameKeeps ==
  ASSUME DataType, NEW d \in Direction, DirInv(d), WriteFrame(d)
  PROVE  /\ DirInv(d)'
         /\ emitted'[d] = emitted[d] /\ delivered'[d] = delivered[d]
         /\ \/ Lost(d)' = Lost(d)
            \/ \E r \in NewestOf(d) + 1 .. emitted[d] : Lost(d)' = Lost(d) \cup {r}
<1> DEFINE w == written[d] + 1
<1>1. /\ w \in 1 .. Len(Plan[d]) /\ Plan[d][w] <= emitted[d]
      /\ written'[d] = w /\ UNCHANGED <<emitted, read, partial, delivered>>
      /\ bad'[d] = bad[d] \/ bad'[d] = bad[d] \cup {w}
  <2>1. w \in 1 .. Len(Plan[d]) /\ Plan[d][w] <= emitted[d]
    BY ValueTypes, PlanType DEF WriteFrame, HasFrame
  <2>2. written'[d] = w /\ UNCHANGED <<emitted, read, partial, delivered>>
    BY DEF WriteFrame, DataType
  <2>3. bad'[d] = bad[d] \/ bad'[d] = bad[d] \cup {w}
    BY DEF WriteFrame, DataType
  <2> QED
    BY <2>1, <2>2, <2>3
<1>2. FramesFounded(d)'
  <2>1. \A k \in 1 .. w : k \in 1 .. written[d] \/ k = w
    BY Counts
  <2>2. 1 .. written[d] \subseteq 1 .. w /\ w \in 1 .. w
    BY Counts
  <2> QED
    BY <1>1, <2>1, <2>2 DEF DirInv, FramesFounded, FramesOf
<1>3. \A k \in 1 .. read[d] : k # w /\ (k \in bad'[d] <=> k \in bad[d])
  BY <1>1, Counts
<1>4. PartialKept(d)'
  BY <1>1, <1>3 DEF DirInv, PartialKept, FramesOf
<1>5. WholeCame(d)'
  BY <1>1 DEF DirInv, WholeCame, NewestOf, FramesOf
<1>6. CameWhole(d)'
  <2>1. \A r : \A j \in FramesOf(d, r) : j <= read[d] => j # w
    BY ValueTypes DEF FramesOf
  <2> QED
    <3> SUFFICES ASSUME NEW i \in 1 .. Len(delivered[d])
        PROVE  /\ delivered[d][i] <= NewestOf(d)
               /\ FramesOf(d, delivered[d][i]) # {}
               /\ \A j \in FramesOf(d, delivered[d][i]) : j <= read[d] /\ j \notin bad'[d]
      BY <1>1 DEF CameWhole, NewestOf, FramesOf
    <3>1. /\ delivered[d][i] <= NewestOf(d)
          /\ FramesOf(d, delivered[d][i]) # {}
          /\ \A j \in FramesOf(d, delivered[d][i]) : j <= read[d] /\ j \notin bad[d]
      BY DEF DirInv, CameWhole
    <3> QED
      BY <1>1, <2>1, <3>1
<1>7. CASE bad'[d] = bad[d]
  BY <1>1, <1>2, <1>4, <1>5, <1>6, <1>7 DEF DirInv, Lost, Damaged, FramesOf
<1>8. CASE bad'[d] = bad[d] \cup {w}
  <2>1. w > read[d]
    BY ValueTypes
  <2>2. Plan[d][w] \in NewestOf(d) + 1 .. emitted[d]
    BY <1>1, <2>1, NextIsNewer, ValueTypes, PlanType
  <2>3. \A r : Damaged(d, r)' <=> Damaged(d, r) \/ r = Plan[d][w]
    BY <1>1, <1>8 DEF Damaged, FramesOf
  <2>4. Plan[d][w] \in 1 .. emitted[d]
    BY <1>1, PlanType, ValueTypes
  <2>5. Lost(d)' = Lost(d) \cup {Plan[d][w]}
    BY <1>1, <2>3, <2>4 DEF Lost
  <2> QED
    BY <1>1, <1>2, <1>4, <1>5, <1>6, <2>2, <2>5 DEF DirInv
<1> QED
  BY <1>1, <1>7, <1>8

(* The frame that is read is there. *)
LEMMA FrameRead ==
  ASSUME DataType, NEW d \in Direction, Readable(d), read' = [read EXCEPT ![d] = @ + 1]
  PROVE  /\ Frame(d) = read[d] + 1 /\ read'[d] = Frame(d)
         /\ Frame(d) \in 1 .. written[d] /\ Frame(d) \in 1 .. Len(Plan[d])
         /\ Frame(d) > read[d]
         /\ \A k \in 1 .. Frame(d) : k \in 1 .. read[d] \/ k = Frame(d)
         /\ 1 .. read[d] \subseteq 1 .. Frame(d) /\ Frame(d) \in 1 .. Frame(d)
         /\ RecordOf(d) = Plan[d][Frame(d)] /\ RecordOf(d) \in Nat \ {0}
         /\ Frame(d) \in FramesOf(d, RecordOf(d))
<1>1. Frame(d) = read[d] + 1 /\ read'[d] = Frame(d)
  BY DEF Frame, DataType
<1>2. Frame(d) \in 1 .. written[d] /\ Frame(d) \in 1 .. Len(Plan[d])
  BY <1>1, ValueTypes, PlanType DEF Readable
<1>3. RecordOf(d) = Plan[d][Frame(d)] /\ RecordOf(d) \in Nat \ {0}
  BY <1>2, PlanType DEF RecordOf
<1>4. Frame(d) \in FramesOf(d, RecordOf(d))
  BY <1>2, <1>3 DEF FramesOf
<1> QED
  BY <1>1, <1>2, <1>3, <1>4, ValueTypes

LEMMA SkipFrameKeeps ==
  ASSUME DataType, NEW d \in Direction, DirInv(d), SkipFrame(d)
  PROVE  /\ DirInv(d)'
         /\ emitted'[d] = emitted[d] /\ delivered'[d] = delivered[d] /\ Lost(d)' = Lost(d)
<1> DEFINE f == Frame(d)
<1>1. /\ read' = [read EXCEPT ![d] = @ + 1] /\ Readable(d)
      /\ UNCHANGED <<emitted, written, bad, partial, delivered>>
  BY DEF SkipFrame
<1>2. f \in bad[d]
  BY DEF SkipFrame, Frame
<1>3. FramesFounded(d)' /\ Lost(d)' = Lost(d)
  BY <1>1 DEF DirInv, FramesFounded, FramesOf, Lost, Damaged
<1>4. (1 .. read'[d]) \ bad[d] = (1 .. read[d]) \ bad[d]
  BY <1>1, <1>2, FrameRead
<1>5. PartialKept(d)'
  <2>1. \A j \in Nat : j > read'[d] => j > read[d]
    BY <1>1, FrameRead, ValueTypes
  <2> QED
    <3> SUFFICES ASSUME NEW k \in (1 .. read[d]) \ bad[d],
                        NEW j \in FramesOf(d, Plan[d][k]), j > read'[d]
        PROVE  k \in partial[d]
      BY <1>1, <1>4 DEF DirInv, PartialKept, FramesOf
    <3>1. j > read[d]
      BY <2>1 DEF FramesOf
    <3> QED
      BY <3>1 DEF DirInv, PartialKept
<1>6. \A r : \A j \in FramesOf(d, r) : j <= read'[d] /\ j \notin bad[d] => j <= read[d]
  <2>1. \A j \in Nat : j <= f /\ j # f => j <= read[d]
    <3>1. read[d] \in Nat /\ f = read[d] + 1
      BY ValueTypes DEF Frame
    <3> QED
      BY <3>1
  <2>2. read'[d] = f
    BY <1>1, FrameRead
  <2> QED
    BY <1>2, <2>1, <2>2, PlanType DEF FramesOf
<1>7. WholeCame(d)'
  <2> SUFFICES ASSUME NEW k \in 1 .. read'[d],
                      \A j \in FramesOf(d, Plan[d][k]) : j <= read'[d] /\ j \notin bad[d]
      PROVE  Plan[d][k] <= NewestOf(d)
    BY <1>1 DEF WholeCame, NewestOf, FramesOf
  <2>1. k # f
    BY <1>1, <1>2, FrameRead
  <2>2. k \in 1 .. read[d]
    BY <1>1, <2>1, FrameRead
  <2> QED
    BY <1>6, <2>2 DEF DirInv, WholeCame
<1>8. CameWhole(d)'
  <2>1. \A j \in Nat : j <= read[d] => j <= read'[d]
    BY <1>1, FrameRead, ValueTypes
  <2> QED
    BY <1>1, <2>1, PlanType DEF DirInv, CameWhole, NewestOf, FramesOf
<1> QED
  BY <1>1, <1>3, <1>5, <1>7, <1>8 DEF DirInv

LEMMA CompleteKeeps ==
  ASSUME DataType, NEW d \in Direction, DirInv(d), Complete(d)
  PROVE  /\ DirInv(d)'
         /\ emitted'[d] = emitted[d] /\ Lost(d)' = Lost(d)
         /\ \E r \in (NewestOf(d) + 1 .. emitted[d]) \ Lost(d) :
              /\ NewestOf(d) + 1 .. r - 1 \subseteq Lost(d)
              /\ delivered'[d] = Append(delivered[d], r)
<1> DEFINE f == Frame(d)
           R == RecordOf(d)
<1>1. /\ read' = [read EXCEPT ![d] = @ + 1] /\ Readable(d)
      /\ UNCHANGED <<emitted, written, bad>> /\ f \notin bad[d]
  BY DEF Complete, Decoded
<1>2. /\ partial'[d] = partial[d] \ FramesOf(d, R)
      /\ delivered'[d] = Append(delivered[d], R)
  BY DEF Complete, DataType
<1>3. /\ f \in 1 .. written[d] /\ f \in 1 .. Len(Plan[d]) /\ f > read[d] /\ read'[d] = f
      /\ R = Plan[d][f] /\ R \in Nat \ {0} /\ f \in FramesOf(d, R)
      /\ f = read[d] + 1 /\ read[d] \in Nat
  BY <1>1, FrameRead, ValueTypes
<1>4. \A k \in 1 .. f : k \in 1 .. read[d] \/ k = f
  BY <1>1, FrameRead
<1>5. \A j \in FramesOf(d, R) : j \in 1 .. f /\ j \notin bad[d]
  <2>1. FramesOf(d, R) \subseteq partial[d] \cup {f}
    BY DEF Complete, Completes
  <2>2. partial[d] \subseteq 1 .. f /\ partial[d] \cap bad[d] = {} /\ f \in 1 .. f
    BY <1>1, FrameRead DEF DirInv, PartialKept
  <2> QED
    BY <1>1, <2>1, <2>2
<1>6. NewestOf(d) < R /\ R <= emitted[d]
  BY <1>3, NextIsNewer DEF DirInv, FramesFounded
<1>7. FramesFounded(d)' /\ Lost(d)' = Lost(d)
  BY <1>1 DEF DirInv, FramesFounded, FramesOf, Lost, Damaged
<1>8. PartialKept(d)'
  <2>1. partial'[d] \subseteq (1 .. f) \ bad[d]
    BY <1>1, <1>2, FrameRead DEF DirInv, PartialKept
  <2>2. ASSUME NEW k \in (1 .. f) \ bad[d], NEW j \in FramesOf(d, Plan[d][k]), j > f
        PROVE  k \in partial'[d]
    <3>1. Plan[d][k] # R
      BY <1>3, <1>5, <2>2
    <3>2. k \in 1 .. read[d] /\ j > read[d]
      BY <1>3, <1>4, <2>2, <3>1 DEF FramesOf
    <3>3. k \in partial[d]
      BY <3>2 DEF DirInv, PartialKept
    <3> QED
      BY <1>2, <3>1, <3>3 DEF FramesOf
  <2> QED
    BY <1>1, <1>3, <2>1, <2>2 DEF PartialKept, FramesOf
<1>9. Len(delivered'[d]) = Len(delivered[d]) + 1 /\ NewestOf(d)' = R
  <2>1. delivered[d] \in Seq(Nat \ {0}) /\ R \in Nat \ {0}
    BY <1>3, ValueTypes
  <2> DEFINE longer == Append(delivered[d], R)
  <2>2. Len(longer) = Len(delivered[d]) + 1 /\ longer # <<>> /\ longer[Len(longer)] = R
    BY <2>1
  <2>3. NewestOf(d)' = IF longer = <<>> THEN 0 ELSE longer[Len(longer)]
    BY <1>2 DEF NewestOf
  <2> QED
    BY <1>2, <2>2, <2>3
<1>10. WholeCame(d)'
  <2>1. \A k \in 1 .. f : Plan[d][k] <= R
    <3>1. \A k \in 1 .. f : k \in 1 .. Len(Plan[d]) /\ k <= f
      BY <1>3, PlanType
    <3> QED
      BY <1>3, <3>1, PlanType
  <2> QED
    BY <1>1, <1>3, <1>9, <2>1 DEF WholeCame, FramesOf
<1>11. CameWhole(d)'
  <2> SUFFICES ASSUME NEW i \in 1 .. Len(delivered'[d])
      PROVE  /\ delivered'[d][i] <= R
             /\ FramesOf(d, delivered'[d][i]) # {}
             /\ \A j \in FramesOf(d, delivered'[d][i]) : j <= f /\ j \notin bad[d]
    BY <1>1, <1>3, <1>9 DEF CameWhole, FramesOf
  <2>1. CASE i \in 1 .. Len(delivered[d])
    <3>1. delivered'[d][i] = delivered[d][i] /\ delivered[d][i] \in Nat
      BY <1>2, <1>3, <2>1, ValueTypes
    <3>2. /\ delivered[d][i] <= NewestOf(d)
          /\ FramesOf(d, delivered[d][i]) # {}
          /\ \A j \in FramesOf(d, delivered[d][i]) : j <= read[d] /\ j \notin bad[d]
      BY <2>1 DEF DirInv, CameWhole
    <3>3. delivered[d][i] <= R
      <4>1. delivered[d][i] \in Nat /\ NewestOf(d) \in Nat /\ R \in Nat
        BY <1>3, <3>1, ValueTypes
      <4>2. delivered[d][i] <= NewestOf(d) /\ NewestOf(d) < R
        BY <1>6, <3>2
      <4> QED
        BY <4>1, <4>2
    <3>4. \A j \in FramesOf(d, delivered[d][i]) : j <= f
      BY <1>3, <3>2 DEF FramesOf
    <3> QED
      BY <3>1, <3>2, <3>3, <3>4
  <2>2. CASE i = Len(delivered[d]) + 1
    <3>1. delivered'[d][i] = R
      BY <1>2, <1>3, <2>2, ValueTypes
    <3> QED
      BY <1>3, <1>5, <3>1
  <2> QED
    BY <1>9, <2>1, <2>2, ValueTypes
<1>12. R \notin Lost(d)
  BY <1>5 DEF Lost, Damaged
(* The records in between had bad frames, else they had come out. *)
<1>13. ASSUME NEW s \in NewestOf(d) + 1 .. R - 1 PROVE s \in Lost(d)
  <2>1. s \in 1 .. emitted[d] /\ s < R /\ s > NewestOf(d) /\ s \in Nat
    <3>1. NewestOf(d) \in Nat /\ R \in Nat /\ emitted[d] \in Nat
      BY <1>3, ValueTypes
    <3> QED
      BY <1>6, <3>1
  <2>2. PICK k \in 1 .. Len(Plan[d]) : Plan[d][k] = s
    BY <2>1 DEF DirInv, FramesFounded, FramesOf
  <2>3. \A j \in FramesOf(d, s) : j \in 1 .. read[d]
    <3> SUFFICES ASSUME NEW j \in FramesOf(d, s) PROVE j \in 1 .. read[d]
      OBVIOUS
    <3>1. j \in 1 .. Len(Plan[d]) /\ Plan[d][j] = s
      BY DEF FramesOf
    <3>2. ~ (f <= j)
      <4>1. f <= j => R <= s
        BY <1>3, <3>1, PlanType
      <4>2. R \in Nat /\ s \in Nat /\ s < R
        BY <1>3, <2>1
      <4> QED
        BY <4>1, <4>2
    <3> QED
      BY <1>3, <3>1, <3>2
  <2>4. CASE \A j \in FramesOf(d, s) : j \notin bad[d]
    <3>1. k \in 1 .. read[d]
      BY <2>2, <2>3 DEF FramesOf
    <3>2. s <= NewestOf(d)
      BY <2>2, <2>3, <2>4, <3>1 DEF DirInv, WholeCame
    <3> QED
      BY <2>1, <3>2, ValueTypes
  <2> QED
    BY <2>1, <2>4 DEF Lost, Damaged
<1>14. R \in (NewestOf(d) + 1 .. emitted[d]) \ Lost(d)
  BY <1>3, <1>6, <1>12, ValueTypes
<1> QED
  BY <1>1, <1>2, <1>7, <1>8, <1>10, <1>11, <1>13, <1>14 DEF DirInv

LEMMA KeepKeeps ==
  ASSUME DataType, NEW d \in Direction, DirInv(d), Keep(d)
  PROVE  /\ DirInv(d)'
         /\ emitted'[d] = emitted[d] /\ delivered'[d] = delivered[d] /\ Lost(d)' = Lost(d)
<1> DEFINE f == Frame(d)
           R == RecordOf(d)
<1>1. /\ read' = [read EXCEPT ![d] = @ + 1] /\ Readable(d)
      /\ UNCHANGED <<emitted, written, bad, delivered>> /\ f \notin bad[d]
  BY DEF Keep, Decoded
<1>2. \/ partial'[d] = partial[d] \cup {f}
      \/ \E v \in Others(d) : partial'[d] = (partial[d] \ FramesOf(d, v)) \cup {f}
  BY DEF Keep, DataType
<1>3. /\ f \in 1 .. Len(Plan[d]) /\ f > read[d] /\ read'[d] = f
      /\ R = Plan[d][f] /\ R \in Nat \ {0} /\ f \in FramesOf(d, R)
      /\ f = read[d] + 1 /\ read[d] \in Nat
  BY <1>1, FrameRead, ValueTypes
<1>4. \A k \in 1 .. f : k \in 1 .. read[d] \/ k = f
  BY <1>1, FrameRead
<1>5. FramesFounded(d)' /\ Lost(d)' = Lost(d)
  BY <1>1 DEF DirInv, FramesFounded, FramesOf, Lost, Damaged
<1>6. PartialKept(d)'
  <2>1. partial[d] \subseteq (1 .. f) \ bad[d] /\ f \in (1 .. f) \ bad[d]
    BY <1>1, FrameRead DEF DirInv, PartialKept
  <2>2. partial'[d] \subseteq (1 .. f) \ bad[d]
    BY <1>2, <2>1
  <2>3. ASSUME NEW k \in (1 .. f) \ bad[d], NEW j \in FramesOf(d, Plan[d][k]), j > f
        PROVE  k \in partial'[d]
    <3>1. CASE k = f
      BY <1>2, <3>1
    <3>2. CASE k # f
      <4>1. k \in 1 .. read[d] /\ j > read[d]
        BY <1>3, <1>4, <2>3, <3>2 DEF FramesOf
      <4>2. k \in partial[d]
        BY <4>1 DEF DirInv, PartialKept
      <4>3. Plan[d][k] = R
        <5>1. j \in 1 .. Len(Plan[d]) /\ Plan[d][j] = Plan[d][k]
          BY DEF FramesOf
        <5>2. k \in 1 .. Len(Plan[d]) /\ k <= f /\ f <= j
          BY <1>3, <2>3, <4>1, <5>1, Counts
        <5>3. Plan[d][k] <= R /\ R <= Plan[d][k] /\ Plan[d][k] \in Nat
          BY <1>3, <5>1, <5>2, PlanType
        <5> QED
          BY <1>3, <5>3
      <4> QED
        BY <1>2, <4>2, <4>3 DEF Others, FramesOf
    <3> QED
      BY <3>1, <3>2
  <2> QED
    BY <1>1, <1>3, <2>2, <2>3 DEF PartialKept, FramesOf
(* The record being read is not over: its earlier chunks are all there. *)
<1>7. ~ \A j \in FramesOf(d, R) : j <= f /\ j \notin bad[d]
  <2> SUFFICES ASSUME \A j \in FramesOf(d, R) : j <= f /\ j \notin bad[d] PROVE Completes(d)
    BY DEF Keep
  <2>1. ASSUME NEW j \in FramesOf(d, R), j # f PROVE j \in partial[d]
    <3>1. j \in (1 .. read[d]) \ bad[d] /\ Plan[d][j] = R
      BY <1>3, <2>1 DEF FramesOf
    <3> QED
      BY <1>3, <3>1 DEF DirInv, PartialKept
  <2> QED
    BY <2>1 DEF Completes
<1>8. WholeCame(d)'
  <2> SUFFICES ASSUME NEW k \in 1 .. f,
                      \A j \in FramesOf(d, Plan[d][k]) : j <= f /\ j \notin bad[d]
      PROVE  Plan[d][k] <= NewestOf(d)
    BY <1>1, <1>3 DEF WholeCame, NewestOf, FramesOf
  <2>1. Plan[d][k] # R /\ k # f
    BY <1>3, <1>7
  <2>2. k \in 1 .. read[d]
    BY <1>4, <2>1
  <2>3. \A j \in FramesOf(d, Plan[d][k]) : j # f
    BY <1>3, <2>1 DEF FramesOf
  <2>4. \A j \in FramesOf(d, Plan[d][k]) : j <= read[d]
    BY <1>3, <2>3 DEF FramesOf
  <2> QED
    BY <2>2, <2>4 DEF DirInv, WholeCame
<1>9. CameWhole(d)'
  <2>1. \A j \in Nat : j <= read[d] => j <= f
    BY <1>3
  <2>2. \A r : \A j \in FramesOf(d, r) : j \in Nat
    BY PlanType DEF FramesOf
  <2> QED
    BY <1>1, <1>3, <2>1, <2>2 DEF DirInv, CameWhole, NewestOf, FramesOf
<1> QED
  BY <1>1, <1>5, <1>6, <1>8, <1>9 DEF DirInv

-----------------------------------------------------------------------------
LEMMA DataTypeKeeps ==
  ASSUME DataType, NEW d \in Direction, DataStep(d)
  PROVE  DataType'
<1>1. CASE Emit(d)
  BY <1>1 DEF Emit, DataType
<1>2. CASE WriteFrame(d)
  <2>1. written[d] + 1 \in Nat /\ read[d] <= written[d] + 1 /\ written[d] + 1 <= Len(Plan[d])
    BY <1>2, ValueTypes, PlanType DEF WriteFrame, HasFrame
  <2>2. /\ written' = [written EXCEPT ![d] = written[d] + 1]
        /\ UNCHANGED <<emitted, read, partial, delivered>>
    BY <1>2 DEF WriteFrame
  <2>3. bad' \in [Direction -> SUBSET (Nat \ {0})]
    <3>1. bad[d] \cup {written[d] + 1} \subseteq Nat \ {0}
      BY ValueTypes
    <3> QED
      BY <1>2, <3>1 DEF WriteFrame, DataType
  <2> QED
    BY <2>1, <2>2, <2>3 DEF DataType
<1>3. ASSUME Readable(d), read' = [read EXCEPT ![d] = @ + 1], UNCHANGED <<emitted, written, bad>>,
             partial' \in [Direction -> SUBSET (Nat \ {0})],
             delivered' \in [Direction -> Seq(Nat \ {0})]
      PROVE  DataType'
  <2>1. read[d] + 1 \in Nat /\ read[d] + 1 <= written[d]
    BY <1>3, ValueTypes DEF Readable
  <2> QED
    BY <1>3, <2>1 DEF DataType
<1>4. CASE SkipFrame(d)
  BY <1>3, <1>4 DEF SkipFrame, DataType
<1>5. CASE Complete(d)
  <2>1. /\ Readable(d) /\ read' = [read EXCEPT ![d] = @ + 1] /\ UNCHANGED <<emitted, written, bad>>
        /\ partial' = [partial EXCEPT ![d] = partial[d] \ FramesOf(d, RecordOf(d))]
        /\ delivered' = [delivered EXCEPT ![d] = Append(delivered[d], RecordOf(d))]
    BY <1>5 DEF Complete, Decoded
  <2>2. RecordOf(d) \in Nat \ {0}
    BY <2>1, FrameRead
  <2>3. Append(delivered[d], RecordOf(d)) \in Seq(Nat \ {0})
    BY <2>2, ValueTypes
  <2>4. partial[d] \ FramesOf(d, RecordOf(d)) \subseteq Nat \ {0}
    BY ValueTypes
  <2> QED
    BY <1>3, <2>1, <2>3, <2>4 DEF DataType
<1>6. CASE Keep(d)
  <2>1. Readable(d) /\ read' = [read EXCEPT ![d] = @ + 1] /\ UNCHANGED <<emitted, written, bad, delivered>>
    BY <1>6 DEF Keep, Decoded
  <2>2. Frame(d) \in Nat \ {0}
    BY ValueTypes DEF Frame
  <2>3. partial[d] \cup {Frame(d)} \subseteq Nat \ {0}
    BY <2>2, ValueTypes
  <2>4. \A v : (partial[d] \ FramesOf(d, v)) \cup {Frame(d)} \subseteq Nat \ {0}
    BY <2>2, ValueTypes
  <2>5. partial' \in [Direction -> SUBSET (Nat \ {0})]
    BY <1>6, <2>3, <2>4 DEF Keep, DataType
  <2> QED
    BY <1>3, <2>1, <2>5 DEF DataType
<1> QED
  BY <1>1, <1>2, <1>4, <1>5, <1>6 DEF DataStep

LEMMA LinkInvKeeps ==
  ASSUME DataType, LinkInv, NEW d \in Direction, DataStep(d)
  PROVE  LinkInv'
<1>1. DirInv(d)'
  BY EmitKeeps, WriteFrameKeeps, SkipFrameKeeps, CompleteKeeps, KeepKeeps DEF LinkInv, DataStep
<1>2. ASSUME NEW c \in Direction \ {d} PROVE DirInv(c)'
  BY OneDirection, Still DEF LinkInv
<1> QED
  BY <1>1, <1>2 DEF LinkInv

(* How a direction looks from outside: it is a pipe of records. *)
PipeMove(d) ==
  \/ emitted'[d] = emitted[d] /\ Lost(d)' = Lost(d) /\ delivered'[d] = delivered[d]
  \/ emitted'[d] = emitted[d] + 1 /\ Lost(d)' = Lost(d) /\ delivered'[d] = delivered[d]
  \/ /\ emitted'[d] = emitted[d] /\ delivered'[d] = delivered[d]
     /\ \E r \in NewestOf(d) + 1 .. emitted[d] : Lost(d)' = Lost(d) \cup {r}
  \/ /\ emitted'[d] = emitted[d] /\ Lost(d)' = Lost(d)
     /\ \E r \in (NewestOf(d) + 1 .. emitted[d]) \ Lost(d) :
          /\ NewestOf(d) + 1 .. r - 1 \subseteq Lost(d)
          /\ delivered'[d] = Append(delivered[d], r)

LEMMA PipeMoves ==
  ASSUME DataType, LinkInv, NEW c \in Direction,
         (\E d \in Direction : DataStep(d)) \/ UNCHANGED linkData
  PROVE  PipeMove(c)
<1>1. DirInv(c)
  BY DEF LinkInv
<1>2. CASE UNCHANGED linkData
  BY <1>2, Still DEF linkData, PipeMove
<1>3. CASE DataStep(c)
  <2>1. CASE Emit(c)
    BY <1>1, <2>1, EmitKeeps DEF PipeMove
  <2>2. CASE WriteFrame(c)
    BY <1>1, <2>2, WriteFrameKeeps DEF PipeMove
  <2>3. CASE SkipFrame(c)
    BY <1>1, <2>3, SkipFrameKeeps DEF PipeMove
  <2>4. CASE Complete(c)
    BY <1>1, <2>4, CompleteKeeps DEF PipeMove
  <2>5. CASE Keep(c)
    BY <1>1, <2>5, KeepKeeps DEF PipeMove
  <2> QED
    BY <1>3, <2>1, <2>2, <2>3, <2>4, <2>5 DEF DataStep
<1>4. ASSUME NEW d \in Direction, DataStep(d), c # d PROVE PipeMove(c)
  BY <1>4, OneDirection, Still DEF PipeMove
<1> QED
  BY <1>2, <1>3, <1>4

LEMMA LinkInitHolds == LinkInit => DataType /\ LinkInv
<1> SUFFICES ASSUME LinkInit PROVE DataType /\ LinkInv
  OBVIOUS
<1>1. DataType
  <2>1. \A d \in Direction : Len(Plan[d]) >= 0
    BY PlanType
  <2>2. delivered \in [Direction -> Seq(Nat \ {0})]
    BY DEF LinkInit
  <2> QED
    BY <2>1, <2>2 DEF LinkInit, DataType
<1>2. ASSUME NEW d \in Direction PROVE DirInv(d)
  BY DEF LinkInit, DirInv, FramesFounded, PartialKept, WholeCame, CameWhole
<1> QED
  BY <1>1, <1>2 DEF LinkInv

USE LinkAssumption

Inv == TypeOK /\ LinkInv

-----------------------------------------------------------------------------
(* The steps of the link are the same in both programs. *)
LEMMA BackendLink ==
  ASSUME NEW d
  PROVE  /\ Backend!Emit(d) <=> Emit(d)
         /\ Backend!WriteFrame(d) <=> WriteFrame(d)
         /\ Backend!WriteFails(d) <=> WriteFails(d)
         /\ Backend!SkipFrame(d) <=> SkipFrame(d)
         /\ Backend!Complete(d) <=> Complete(d)
         /\ Backend!Keep(d) <=> Keep(d)
         /\ Backend!ReadEnds(d) <=> ReadEnds(d)
         /\ Backend!PeerLeaves <=> PeerLeaves
         /\ Backend!Break <=> Break
<1>1. Backend!Emit(d) <=> Emit(d)
  BY DEF Backend!Emit, Emit, Backend!FramesOf, FramesOf, Backend!endVars, endVars
<1>2. Backend!WriteFrame(d) <=> WriteFrame(d)
  BY DEF Backend!Cardinality, Cardinality, Backend!WriteFrame, WriteFrame, Backend!HasFrame, HasFrame, Backend!endVars, endVars
<1>3. Backend!WriteFails(d) <=> WriteFails(d)
  BY DEF Backend!WriteFails, WriteFails, Backend!HasFrame, HasFrame
<1>4. Backend!SkipFrame(d) <=> SkipFrame(d)
  BY DEF Backend!SkipFrame, SkipFrame, Backend!Readable, Readable, Backend!endVars, endVars
<1>5. Backend!Complete(d) <=> Complete(d)
  BY DEF Backend!Complete, Complete, Backend!Decoded, Decoded, Backend!Readable, Readable, Backend!Completes, Completes, Backend!Frame, Frame, Backend!RecordOf, RecordOf, Backend!FramesOf, FramesOf, Backend!endVars, endVars
<1>6. Backend!Keep(d) <=> Keep(d)
  BY DEF Backend!Cardinality, Cardinality, Backend!Keep, Keep, Backend!Decoded, Decoded, Backend!Readable, Readable, Backend!Completes, Completes, Backend!Others, Others, Backend!Frame, Frame, Backend!RecordOf, RecordOf, Backend!FramesOf, FramesOf, Backend!endVars, endVars
<1>7. Backend!ReadEnds(d) <=> ReadEnds(d)
  BY DEF Backend!ReadEnds, ReadEnds
<1>8. Backend!PeerLeaves <=> PeerLeaves
  BY DEF Backend!PeerLeaves, PeerLeaves
<1>9. Backend!Break <=> Break
  BY DEF Backend!Break, Break
<1> QED
  BY <1>1, <1>2, <1>3, <1>4, <1>5, <1>6, <1>7, <1>8, <1>9

LEMMA V1Link ==
  ASSUME NEW d
  PROVE  /\ V1!Emit(d) <=> Emit(d)
         /\ V1!WriteFrame(d) <=> WriteFrame(d)
         /\ V1!WriteFails(d) <=> WriteFails(d)
         /\ V1!SkipFrame(d) <=> SkipFrame(d)
         /\ V1!Complete(d) <=> Complete(d)
         /\ V1!Keep(d) <=> Keep(d)
         /\ V1!ReadEnds(d) <=> ReadEnds(d)
         /\ V1!PeerLeaves <=> PeerLeaves
         /\ V1!Break <=> Break
<1>1. V1!Emit(d) <=> Emit(d)
  BY DEF V1!Emit, Emit, V1!FramesOf, FramesOf, V1!endVars, endVars
<1>2. V1!WriteFrame(d) <=> WriteFrame(d)
  BY DEF V1!Cardinality, Cardinality, V1!WriteFrame, WriteFrame, V1!HasFrame, HasFrame, V1!endVars, endVars
<1>3. V1!WriteFails(d) <=> WriteFails(d)
  BY DEF V1!WriteFails, WriteFails, V1!HasFrame, HasFrame
<1>4. V1!SkipFrame(d) <=> SkipFrame(d)
  BY DEF V1!SkipFrame, SkipFrame, V1!Readable, Readable, V1!endVars, endVars
<1>5. V1!Complete(d) <=> Complete(d)
  BY DEF V1!Complete, Complete, V1!Decoded, Decoded, V1!Readable, Readable, V1!Completes, Completes, V1!Frame, Frame, V1!RecordOf, RecordOf, V1!FramesOf, FramesOf, V1!endVars, endVars
<1>6. V1!Keep(d) <=> Keep(d)
  BY DEF V1!Cardinality, Cardinality, V1!Keep, Keep, V1!Decoded, Decoded, V1!Readable, Readable, V1!Completes, Completes, V1!Others, Others, V1!Frame, Frame, V1!RecordOf, RecordOf, V1!FramesOf, FramesOf, V1!endVars, endVars
<1>7. V1!ReadEnds(d) <=> ReadEnds(d)
  BY DEF V1!ReadEnds, ReadEnds
<1>8. V1!PeerLeaves <=> PeerLeaves
  BY DEF V1!PeerLeaves, PeerLeaves
<1>9. V1!Break <=> Break
  BY DEF V1!Break, Break
<1> QED
  BY <1>1, <1>2, <1>3, <1>4, <1>5, <1>6, <1>7, <1>8, <1>9


-----------------------------------------------------------------------------
(* Every step moves one direction by a step of FramedLink, or none. *)
DataMoves == (\E d \in Direction : DataStep(d)) \/ UNCHANGED linkData

EndsType ==
  /\ writer \in [Direction -> {"running", "ended"}]
  /\ reader \in [Direction -> {"running", "ended"}]
  /\ broken \in BOOLEAN

LEMMA LinkStepMoves ==
  ASSUME EndsType, NEW d \in Direction,
         \/ WriteFrame(d) \/ WriteFails(d) \/ SkipFrame(d) \/ Complete(d) \/ Keep(d) \/ ReadEnds(d)
         \/ Emit(d) \/ PeerLeaves \/ Break \/ UNCHANGED linkVars
  PROVE  DataMoves /\ EndsType'
<1>1. CASE Emit(d) \/ WriteFrame(d) \/ SkipFrame(d) \/ Complete(d) \/ Keep(d)
  <2>1. UNCHANGED endVars
    BY <1>1 DEF Emit, WriteFrame, SkipFrame, Complete, Keep
  <2> QED
    BY <1>1, <2>1 DEF DataMoves, DataStep, EndsType, endVars
<1>2. CASE WriteFails(d) \/ ReadEnds(d)
  <2>1. UNCHANGED linkData
    BY <1>2 DEF WriteFails, ReadEnds, linkData
  <2>2. EndsType'
    BY <1>2 DEF WriteFails, ReadEnds, EndsType
  <2> QED
    BY <2>1, <2>2 DEF DataMoves
<1>3. CASE PeerLeaves \/ Break
  <2>1. UNCHANGED linkData
    BY <1>3 DEF PeerLeaves, Break, linkData
  <2>2. EndsType'
    BY <1>3 DEF PeerLeaves, Break, EndsType
  <2> QED
    BY <2>1, <2>2 DEF DataMoves
<1>4. CASE UNCHANGED linkVars
  BY <1>4 DEF linkVars, endVars, linkData, DataMoves, EndsType
<1> QED
  BY <1>1, <1>2, <1>3, <1>4

LEMMA BackendMoves ==
  ASSUME TypeOK, Backend!Next
  PROVE  DataMoves /\ EndsType' /\ Backend!OwnTypeOK'
<1>1. EndsType /\ Backend!OwnTypeOK /\ "in" \in Direction /\ "out" \in Direction
  BY DEF TypeOK, LinkTypeOK, EndsType, Direction
<1>2. CASE Backend!WriteMessage \/ Backend!DeviceEmits
  <2>1. Emit("out") \/ Emit("in") \/ UNCHANGED linkVars
    BY <1>2, BackendLink DEF Backend!WriteMessage, Backend!DeviceEmits, Backend!linkVars, Backend!endVars, linkVars, endVars
  <2>2. Backend!OwnTypeOK'
    BY <1>1, <1>2 DEF Backend!WriteMessage, Backend!DeviceEmits, Backend!OwnTypeOK, Backend!ownVars
  <2> QED
    BY <1>1, <2>1, <2>2, LinkStepMoves
<1>3. CASE Backend!Transfer
  <2>1. LinkStep
    BY <1>3, BackendLink DEF Backend!Transfer, Backend!LinkStep, LinkStep, Backend!Direction, Direction
  <2>2. Backend!OwnTypeOK'
    BY <1>1, <1>3 DEF Backend!Transfer, Backend!OwnTypeOK, Backend!ownVars
  <2> QED
    BY <1>1, <2>1, <2>2, LinkStepMoves DEF LinkStep
<1>4. CASE Backend!RuntimeStops \/ Backend!ServeExits
  <2>1. UNCHANGED linkVars
    BY <1>4 DEF Backend!RuntimeStops, Backend!ServeExits, Backend!linkVars, Backend!endVars, linkVars, endVars
  <2>2. Backend!OwnTypeOK'
    BY <1>1, <1>4 DEF Backend!RuntimeStops, Backend!ServeExits, Backend!OwnTypeOK
  <2> QED
    BY <1>1, <2>1, <2>2, LinkStepMoves
<1>5. CASE Backend!RxEnds
  <2>1. UNCHANGED linkData /\ EndsType'
    BY <1>1, <1>5 DEF Backend!RxEnds, linkData, EndsType
  <2>2. Backend!OwnTypeOK'
    BY <1>1, <1>5 DEF Backend!RxEnds, Backend!OwnTypeOK, Backend!ownVars
  <2> QED
    BY <2>1, <2>2 DEF DataMoves
<1> QED
  BY <1>2, <1>3, <1>4, <1>5 DEF Backend!Next

LEMMA V1Moves ==
  ASSUME TypeOK, V1!Next
  PROVE  DataMoves /\ EndsType'
<1>1. EndsType /\ "in" \in Direction /\ "out" \in Direction
  BY DEF TypeOK, LinkTypeOK, EndsType, Direction
<1>2. CASE V1!Start \/ V1!Answer \/ V1!DeviceEmits
  <2>1. Emit("out") \/ Emit("in") \/ UNCHANGED linkVars
    BY <1>2, V1Link DEF V1!Start, V1!Answer, V1!DeviceEmits, V1!linkVars, V1!endVars, linkVars, endVars
  <2> QED
    BY <1>1, <2>1, LinkStepMoves
<1>3. CASE V1!Send \/ V1!SendFails \/ V1!Receive \/ V1!Handle \/ V1!ReceiveFails
           \/ V1!DeviceWrites \/ V1!DeviceReads \/ V1!LinkFails
  <2>1. LinkStep
    BY <1>1, <1>3, V1Link
       DEF V1!Send, V1!SendFails, V1!Receive, V1!Handle, V1!ReceiveFails,
           V1!DeviceWrites, V1!DeviceReads, V1!LinkFails, LinkStep
  <2> QED
    BY <1>1, <2>1, LinkStepMoves DEF LinkStep
<1>4. CASE V1!Exit
  BY <1>1, <1>4 DEF V1!Exit, DataMoves, linkData, EndsType
<1> QED
  BY <1>2, <1>3, <1>4 DEF V1!Next, V1!ClientStep

(* What a record of the device says is known for each that was emitted. *)
LEMMA V1TypeKeeps ==
  ASSUME Inv, program = "v1", V1!Next
  PROVE  V1!OwnTypeOK'
<1> DEFINE KindSet == {"response", "other", "unsealable"}
<1>1. /\ kinds \in Seq(KindSet) /\ Len(kinds) = emitted["in"]
      /\ at \in {"start", "pairing", "waiting", "status"} \cup V1!Over
      /\ emitted \in [Direction -> Nat]
  BY DEF Inv, TypeOK, V1!OwnTypeOK, LinkTypeOK
<1>2. CASE V1!DeviceEmits
  <2>1. PICK kind \in KindSet : kinds' = Append(kinds, kind)
    BY <1>2 DEF V1!DeviceEmits
  <2>2. kinds' \in Seq(KindSet) /\ Len(kinds') = Len(kinds) + 1
    BY <1>1, <2>1
  <2>3. emitted'["in"] = emitted["in"] + 1 /\ at' = at
    BY <1>1, <1>2 DEF V1!DeviceEmits, V1!Emit, Direction
  <2> QED
    BY <1>1, <2>2, <2>3 DEF V1!OwnTypeOK, V1!Over
<1>3. CASE V1!Start \/ V1!Answer
  <2>1. kinds' = kinds /\ emitted'["in"] = emitted["in"]
    BY <1>1, <1>3 DEF V1!Start, V1!Answer, V1!Emit, V1!ownVars, V1!linkVars, Direction
  <2>2. at' \in {"start", "pairing", "waiting", "status"} \cup V1!Over
    BY <1>1, <1>3 DEF V1!Start, V1!Answer, V1!ownVars, V1!Over
  <2> QED
    BY <1>1, <2>1, <2>2 DEF V1!OwnTypeOK, V1!Over
<1>4. CASE V1!Send \/ V1!SendFails
  <2>1. kinds' = kinds /\ emitted' = emitted
    BY <1>4 DEF V1!Send, V1!SendFails, V1!WriteFrame, V1!WriteFails
  <2>2. at' \in {"start", "pairing", "waiting", "status"} \cup V1!Over
    BY <1>1, <1>4 DEF V1!Send, V1!SendFails, V1!Over
  <2> QED
    BY <1>1, <2>1, <2>2 DEF V1!OwnTypeOK, V1!Over
<1>5. CASE V1!Handle
  <2>1. kinds' = kinds /\ emitted' = emitted
    BY <1>5 DEF V1!Handle, V1!Complete
  <2>2. /\ Complete("in") /\ V1!RecordOf("in") = RecordOf("in")
        /\ V1!Unseal(kinds[RecordOf("in")])
    BY <1>5, V1Link DEF V1!Handle, V1!RecordOf, RecordOf, V1!Frame, Frame
  <2>3. "in" \in Direction /\ DataType /\ FramesFounded("in")
    BY DEF Inv, TypeOK, LinkTypeOK, DataType, LinkInv, DirInv, Direction
  <2>4. /\ Frame("in") \in 1 .. written["in"] /\ RecordOf("in") \in Nat \ {0}
        /\ RecordOf("in") = Plan["in"][Frame("in")]
    BY <2>2, <2>3, FrameRead DEF Complete, Decoded
  <2>5. RecordOf("in") \in 1 .. Len(kinds)
    BY <1>1, <2>3, <2>4 DEF FramesFounded
  <2>6. kinds[RecordOf("in")] \in KindSet
    BY <1>1, <2>5
  <2>7. at' \in {"waiting", "status", "failed"}
    BY <2>2, <2>6 DEF V1!Unseal
  <2> QED
    BY <1>1, <2>1, <2>7 DEF V1!OwnTypeOK, V1!Over
<1>6. CASE V1!Receive \/ V1!DeviceWrites \/ V1!DeviceReads \/ V1!LinkFails \/ V1!Exit
  <2>1. UNCHANGED <<at, kinds>>
    BY <1>6 DEF V1!Receive, V1!DeviceWrites, V1!DeviceReads, V1!LinkFails, V1!Exit, V1!ownVars
  <2>2. emitted' = emitted
    BY <1>6 DEF V1!Receive, V1!DeviceWrites, V1!DeviceReads, V1!LinkFails, V1!Exit, V1!SkipFrame,
                V1!Keep, V1!WriteFrame, V1!Complete, V1!ReadEnds, V1!WriteFails, V1!PeerLeaves, V1!Break
  <2> QED
    BY <1>1, <2>1, <2>2 DEF V1!OwnTypeOK, V1!Over
<1>7. CASE V1!ReceiveFails
  <2>1. kinds' = kinds /\ emitted' = emitted /\ at' = "failed"
    BY <1>7 DEF V1!ReceiveFails, V1!ReadEnds
  <2> QED
    BY <1>1, <2>1 DEF V1!OwnTypeOK, V1!Over
<1> QED
  BY <1>2, <1>3, <1>4, <1>5, <1>6, <1>7 DEF V1!Next, V1!ClientStep

-----------------------------------------------------------------------------
LEMMA InvInit == Init => Inv
<1> SUFFICES ASSUME Init PROVE Inv
  OBVIOUS
<1>1. LinkInit
  BY DEF Init, Backend!Init, Backend!LinkInit, LinkInit, Backend!Direction, Direction
<1>2. DataType /\ LinkInv
  BY <1>1, LinkInitHolds
<1>3. LinkTypeOK
  BY <1>1, <1>2 DEF LinkInit, LinkTypeOK, DataType
<1>4. Backend!OwnTypeOK
  BY DEF Init, Backend!Init, Backend!OwnTypeOK
<1>5. V1!OwnTypeOK
  BY <1>1 DEF Init, V1!Init, V1!OwnTypeOK, LinkInit, Direction
<1> QED
  BY <1>2, <1>3, <1>4, <1>5 DEF Inv, TypeOK

LEMMA StepMoves == TypeOK /\ [Next]_vars => DataMoves /\ EndsType'
<1> SUFFICES ASSUME TypeOK, [Next]_vars PROVE DataMoves /\ EndsType'
  OBVIOUS
<1>1. CASE RunBackend
  BY <1>1, BackendMoves DEF RunBackend
<1>2. CASE RunV1
  BY <1>2, V1Moves DEF RunV1
<1>3. CASE UNCHANGED vars
  BY <1>3 DEF vars, linkVars, endVars, linkData, DataMoves, EndsType, TypeOK, LinkTypeOK
<1> QED
  BY <1>1, <1>2, <1>3 DEF Next

LEMMA InvNext == Inv /\ [Next]_vars => Inv'
<1> SUFFICES ASSUME Inv, [Next]_vars PROVE Inv'
  OBVIOUS
<1>1. DataMoves /\ EndsType'
  BY StepMoves DEF Inv
<1>2. DataType
  BY DEF Inv, TypeOK, LinkTypeOK, DataType
<1>3. DataType' /\ LinkInv'
  <2>1. CASE UNCHANGED linkData
    <3>1. DataType'
      BY <1>2, <2>1 DEF DataType, linkData
    <3>2. ASSUME NEW d \in Direction PROVE DirInv(d)'
      BY <2>1, Still DEF linkData, Inv, LinkInv
    <3> QED
      BY <3>1, <3>2 DEF LinkInv
  <2>2. ASSUME NEW d \in Direction, DataStep(d) PROVE DataType' /\ LinkInv'
    BY <1>2, <2>2, DataTypeKeeps, LinkInvKeeps DEF Inv
  <2> QED
    BY <1>1, <2>1, <2>2 DEF DataMoves
<1>4. LinkTypeOK'
  BY <1>1, <1>3 DEF EndsType, DataType, LinkTypeOK
<1>5. Backend!OwnTypeOK'
  <2>1. CASE RunBackend
    BY <2>1, BackendMoves DEF RunBackend, Inv
  <2>2. CASE RunV1
    BY <2>2 DEF RunV1, OnlyV1, backendVars, Inv, TypeOK, Backend!OwnTypeOK
  <2>3. CASE UNCHANGED vars
    BY <2>3 DEF vars, backendVars, Inv, TypeOK, Backend!OwnTypeOK
  <2> QED
    BY <2>1, <2>2, <2>3 DEF Next
<1>6. program' = "v1" => V1!OwnTypeOK'
  <2>1. CASE RunBackend
    BY <2>1 DEF RunBackend, OnlyBackend
  <2>2. CASE RunV1
    BY <2>2, V1TypeKeeps DEF RunV1, OnlyV1
  <2>3. CASE UNCHANGED vars
    BY <2>3 DEF vars, v1Vars, linkVars, Inv, TypeOK, V1!OwnTypeOK, V1!Over
  <2> QED
    BY <2>1, <2>2, <2>3 DEF Next
<1> QED
  BY <1>3, <1>4, <1>5, <1>6 DEF Inv, TypeOK

LEMMA InvAlways == Spec => []Inv
BY InvInit, InvNext, PTL DEF Spec

-----------------------------------------------------------------------------
(***************************************************************************)
(* Both programs keep the counts of their connection in order, nothing     *)
(* being read before it is written, and their own state known.             *)
(***************************************************************************)
THEOREM TypeCorrect == Spec => []TypeOK
<1>1. Inv => TypeOK
  BY DEF Inv
<1> QED
  BY <1>1, InvAlways, PTL

LEMMA PipeOut == Inv /\ [Next]_vars => [OutPipe!Next]_(OutPipe!vars)
<1> SUFFICES ASSUME Inv, [Next]_vars PROVE [OutPipe!Next]_(OutPipe!vars)
  OBVIOUS
<1>1. DataType /\ LinkInv /\ TypeOK /\ "out" \in Direction
  BY DEF Inv, TypeOK, LinkTypeOK, DataType, Direction
<1>2. PipeMove("out")
  BY <1>1, StepMoves, PipeMoves DEF DataMoves
<1>3. OutPipe!Newest = NewestOf("out")
  BY DEF OutPipe!Newest, NewestOf
<1>4. NewestOf("out") \in Nat /\ emitted["out"] \in Nat
  BY <1>1, ValueTypes
<1>5. \A r \in NewestOf("out") + 1 .. emitted["out"] : r \in 1 .. emitted["out"]
  BY <1>4
<1> QED
  BY <1>2, <1>3, <1>5 DEF PipeMove, OutPipe!Next, OutPipe!Send, OutPipe!Lose, OutPipe!Deliver, OutPipe!vars

LEMMA PipeIn == Inv /\ [Next]_vars => [InPipe!Next]_(InPipe!vars)
<1> SUFFICES ASSUME Inv, [Next]_vars PROVE [InPipe!Next]_(InPipe!vars)
  OBVIOUS
<1>1. DataType /\ LinkInv /\ TypeOK /\ "in" \in Direction
  BY DEF Inv, TypeOK, LinkTypeOK, DataType, Direction
<1>2. PipeMove("in")
  BY <1>1, StepMoves, PipeMoves DEF DataMoves
<1>3. InPipe!Newest = NewestOf("in")
  BY DEF InPipe!Newest, NewestOf
<1>4. NewestOf("in") \in Nat /\ emitted["in"] \in Nat
  BY <1>1, ValueTypes
<1>5. \A r \in NewestOf("in") + 1 .. emitted["in"] : r \in 1 .. emitted["in"]
  BY <1>4
<1> QED
  BY <1>2, <1>3, <1>5 DEF PipeMove, InPipe!Next, InPipe!Send, InPipe!Lose, InPipe!Deliver, InPipe!vars

(***************************************************************************)
(* Each direction of either program's connection is a pipe of records:     *)
(* spawn_tcp_btp_bridge and the v1 client's Transport lose no record but   *)
(* one with a frame that did not decode, and neither mix nor reorder them. *)
(***************************************************************************)
THEOREM IsPipe == Spec => PipeSpec
<1>1. Init => OutPipe!Init /\ InPipe!Init
  <2> SUFFICES ASSUME Init PROVE OutPipe!Init /\ InPipe!Init
    OBVIOUS
  <2>1. LinkInit /\ "out" \in Direction /\ "in" \in Direction
    BY DEF Init, Backend!Init, Backend!LinkInit, LinkInit, Backend!Direction, Direction
  <2>2. \A d \in Direction : emitted[d] = 0 /\ delivered[d] = <<>> /\ Lost(d) = {}
    BY <2>1 DEF LinkInit, Lost
  <2> QED
    BY <2>1, <2>2 DEF OutPipe!Init, InPipe!Init
<1>2. Spec => OutPipe!Spec
  BY <1>1, PipeOut, InvAlways, PTL DEF Spec, OutPipe!Spec
<1>3. Spec => InPipe!Spec
  BY <1>1, PipeIn, InvAlways, PTL DEF Spec, InPipe!Spec
<1> QED
  BY <1>2, <1>3 DEF PipeSpec

-----------------------------------------------------------------------------
(***************************************************************************)
(* Where the v1 client is says what it has taken and sent.  It seals the   *)
(* EnvoyStatus, its second record, after a PairingResponse only, and takes *)
(* nothing more; and the device has sent no PairingResponse before it had  *)
(* the PairingRequest.                                                     *)
(***************************************************************************)
HeardKind(i) == kinds[delivered["in"][i]]

ClientInv ==
  LET n == Len(delivered["in"])
  IN  /\ \A i \in 1 .. n - 1 : HeardKind(i) = "other"
      /\ at \in {"start", "pairing"} => n = 0
      /\ at = "waiting" /\ n > 0 => HeardKind(n) = "other"
      /\ at \in {"status", "done"} \/ emitted["out"] > 1 => n > 0 /\ HeardKind(n) = "response"
      /\ at = "start" => emitted["out"] = 0
      /\ at \in {"pairing", "waiting"} => emitted["out"] = 1
      /\ \A r \in 1 .. Len(kinds) : kinds[r] = "response" => Came("out", 1)

(* A record that came out was handed over. *)
LEMMA CameWasEmitted ==
  ASSUME DataType, NEW d \in Direction, DirInv(d), NEW i \in 1 .. Len(delivered[d])
  PROVE  delivered[d][i] \in 1 .. emitted[d]
<1>1. delivered[d][i] \in Nat \ {0}
  BY ValueTypes
<1>2. PICK j \in FramesOf(d, delivered[d][i]) : j <= read[d]
  BY DEF DirInv, CameWhole
<1>3. j \in 1 .. Len(Plan[d]) /\ Plan[d][j] = delivered[d][i]
  BY <1>2 DEF FramesOf
<1>4. j \in 1 .. written[d]
  BY <1>2, <1>3, Counts
<1>5. delivered[d][i] <= emitted[d]
  BY <1>3, <1>4 DEF DirInv, FramesFounded
<1> QED
  BY <1>1, <1>5, Counts

(* What has come stays. *)
LEMMA CameStays ==
  ASSUME DataType, NEW d \in Direction, NEW r,
         delivered' = delivered \/ \E c \in Direction : Complete(c)
  PROVE  Came(d, r) => Came(d, r)'
<1>1. CASE delivered' = delivered
  BY <1>1 DEF Came
<1>2. ASSUME NEW c \in Direction, Complete(c) PROVE Came(d, r) => Came(d, r)'
  <2>1. delivered[d] \in Seq(Nat \ {0})
    BY ValueTypes
  <2>2. delivered'[d] = delivered[d] \/ delivered'[d] = Append(delivered[d], RecordOf(c))
    BY <1>2 DEF Complete, DataType
  <2>3. \A x : \A i \in 1 .. Len(delivered[d]) :
          /\ i \in 1 .. Len(Append(delivered[d], x))
          /\ Append(delivered[d], x)[i] = delivered[d][i]
    BY <2>1
  <2> QED
    BY <2>2, <2>3 DEF Came
<1> QED
  BY <1>1, <1>2

LEMMA ClientKept ==
  ASSUME ClientInv, kinds' = kinds, delivered'["in"] = delivered["in"],
         emitted'["out"] = emitted["out"], Came("out", 1) => Came("out", 1)',
         \/ at' = at \/ at' = "failed"
         \/ at = "pairing" /\ at' = "waiting"
         \/ at = "status" /\ at' = "done"
  PROVE  ClientInv'
<1>1. Len(delivered'["in"]) = Len(delivered["in"]) /\ \A i : HeardKind(i)' = HeardKind(i)
  BY DEF HeardKind
<1>2. at = "pairing" => Len(delivered["in"]) = 0 /\ emitted["out"] = 1
  BY DEF ClientInv
<1>3. ~ (0 > 0)
  OBVIOUS
<1> QED
  BY <1>1, <1>2, <1>3 DEF ClientInv

LEMMA HandleKeeps ==
  ASSUME Inv, program = "v1", ClientInv, V1!Handle
  PROVE  ClientInv'
<1> DEFINE q == delivered["in"]
<1>1. "in" \in Direction /\ "out" \in Direction /\ DataType /\ DirInv("in") /\ DirInv("out")
  BY DEF Inv, TypeOK, LinkTypeOK, DataType, LinkInv, Direction
<1>2. /\ Complete("in") /\ at = "waiting" /\ kinds' = kinds
      /\ V1!Unseal(kinds[RecordOf("in")])
  BY V1Link DEF V1!Handle, V1!RecordOf, RecordOf, V1!Frame, Frame
<1> PICK r : r = RecordOf("in")
  OBVIOUS
<1> PICK n \in Nat : n = Len(q)
  BY <1>1, ValueTypes
<1>3. /\ delivered' = [delivered EXCEPT !["in"] = Append(q, r)]
      /\ emitted' = emitted
  BY <1>2 DEF Complete
<1>4. q \in Seq(Nat \ {0}) /\ delivered'["in"] = Append(q, r) /\ delivered'["out"] = delivered["out"]
  BY <1>1, <1>3, ValueTypes DEF DataType
<1>5. /\ Len(delivered'["in"]) = n + 1 /\ delivered'["in"][n + 1] = r
      /\ \A i \in 1 .. n : delivered'["in"][i] = q[i]
  BY <1>4
<1>6. \A i \in 1 .. n : HeardKind(i)' = HeardKind(i)
  BY <1>2, <1>5 DEF HeardKind
<1>7. HeardKind(n + 1)' = kinds[r]
  BY <1>2, <1>5 DEF HeardKind
<1>8. \A i \in 1 .. n : HeardKind(i) = "other"
  <2>1. \A i \in 1 .. n : i \in 1 .. n - 1 \/ (i = n /\ n > 0)
    OBVIOUS
  <2> QED
    BY <1>2, <2>1 DEF ClientInv
<1>9. emitted'["out"] = 1
  BY <1>2, <1>3 DEF ClientInv
<1>10. \/ at' = "status" /\ kinds[r] = "response"
       \/ at' = "waiting" /\ kinds[r] = "other"
       \/ at' = "failed"
  <2>2. Frame("in") \in 1 .. written["in"] /\ r = Plan["in"][Frame("in")] /\ r \in Nat \ {0}
    BY <1>1, <1>2, FrameRead DEF Complete, Decoded
  <2>3. r \in 1 .. Len(kinds)
    <3>1. r <= emitted["in"] /\ emitted["in"] \in Nat
      BY <1>1, <2>2, Counts DEF DirInv, FramesFounded
    <3>2. Len(kinds) = emitted["in"]
      BY DEF Inv, TypeOK, V1!OwnTypeOK
    <3> QED
      BY <2>2, <3>1, <3>2
  <2>4. kinds[r] \in {"response", "other", "unsealable"}
    BY <2>3 DEF Inv, TypeOK, V1!OwnTypeOK
  <2> QED
    BY <1>2, <2>4 DEF V1!Unseal
<1>11. \A s \in 1 .. Len(kinds) : kinds[s] = "response" => Came("out", 1)'
  <2>1. Came("out", 1) => Came("out", 1)'
    BY <1>4 DEF Came
  <2> QED
    BY <2>1 DEF ClientInv
<1>12. (n + 1) - 1 = n /\ n + 1 > 0
  OBVIOUS
<1>13. \A i \in 1 .. (n + 1) - 1 : HeardKind(i)' = "other"
  BY <1>6, <1>8, <1>12
<1>14. ~ (1 > 1)
  OBVIOUS
<1> HIDE DEF q
<1> QED
  BY <1>2, <1>5, <1>7, <1>9, <1>10, <1>11, <1>12, <1>13, <1>14 DEF ClientInv

LEMMA DeviceEmitsKeeps ==
  ASSUME Inv, program = "v1", ClientInv, V1!DeviceEmits
  PROVE  ClientInv'
<1>1. "in" \in Direction /\ "out" \in Direction /\ DataType /\ DirInv("in")
  BY DEF Inv, TypeOK, LinkTypeOK, DataType, LinkInv, Direction
<1>2. PICK kind \in {"response", "other", "unsealable"} :
        /\ kind = "response" => Came("out", 1)
        /\ kinds' = Append(kinds, kind)
  BY DEF V1!DeviceEmits, V1!Came, Came, V1!Pairing
<1>3. Emit("in") /\ at' = at
  BY V1Link DEF V1!DeviceEmits
<1>4. delivered' = delivered /\ emitted'["out"] = emitted["out"]
  BY <1>1, <1>3 DEF Emit, DataType
<1>5. kinds \in Seq({"response", "other", "unsealable"}) /\ Len(kinds) = emitted["in"]
  BY DEF Inv, TypeOK, V1!OwnTypeOK
<1>6. /\ Len(kinds') = Len(kinds) + 1 /\ kinds'[Len(kinds) + 1] = kind /\ Len(kinds) \in Nat
      /\ \A r \in 1 .. Len(kinds) : kinds'[r] = kinds[r]
  BY <1>2, <1>5
<1>7. \A i \in 1 .. Len(delivered["in"]) : HeardKind(i)' = HeardKind(i)
  BY <1>1, <1>4, <1>5, <1>6, CameWasEmitted DEF HeardKind
<1>8. Came("out", 1)' = Came("out", 1)
  BY <1>4 DEF Came
<1>9. \A r \in 1 .. Len(kinds') : kinds'[r] = "response" => Came("out", 1)'
  <2>1. \A r \in 1 .. Len(kinds') : r \in 1 .. Len(kinds) \/ r = Len(kinds) + 1
    BY <1>6
  <2> QED
    BY <2>1, <1>2, <1>6, <1>8 DEF ClientInv
<1> PICK n \in Nat : n = Len(delivered["in"])
  BY <1>1, ValueTypes
<1>10. (\A i \in 1 .. n - 1 : i \in 1 .. n) /\ (n > 0 => n \in 1 .. n) /\ Len(delivered'["in"]) = n
  BY <1>4
<1> QED
  BY <1>3, <1>4, <1>7, <1>9, <1>10 DEF ClientInv

LEMMA ClientNext ==
  ASSUME Inv, program = "v1", ClientInv, V1!Next
  PROVE  ClientInv'
<1>1. "in" \in Direction /\ "out" \in Direction /\ DataType
  BY DEF Inv, TypeOK, LinkTypeOK, DataType, Direction
<1>2. CASE V1!Start
  <2>1. kinds' = kinds /\ at = "start" /\ Len(delivered["in"]) = 0 /\ emitted["out"] = 0
    BY <1>2 DEF V1!Start, ClientInv
  <2>2. \/ at' = "failed" /\ UNCHANGED linkVars
        \/ at' = "pairing" /\ Emit("out")
    BY <1>2, V1Link DEF V1!Start, V1!linkVars, V1!endVars, linkVars, endVars
  <2>3. /\ delivered' = delivered
        /\ \/ emitted'["out"] = 0 /\ at' = "failed"
           \/ emitted'["out"] = 1 /\ at' = "pairing"
    <3>1. CASE at' = "failed" /\ UNCHANGED linkVars
      <4>1. delivered' = delivered /\ emitted' = emitted /\ at' = "failed"
        BY <3>1 DEF linkVars, endVars
      <4>2. emitted'["out"] = 0
        BY <2>1, <4>1
      <4> QED
        BY <4>1, <4>2
    <3>2. CASE at' = "pairing" /\ Emit("out")
      <4>1. emitted'["out"] = emitted["out"] + 1 /\ delivered' = delivered
        BY <1>1, <3>2 DEF Emit, DataType
      <4> QED
        BY <2>1, <3>2, <4>1
    <3> QED
      BY <2>2, <3>1, <3>2
  <2>4. \A i \in 1 .. 0 - 1 : FALSE
    OBVIOUS
  <2>5. Came("out", 1)' = Came("out", 1) /\ ~ (0 > 1) /\ ~ (1 > 1)
    BY <2>3 DEF Came
  <2> QED
    BY <2>1, <2>3, <2>4, <2>5 DEF ClientInv
<1>3. CASE V1!Send \/ V1!SendFails \/ V1!ReceiveFails
  <2>1. kinds' = kinds /\ delivered' = delivered /\ emitted' = emitted
    BY <1>3 DEF V1!Send, V1!SendFails, V1!ReceiveFails, V1!WriteFrame, V1!WriteFails, V1!ReadEnds
  <2>2. \/ at' = at \/ at' = "failed"
        \/ at = "pairing" /\ at' = "waiting"
        \/ at = "status" /\ at' = "done"
    BY <1>3 DEF V1!Send, V1!SendFails, V1!ReceiveFails
  <2> QED
    BY <1>1, <2>1, <2>2, ClientKept, CameStays
<1>4. CASE V1!Receive \/ V1!DeviceWrites \/ V1!LinkFails \/ V1!Exit
  <2>1. kinds' = kinds /\ delivered' = delivered /\ emitted' = emitted /\ at' = at
    BY <1>4 DEF V1!Receive, V1!DeviceWrites, V1!LinkFails, V1!Exit, V1!ownVars, V1!SkipFrame,
                V1!Keep, V1!WriteFrame, V1!PeerLeaves, V1!Break
  <2> QED
    BY <1>1, <2>1, ClientKept, CameStays
<1>5. CASE V1!DeviceReads
  <2>1. kinds' = kinds /\ emitted' = emitted /\ at' = at
    BY <1>5 DEF V1!DeviceReads, V1!ownVars, V1!Complete, V1!Keep, V1!ReadEnds, V1!WriteFails
  <2>2. delivered' = delivered \/ Complete("out")
    BY <1>5, V1Link DEF V1!DeviceReads, V1!Keep, V1!ReadEnds, V1!WriteFails
  <2>3. delivered'["in"] = delivered["in"]
    BY <1>1, <2>2 DEF Complete, DataType
  <2>4. Came("out", 1) => Came("out", 1)'
    BY <1>1, <2>2, CameStays
  <2> QED
    BY <2>1, <2>3, <2>4, ClientKept
<1>6. CASE V1!Answer
  <2>1. Emit("out") /\ at = "status" /\ at' = at /\ kinds' = kinds
    BY <1>6, V1Link DEF V1!Answer, V1!ownVars
  <2>2. delivered' = delivered
    BY <2>1 DEF Emit
  <2>3. Came("out", 1)' = Came("out", 1) /\ \A i : HeardKind(i)' = HeardKind(i)
    BY <2>1, <2>2 DEF Came, HeardKind
  <2> QED
    BY <2>1, <2>2, <2>3 DEF ClientInv
<1>7. CASE V1!Handle
  BY <1>7, HandleKeeps
<1>8. CASE V1!DeviceEmits
  BY <1>8, DeviceEmitsKeeps
<1> QED
  BY <1>2, <1>3, <1>4, <1>5, <1>6, <1>7, <1>8 DEF V1!Next, V1!ClientStep

ClientKnown == program = "v1" => ClientInv

LEMMA ClientKnownInit == Init => ClientKnown
<1> SUFFICES ASSUME Init PROVE ClientInv
  BY DEF ClientKnown
<1>1. at = "start" /\ kinds = <<>>
  BY DEF Init, V1!Init
<1>2. delivered["in"] = <<>> /\ emitted["out"] = 0
  BY DEF Init, Backend!Init, Backend!LinkInit, Backend!Direction
<1>3. Len(delivered["in"]) = 0 /\ Len(kinds) = 0 /\ ~ (0 > 1)
  BY <1>1, <1>2
<1>4. (\A i \in 1 .. 0 - 1 : FALSE) /\ (\A i \in 1 .. 0 : FALSE)
  OBVIOUS
<1> QED
  BY <1>1, <1>2, <1>3, <1>4 DEF ClientInv

LEMMA ClientKnownNext == Inv /\ ClientKnown /\ [Next]_vars => ClientKnown'
<1> SUFFICES ASSUME Inv, ClientKnown, [Next]_vars, program' = "v1" PROVE ClientInv'
  BY DEF ClientKnown
<1>1. CASE RunBackend
  BY <1>1 DEF RunBackend, OnlyBackend
<1>2. CASE RunV1
  BY <1>2, ClientNext DEF RunV1, OnlyV1, ClientKnown
<1>3. CASE UNCHANGED vars
  BY <1>3, ClientKept DEF vars, v1Vars, linkVars, ClientKnown, Came
<1> QED
  BY <1>1, <1>2, <1>3 DEF Next

(***************************************************************************)
(* The status the v1 client sends answers a PairingResponse, the last      *)
(* message it took, before which it took nothing it could not unseal.      *)
(***************************************************************************)
THEOREM StatusIsAnswer == Spec => []StatusAnswersResponse
<1>1. Inv /\ ClientKnown => StatusAnswersResponse
  <2> SUFFICES ASSUME Inv, ClientInv, program = "v1" PROVE V1!StatusAnswersResponse
    BY DEF StatusAnswersResponse, ClientKnown
  <2>1. "in" \in Direction /\ "out" \in Direction /\ DataType /\ DirInv("in") /\ DirInv("out")
    BY DEF Inv, TypeOK, LinkTypeOK, DataType, LinkInv, Direction
  <2> PICK n \in Nat : n = Len(delivered["in"])
    BY <2>1, ValueTypes
  <2> DEFINE t == V1!Taken
  <2>2. t = [i \in 1 .. n |-> HeardKind(i)]
    BY DEF V1!Taken, HeardKind
  <2> HIDE DEF t
  <2>3. Len(t) = n /\ \A i \in 1 .. n : t[i] = HeardKind(i)
    BY <2>2
  <2>4. \A i \in 1 .. n - 1 : i \in 1 .. n
    OBVIOUS
  <2>5. \A i \in 1 .. n - 1 : t[i] = "other"
    BY <2>3, <2>4 DEF ClientInv
  <2>6. ASSUME Came("out", 2) \/ at \in {"status", "done"}
        PROVE  t # <<>> /\ t[n] = "response" /\ Came("out", 1)
    <3>1. Came("out", 2) => emitted["out"] > 1
      BY <2>1, CameWasEmitted, Counts DEF Came
    <3>2. n > 0 /\ HeardKind(n) = "response"
      BY <2>6, <3>1 DEF ClientInv
    <3>3. n \in 1 .. n /\ Len(<<>>) = 0
      BY <3>2
    <3>4. delivered["in"][n] \in 1 .. Len(kinds)
      <4>1. delivered["in"][n] \in 1 .. emitted["in"]
        BY <2>1, <3>3, CameWasEmitted
      <4>2. program = "v1" => Len(kinds) = emitted["in"]
        BY DEF Inv, TypeOK, V1!OwnTypeOK
      <4> QED
        BY <4>1, <4>2
    <3>5. Came("out", 1)
      BY <3>2, <3>4 DEF HeardKind, ClientInv
    <3> QED
      BY <2>3, <3>2, <3>3, <3>5
  <2> QED
    BY <2>3, <2>5, <2>6
       DEF V1!StatusAnswersResponse, V1!Came, Came, V1!Pairing, V1!Status, t
<1>2. Spec => []ClientKnown
  BY ClientKnownInit, ClientKnownNext, InvAlways, PTL DEF Spec
<1> QED
  BY <1>1, <1>2, InvAlways, PTL

================================================================================
