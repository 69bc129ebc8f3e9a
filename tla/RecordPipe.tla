------------------------------- MODULE RecordPipe -------------------------------
(***************************************************************************)
(* What one direction of the transport promises: records come out in the   *)
(* order they went in, each at most once and never in part, and none is    *)
(* passed over but those that were lost on the way.                        *)
(***************************************************************************)
EXTENDS Naturals, Sequences

VARIABLES
  sent,   \* how many records have gone in; they are numbered from 1
  lost,   \* the records that will not come out
  got     \* the records that have come out, in order

vars == <<sent, lost, got>>

Init == sent = 0 /\ lost = {} /\ got = <<>>

Newest == IF got = <<>> THEN 0 ELSE got[Len(got)]

Send ==
  /\ sent' = sent + 1
  /\ UNCHANGED <<lost, got>>

Lose(r) ==
  /\ r \in Newest + 1 .. sent
  /\ lost' = lost \cup {r}
  /\ UNCHANGED <<sent, got>>

Deliver(r) ==
  /\ r \in (Newest + 1 .. sent) \ lost
  /\ Newest + 1 .. r - 1 \subseteq lost
  /\ got' = Append(got, r)
  /\ UNCHANGED <<sent, lost>>

Next == Send \/ \E r \in 1 .. sent : Lose(r) \/ Deliver(r)

Spec == Init /\ [][Next]_vars

=============================================================================
