--------------------------------- MODULE Relay ---------------------------------
(***************************************************************************)
(* The relay (relay/src/lib.rs): it accepts backends one by one, dials the *)
(* device's bridge for each, and leaves the pair to a task of its own that *)
(* copies bytes both ways until both sides have ended.                     *)
(*                                                                         *)
(* A direction of a link is a pipe.  Its bytes are opaque, so what counts  *)
(* is how many went in and came out, and whether the end was passed on.    *)
(* The receiving side takes bytes when it likes, or never: the copy waits  *)
(* while the buffers towards it are full.                                  *)
(***************************************************************************)
EXTENDS Naturals

CONSTANTS
  Backend,   \* the connections made to the relay's port
  Nobody,    \* the accept loop is waiting for a connection
  Window,    \* what the buffers towards a side that does not read take in
  MaxBytes   \* bound: bytes sent over a link, both directions together

ASSUME RelayAssumption ==
  Nobody \notin Backend /\ Window \in Nat \ {0} /\ MaxBytes \in Nat

Direction == {"up", "down"}     \* backend to device, device to backend

VARIABLES
  dialing,  \* the backend for which the accept loop is dialing the bridge
  link,     \* what became of each connection
  sent,     \* bytes each side has written
  passed,   \* bytes the other side can read
  taken,    \* bytes the other side has read
  ended,    \* the sides that have shut down their writing half
  shut      \* the directions whose end has been passed on

pipeVars == <<sent, passed, taken, ended, shut>>
vars     == <<dialing, link, pipeVars>>

Init ==
  /\ dialing = Nobody
  /\ link = [b \in Backend |-> "none"]
  /\ sent = [b \in Backend |-> [d \in Direction |-> 0]]
  /\ passed = [b \in Backend |-> [d \in Direction |-> 0]]
  /\ taken = [b \in Backend |-> [d \in Direction |-> 0]]
  /\ ended = [b \in Backend |-> {}]
  /\ shut = [b \in Backend |-> {}]

(* A backend connects; the listener's backlog holds it. *)
Connect(b) ==
  /\ link[b] = "none"
  /\ link' = [link EXCEPT ![b] = "queued"]
  /\ UNCHANGED <<dialing, pipeVars>>

(* Mutant: a link is handled to completion before the next is accepted. *)
AcceptWhenIdle(b) ==
  /\ dialing = Nobody /\ link[b] = "queued"
  /\ \A a \in Backend : link[a] # "linked"
  /\ dialing' = b
  /\ UNCHANGED <<link, pipeVars>>

Accept(b) ==
  /\ dialing = Nobody /\ link[b] = "queued"
  /\ dialing' = b
  /\ UNCHANGED <<link, pipeVars>>

(* The bridge answers and the link gets its task, or the backend is dropped. *)
Dial ==
  /\ dialing # Nobody
  /\ \E outcome \in {"linked", "dropped"} : link' = [link EXCEPT ![dialing] = outcome]
  /\ dialing' = Nobody
  /\ UNCHANGED pipeVars

(* A side writes, or shuts down its writing half. *)
Write(b, d) ==
  /\ link[b] = "linked" /\ d \notin ended[b]
  /\ sent[b]["up"] + sent[b]["down"] < MaxBytes
  /\ sent' = [sent EXCEPT ![b][d] = @ + 1]
  /\ UNCHANGED <<dialing, link, passed, taken, ended, shut>>

End(b, d) ==
  /\ link[b] = "linked" /\ d \notin ended[b]
  /\ ended' = [ended EXCEPT ![b] = @ \cup {d}]
  /\ UNCHANGED <<dialing, link, sent, passed, taken, shut>>

(* copy_bidirectional: bytes first, as far as the other side has room ... *)
Pass(b, d) ==
  /\ link[b] = "linked" /\ passed[b][d] < sent[b][d]
  /\ passed[b][d] < taken[b][d] + Window
  /\ passed' = [passed EXCEPT ![b][d] = @ + 1]
  /\ UNCHANGED <<dialing, link, sent, taken, ended, shut>>

(* The other side reads; nothing obliges it to. *)
Take(b, d) ==
  /\ link[b] = "linked" /\ taken[b][d] < passed[b][d]
  /\ taken' = [taken EXCEPT ![b][d] = @ + 1]
  /\ UNCHANGED <<dialing, link, sent, passed, ended, shut>>

(* Mutant: only the backend's end is passed on. *)
PassEndUp(b, d) ==
  /\ d = "up"
  /\ link[b] = "linked" /\ d \in ended[b] \ shut[b]
  /\ passed[b][d] = sent[b][d]
  /\ shut' = [shut EXCEPT ![b] = @ \cup {d}]
  /\ UNCHANGED <<dialing, link, sent, passed, taken, ended>>

(* ... then the end of a drained direction, which takes no room. *)
PassEnd(b, d) ==
  /\ link[b] = "linked" /\ d \in ended[b] \ shut[b]
  /\ passed[b][d] = sent[b][d]
  /\ shut' = [shut EXCEPT ![b] = @ \cup {d}]
  /\ UNCHANGED <<dialing, link, sent, passed, taken, ended>>

(* Mutant: the first end closes the link. *)
CloseHalf(b) ==
  /\ link[b] = "linked" /\ shut[b] # {}
  /\ link' = [link EXCEPT ![b] = "closed"]
  /\ UNCHANGED <<dialing, pipeVars>>

(* handle_link returns once both directions are at their end. *)
Close(b) ==
  /\ link[b] = "linked" /\ shut[b] = Direction
  /\ link' = [link EXCEPT ![b] = "closed"]
  /\ UNCHANGED <<dialing, pipeVars>>

(* A connection breaks: both sides are closed, whatever is on the way. *)
Break(b) ==
  /\ link[b] = "linked"
  /\ link' = [link EXCEPT ![b] = "broken"]
  /\ UNCHANGED <<dialing, pipeVars>>

Next ==
  \/ Dial
  \/ \E b \in Backend : Connect(b) \/ Accept(b) \/ Close(b) \/ Break(b)
  \/ \E b \in Backend, d \in Direction :
       Write(b, d) \/ End(b, d) \/ Pass(b, d) \/ Take(b, d) \/ PassEnd(b, d)

Spec == Init /\ [][Next]_vars

(***************************************************************************)
(* The accept loop runs, dialing comes to an outcome, and tasks are        *)
(* polled.  Nothing is assumed of the two sides: they need not write, end, *)
(* or read.                                                                *)
(***************************************************************************)
FairSpec ==
  /\ Spec
  /\ WF_vars(Dial)
  /\ \A b \in Backend : SF_vars(Accept(b)) /\ WF_vars(Close(b))
  /\ \A b \in Backend, d \in Direction : WF_vars(Pass(b, d)) /\ WF_vars(PassEnd(b, d))

-----------------------------------------------------------------------------
TypeOK ==
  /\ dialing \in Backend \cup {Nobody}
  /\ link \in [Backend -> {"none", "queued", "linked", "dropped", "closed", "broken"}]
  /\ sent \in [Backend -> [Direction -> 0 .. MaxBytes]]
  /\ passed \in [Backend -> [Direction -> 0 .. MaxBytes]]
  /\ taken \in [Backend -> [Direction -> 0 .. MaxBytes]]
  /\ ended \in [Backend -> SUBSET Direction]
  /\ shut \in [Backend -> SUBSET Direction]

(***************************************************************************)
(* No more bytes come out than went in, nor are more read than came out; a *)
(* side that sees the end of a direction has been passed every byte of it; *)
(* a link that closes in order has lost nothing in either direction.       *)
(***************************************************************************)
NothingLost ==
  \A b \in Backend :
    /\ \A d \in Direction : taken[b][d] <= passed[b][d] /\ passed[b][d] <= sent[b][d]
    /\ \A d \in shut[b] : d \in ended[b] /\ passed[b][d] = sent[b][d]
    /\ link[b] = "closed" => \A d \in Direction : passed[b][d] = sent[b][d]

(* The copy waits for a side that has bytes to read and no room for more. *)
Stuck(b, d) ==
  link[b] = "linked" /\ passed[b][d] < sent[b][d] /\ passed[b][d] = taken[b][d] + Window

(***************************************************************************)
(* Both sides of a link ending brings the link to its end, unless one of   *)
(* them has stopped reading for good with bytes still on their way to it:  *)
(* handle_link has no timeout and waits for such a side for ever.          *)
(***************************************************************************)
LinksEnd ==
  \A b \in Backend :
    \/ link[b] = "linked" /\ ended[b] = Direction ~> link[b] # "linked"
    \/ <>[](\E d \in Direction : Stuck(b, d))

(* Every backend that connects gets a link or is dropped, never just waits. *)
NobodyWaitsForever ==
  \A b \in Backend : link[b] = "queued" ~> link[b] # "queued"

=============================================================================
