---------------------------- MODULE SamplingContract ----------------------------
(***************************************************************************)
(* What McpState::sample (backend/src/mcp.rs) promises its callers, with   *)
(* no ids, tables, streams or timers: a call opens, a client may hear its  *)
(* question, and the call is settled once.  It yields a reply only if some *)
(* client has heard this very question; otherwise it fails, or nobody is   *)
(* left to take the result.                                                *)
(***************************************************************************)
CONSTANTS Call, Answer, Failure

VARIABLES
  phase,    \* idle, open or settled
  outcome,  \* what a settled call yielded
  heard     \* the calls whose question a client has read

vars == <<phase, outcome, heard>>

Init ==
  /\ phase = [c \in Call |-> "idle"]
  /\ outcome = [c \in Call |-> "none"]
  /\ heard = {}

Open(c) ==
  /\ phase[c] = "idle"
  /\ phase' = [phase EXCEPT ![c] = "open"]
  /\ UNCHANGED <<outcome, heard>>

(* A client may read the question late, after the call gave up on it. *)
Hear(c) ==
  /\ phase[c] # "idle" /\ c \notin heard
  /\ heard' = heard \cup {c}
  /\ UNCHANGED <<phase, outcome>>

Settle(c, r) ==
  /\ phase[c] = "open"
  /\ r \in Answer => c \in heard
  /\ phase' = [phase EXCEPT ![c] = "settled"]
  /\ outcome' = [outcome EXCEPT ![c] = r]
  /\ UNCHANGED heard

Next == \E c \in Call :
  Open(c) \/ Hear(c) \/ \E r \in Answer \cup Failure : Settle(c, r)

Spec == Init /\ [][Next]_vars

=============================================================================
