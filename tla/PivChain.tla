-------------------------------- MODULE PivChain --------------------------------
(***************************************************************************)
(* fl piv (fl/src/piv.rs): four commands to a PIV card, each response      *)
(* fetched in parts for as long as the card announces more, and the BER    *)
(* TLVs that hold the certificate and the signature.  Bytes are numbers,   *)
(* as the lengths of a TLV are what matters; keys and signatures are the   *)
(* values the card holds.                                                  *)
(***************************************************************************)
EXTENDS Naturals, Sequences

CONSTANTS
  Value,     \* the values a card may hold, sequences of bytes
  Neighbour, \* the tags and values of the TLVs it may put beside them
  PartSizes  \* the amounts of data a card puts in one response

Byte == 0 .. 255

(* A value in its TLV, with a neighbour, has a length of two bytes. *)
ValueAssumption ==
  /\ Value \subseteq Seq(Byte) /\ \A v \in Value : Len(v) + 8 < 65536
  /\ Neighbour \subseteq [tag : Byte, value : Seq(Byte)]
  /\ \A n \in Neighbour : Len(n.value) + 8 < 65536 /\ \A v \in Value : Len(v) + Len(n.value) + 8 < 65536
  /\ PartSizes \subseteq Nat \ {0}

Stages == <<"select", "chuid", "cert", "auth">>

VARIABLES
  stage,      \* the command under way
  activity,   \* "connect", "transmit", "judge" or "end"
  verdict,    \* of the run: "", "passed" or "failed"
  asking,     \* the command itself, or GET RESPONSE
  out,        \* the data received so far
  sw,         \* the last status word: "more" (61xx), "ok" (9000), "refused"
  held,       \* external: what the card's response holds, and its bytes
  left,       \* external: the part of it not yet given
  endless     \* external: a card that announces more for ever

card == <<held, left, endless>>
vars == <<stage, activity, verdict, asking, out, sw, card>>

(* External: a response with a value in it, and one without. *)
Holding(b, v) == [bytes |-> b, there |-> TRUE, value |-> v]
Without(b)    == [bytes |-> b, there |-> FALSE, value |-> <<>>]

Init ==
  /\ stage = 1 /\ activity = "connect" /\ verdict = ""
  /\ asking = "command" /\ out = <<>> /\ sw = "ok"
  /\ held = Without(<<>>) /\ left = <<>> /\ endless \in BOOLEAN

-----------------------------------------------------------------------------
(* External: a TLV, with its length in any form it may have ... *)
Lengths(n) ==
  {<<130, n \div 256, n % 256>>}
    \cup (IF n < 256 THEN {<<129, n>>} ELSE {}) \cup (IF n < 128 THEN {<<n>>} ELSE {})

Tlvs(tag, value) == {<<tag>> \o l \o value : l \in Lengths(Len(value))}

(* ... alone, after a TLV of another tag, or before one. *)
Beside(tag) == UNION {Tlvs(n.tag, n.value) : n \in {m \in Neighbour : m.tag # tag}}

Contents(tag, value) ==
  UNION {{t} \cup {b \o t : b \in Beside(tag)} \cup {t \o b : b \in Beside(tag)} : t \in Tlvs(tag, value)}

(* All of it may be cut short, and a neighbour may stand there alone. *)
Objects(outer, inner) ==
  LET whole == UNION {UNION {{Holding(b, v) : b \in Tlvs(outer, c)} : c \in Contents(inner, v)} : v \in Value}
      cut   == {Without(SubSeq(o.bytes, 1, Len(o.bytes) - 1)) : o \in whole}
      other == UNION {{Without(b) : b \in Tlvs(outer, c)} : c \in Beside(inner)}
  IN  whole \cup cut \cup other

Responses ==
  CASE Stages[stage] = "cert" -> Objects(83, 112)
    [] Stages[stage] = "auth" -> Objects(124, 130)
    [] OTHER -> {Without(<<1, 2>>)}

(***************************************************************************)
(* External: the card gives the next part, with 61xx while there is more,  *)
(* and otherwise a status of its choice.                                   *)
(***************************************************************************)
Smallest(a, b) == IF a < b THEN a ELSE b

Answer(rest, n, status) ==
  /\ left' = SubSeq(rest, n + 1, Len(rest))
  /\ sw' = status
  /\ status = "more" <=> n < Len(rest) \/ (endless /\ status # "refused")

Receive(part) == out' = out \o part

AskMore(status) == asking' = IF status = "more" THEN "rest" ELSE "command"

(* transmit(): the command, then GET RESPONSE while the card says 61xx. *)
Transmit ==
  /\ activity = "transmit"
  /\ \E h \in IF asking = "command" THEN Responses ELSE {held} :
       LET rest == IF asking = "command" THEN h.bytes ELSE left
       IN  \E n \in {Smallest(p, Len(rest)) : p \in PartSizes}, status \in {"more", "ok", "refused"} :
             /\ held' = h /\ Answer(rest, n, status)
             /\ Receive(SubSeq(rest, 1, n)) /\ AskMore(status)
             /\ activity' = IF status = "more" THEN "transmit" ELSE "judge"
  /\ UNCHANGED <<stage, verdict, endless>>

End(how) ==
  /\ activity' = "end" /\ verdict' = how
  /\ UNCHANGED <<stage, asking, out, sw, card>>

(* No reader, no card, an error of PCSC, or a response without status word. *)
CardFails ==
  /\ activity \in {"connect", "transmit"}
  /\ End("failed")

Connect ==
  /\ activity = "connect" /\ activity' = "transmit"
  /\ UNCHANGED <<stage, verdict, asking, out, sw, card>>

-----------------------------------------------------------------------------
NoTlv == [tag |-> 0, value |-> <<>>, rest |-> <<>>, ok |-> FALSE]

TlvOf(data, header, len) ==
  IF Len(data) < header + len THEN NoTlv
  ELSE [tag |-> data[1], value |-> SubSeq(data, header + 1, header + len),
        rest |-> SubSeq(data, header + len + 1, Len(data)), ok |-> TRUE]

(* Mutant: the two bytes of a long length are swapped. *)
ReadTlvSwapped(data) ==
  IF Len(data) < 2 THEN NoTlv
  ELSE CASE data[2] = 129 -> IF Len(data) < 3 THEN NoTlv ELSE TlvOf(data, 3, data[3])
         [] data[2] = 130 -> IF Len(data) < 4 THEN NoTlv
                             ELSE TlvOf(data, 4, 256 * data[4] + data[3])
         [] OTHER -> TlvOf(data, 2, data[2])

(* read_tlv: a tag of one byte, a length that is short or has 1 or 2 bytes. *)
ReadTlv(data) ==
  IF Len(data) < 2 THEN NoTlv
  ELSE CASE data[2] = 129 -> IF Len(data) < 3 THEN NoTlv ELSE TlvOf(data, 3, data[3])
         [] data[2] = 130 -> IF Len(data) < 4 THEN NoTlv
                             ELSE TlvOf(data, 4, 256 * data[3] + data[4])
         [] OTHER -> TlvOf(data, 2, data[2])

(* find_tlv: the first with this tag, past any others. *)
FindTlv(data, tag) ==
  LET Find[d \in Seq(Byte)] ==
        LET t == ReadTlv(d)
        IN  IF d = <<>> \/ ~ t.ok THEN NoTlv
            ELSE IF t.tag = tag THEN t ELSE Find[t.rest]
  IN  Find[data]

(* unwrap_tlv, then find_tlv in it. *)
Unwrap(data, outer, inner) ==
  LET t == ReadTlv(data)
  IN  IF ~ t.ok \/ t.tag # outer THEN NoTlv ELSE FindTlv(t.value, inner)

Proceed ==
  /\ stage' = stage + 1 /\ activity' = "transmit"
  /\ asking' = "command" /\ out' = <<>> /\ held' = Without(<<>>)
  /\ UNCHANGED <<verdict, sw, left, endless>>

(* Mutant: a refusal makes run() try again. *)
Retry ==
  /\ activity = "judge" /\ sw # "ok"
  /\ stage' = 1 /\ activity' = "transmit" /\ asking' = "command" /\ out' = <<>>
  /\ UNCHANGED <<verdict, sw, card>>

(* expect_ok, and what run_sequence makes of the data. *)
Refused ==
  /\ activity = "judge" /\ sw # "ok"
  /\ End("failed")

Selected ==
  /\ activity = "judge" /\ sw = "ok" /\ Stages[stage] \in {"select", "chuid"}
  /\ Proceed

CertRead ==
  /\ activity = "judge" /\ sw = "ok" /\ Stages[stage] = "cert"
  /\ \/ Unwrap(out, 83, 112).ok /\ Proceed
     \/ End("failed")                       \* or it is no certificate

(* The signature verifies when it is the one the card made. *)
SignatureRead ==
  /\ activity = "judge" /\ sw = "ok" /\ Stages[stage] = "auth"
  /\ LET t == Unwrap(out, 124, 130)
     IN  End(IF t.ok /\ t.value = held.value THEN "passed" ELSE "failed")

HostStep == Connect \/ Transmit \/ Refused \/ Selected \/ CertRead \/ SignatureRead

Next == HostStep \/ CardFails

Spec == Init /\ [][Next]_vars

-----------------------------------------------------------------------------
TypeOK ==
  /\ stage \in 1 .. Len(Stages) /\ activity \in {"connect", "transmit", "judge", "end"}
  /\ verdict \in {"", "passed", "failed"} /\ (verdict = "") = (activity # "end")
  /\ asking \in {"command", "rest"} /\ sw \in {"more", "ok", "refused"}
  /\ \A s \in {out, left} : \A i \in 1 .. Len(s) : s[i] \in Byte
  /\ endless \in BOOLEAN /\ held.there \in BOOLEAN

(***************************************************************************)
(* Data with status 9000 are the card's whole response, its parts in       *)
(* order; and what is found in them is the value the card put there, in    *)
(* whatever form its lengths are and whichever TLV of another tag stands   *)
(* before or after it, or nothing when the card put none or cut it short.  *)
(***************************************************************************)
ValueFound ==
  activity = "judge" /\ sw = "ok" =>
    LET t == CASE Stages[stage] = "cert" -> Unwrap(out, 83, 112)
               [] Stages[stage] = "auth" -> Unwrap(out, 124, 130)
               [] OTHER -> NoTlv
    IN  out = held.bytes /\ t.value = held.value /\ t.ok = held.there

(* A run ends unless the card announces more for ever. *)
Ends == endless \/ <>(activity = "end")

=============================================================================
