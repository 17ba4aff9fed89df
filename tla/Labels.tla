------------------------------- MODULE Labels -------------------------------
(***************************************************************************)
(* RFC 1035 labels (rfc1035label/label.go), used by the domain search      *)
(* options of DHCPv4 and DHCPv6.  A Labels object is parsed from a byte    *)
(* sequence, one iteration of labelsFromBytes per step; the user may then  *)
(* change its Labels field, and ToBytes serialises it again.               *)
(*                                                                         *)
(* Bytes are numbers below Base (256 in the code); a byte from PtrMin      *)
(* (0xc0) on starts a compression pointer, and Dot is the byte '.'.        *)
(***************************************************************************)
EXTENDS Integers, Sequences

CONSTANTS
  Base,     \* the number of byte values
  PtrMin,   \* the first byte that starts a pointer
  Dot,      \* the byte that separates the parts of a label
  Bufs,     \* the byte sequences that are parsed
  Edits     \* the values that the user gives to the Labels field

Byte == 0..Base-1

ASSUME LabelsAssumption ==
  /\ PtrMin \in Nat \ {0} /\ Base \in Nat /\ PtrMin < Base
  /\ Dot \in Byte
  /\ Bufs \subseteq Seq(Byte)
  /\ Edits \subseteq Seq(Seq(Byte))

VARIABLES
  original,  \* the bytes being parsed, l.original afterwards
  pc,        \* "parse", "error", "parsed" or "edited"
  pos, oldPos, handlingPointer, label,   \* of labelsFromBytes
  labels,    \* its result, l.Labels afterwards
  parsed,    \* the labels that original was parsed to
  sent,      \* the labels that were serialised, and whether anew
  round      \* 1 for the object of the user, 2 for that of the peer

object == <<original, parsed, sent, round>>
vars == <<object, pc, pos, oldPos, handlingPointer, label, labels>>

(* Every variable has its type. *)
TypeOK ==
  /\ original \in Seq(Byte)
  /\ pc \in {"parse", "error", "parsed", "edited"}
  /\ pos \in Nat /\ oldPos \in 0..Len(original)
  /\ handlingPointer \in BOOLEAN
  /\ label \in Seq(Byte) /\ labels \in Seq(Seq(Byte))
  /\ parsed \in Seq(Seq(Byte)) /\ round \in 1..2
  /\ sent \in [labels : Seq(Seq(Byte)), anew : BOOLEAN]

-----------------------------------------------------------------------------
(* labelsToBytes.                                                          *)

(* strings.Split(label, "."): the parts between the dots.                  *)
Parts(l) ==
  LET dots == {i \in 1..Len(l) : l[i] = Dot} \cup {0, Len(l) + 1}
      After(i) == CHOOSE j \in dots : j > i /\ \A k \in dots : k > i => k >= j
      part[i \in 0..Len(l)] ==
        IF i \notin dots THEN part[i - 1]
        ELSE (IF i = 0 THEN <<>> ELSE part[i - 1])
             \o <<SubSeq(l, i + 1, After(i) - 1)>>
  IN part[Len(l)]

(* One length byte, cut to a byte, before each part.                       *)
labelToBytes(l) ==
  LET ps == Parts(l)
      enc[i \in 0..Len(ps)] ==
        IF i = 0 THEN <<>> ELSE enc[i - 1] \o <<Len(ps[i]) % Base>> \o ps[i]
  IN IF l = <<>> THEN <<0>> ELSE enc[Len(ps)] \o <<0>>

labelsToBytes(ls) ==
  LET enc[i \in 0..Len(ls)] ==
        IF i = 0 THEN <<>> ELSE enc[i - 1] \o labelToBytes(ls[i])
  IN enc[Len(ls)]

-----------------------------------------------------------------------------
(* labelsFromBytes.  byte is buf[pos]; Go counts from 0.                   *)

byte == original[pos + 1]

(* FromBytes is called with data; l.original is set when it succeeds.      *)
Init ==
  /\ original \in Bufs
  /\ pc = "parse" /\ pos = 0 /\ oldPos = 0 /\ handlingPointer = FALSE
  /\ label = <<>> /\ labels = <<>> /\ parsed = <<>>
  /\ sent = [labels |-> <<>>, anew |-> FALSE] /\ round = 1

Parsing == pc = "parse" /\ pos < Len(original)

(* A zero byte ends the label; a label that was reached through a pointer  *)
(* is followed by what comes after the pointer.                            *)
EndLabel ==
  /\ Parsing /\ byte = 0
  /\ labels' = Append(labels, label) /\ label' = <<>>
  /\ pos' = IF handlingPointer THEN oldPos ELSE pos + 1
  /\ handlingPointer' = FALSE
  /\ UNCHANGED <<object, pc, oldPos>>

(* Mutant: a pointer may lead to another pointer.                          *)
NestedPointer ==
  /\ Parsing /\ byte >= PtrMin
  /\ pos + 1 < Len(original)
  /\ handlingPointer' = TRUE
  /\ oldPos' = pos + 2
  /\ pos' = (byte - PtrMin) * Base + original[pos + 2]
  /\ UNCHANGED <<object, pc, label, labels>>

(* A compression pointer.                                                  *)
Pointer ==
  /\ Parsing /\ byte >= PtrMin
  /\ ~handlingPointer /\ pos + 1 < Len(original)
  /\ handlingPointer' = TRUE
  /\ oldPos' = pos + 2
  /\ pos' = (byte - PtrMin) * Base + original[pos + 2]
  /\ UNCHANGED <<object, pc, label, labels>>

(* A nested pointer, a pointer without its second byte, a part that is     *)
(* longer than the rest: FromBytes returns an error.                       *)
BadBytes ==
  /\ Parsing
  /\ \/ byte >= PtrMin /\ (handlingPointer \/ pos + 1 >= Len(original))
     \/ byte \in 1..PtrMin-1 /\ pos + 1 + byte > Len(original)
  /\ pc' = "error"
  /\ UNCHANGED <<object, pos, oldPos, handlingPointer, label, labels>>

(* One part of a label.                                                    *)
Part ==
  /\ Parsing /\ byte \in 1..PtrMin-1
  /\ pos + 1 + byte <= Len(original)
  /\ label' = (IF label = <<>> THEN <<>> ELSE Append(label, Dot))
              \o SubSeq(original, pos + 2, pos + 1 + byte)
  /\ pos' = pos + 1 + byte
  /\ UNCHANGED <<object, pc, oldPos, handlingPointer, labels>>

(* The end of the buffer ends the loop; a label without its zero byte is   *)
(* dropped, and so is what follows a pointer that leads there.             *)
Stop ==
  /\ pc = "parse" /\ pos >= Len(original)
  /\ pc' = "parsed" /\ parsed' = labels
  /\ UNCHANGED <<original, pos, oldPos, handlingPointer, label, labels, sent, round>>

Step == EndLabel \/ Pointer \/ BadBytes \/ Part \/ Stop

-----------------------------------------------------------------------------
(* The object in its user's hands.                                         *)

(* The user assigns the Labels field.                                      *)
Edit(ls) ==
  /\ pc = "parsed" /\ round = 1
  /\ labels' = ls
  /\ pc' = "edited"
  /\ UNCHANGED <<object, pos, oldPos, handlingPointer, label>>

(* Mutant: a changed object is serialised as it was received.              *)
StaleToBytes == original

(* l.ToBytes: the bytes that were parsed, unless the labels differ from    *)
(* what these bytes say.                                                   *)
ToBytes == IF labels = parsed THEN original ELSE labelsToBytes(labels)

(* The object is sent, and the peer calls FromBytes with its bytes.        *)
Send ==
  /\ pc \in {"parsed", "edited"} /\ round = 1
  /\ original' = ToBytes
  /\ sent' = [labels |-> labels, anew |-> labels # parsed]
  /\ pc' = "parse" /\ round' = 2
  /\ pos' = 0 /\ oldPos' = 0 /\ handlingPointer' = FALSE
  /\ label' = <<>> /\ labels' = <<>> /\ parsed' = <<>>

Next == Step \/ (\E ls \in Edits : Edit(ls)) \/ Send

Spec == Init /\ [][Next]_vars

(* The parser runs in the goroutine that called it.                        *)
FairSpec == Spec /\ WF_vars(Step)

-----------------------------------------------------------------------------
(* Properties.                                                             *)

(* A label that the encoding can express: no empty part, and no part whose *)
(* length reads as a pointer or does not fit into the length byte.         *)
Encodable(l) ==
  l = <<>> \/ \A i \in 1..Len(Parts(l)) : Len(Parts(l)[i]) \in 1..PtrMin-1

(* What ToBytes returns for an object is parsed to the same labels: the    *)
(* received bytes, compressed or not, when nothing was changed, and a new  *)
(* encoding of the labels when the user changed them, provided every label *)
(* is Encodable.                                                           *)
RoundTrip ==
  (round = 2 /\ (sent.anew => \A i \in 1..Len(sent.labels) : Encodable(sent.labels[i])))
    => /\ pc # "error"
       /\ pc = "parsed" => labels = sent.labels

(* Parsing always comes to an end, with labels or with an error: no        *)
(* sequence of compression pointers keeps labelsFromBytes in its loop.     *)
Terminates == (pc = "parse") ~> (pc # "parse")
=============================================================================
