----------------------------- MODULE DomainName -----------------------------
(***************************************************************************)
(* What fqdn.ts makes of labels and texts: the checks of the FQDN          *)
(* constructor, FQDN.parse and the text of a name.                         *)
(***************************************************************************)
EXTENDS WireFormat, SequencesExt

CONSTANTS
  Dot,         \* the octet of "."
  Minus,       \* the octet of "-"
  Backslash,   \* the octet of "\"
  Digits       \* the octets of "0" to "9"

ASSUME CharacterAssumption == {Dot, Minus, Backslash} \cup Digits \subseteq Octet

(* /^-?\d+$/ *)
Numeric(label) ==
  /\ label # <<>>
  /\ \E from \in {1, IF label[1] = Minus THEN 2 ELSE 1} :
       from <= Len(label) /\ \A i \in from..Len(label) : label[i] \in Digits

(* The FQDN constructor: the null label is added where it is missing ...   *)
Terminated(ls) == IF ls = <<>> \/ Last(ls) # Null THEN Append(ls, Null) ELSE ls

(* ... and every other label has its length, no backslash, and is not      *)
(* numeric as the top level.                                               *)
Acceptable(ls) ==
  /\ \A i \in 1..Len(ls)-1 : /\ Len(ls[i]) \in 1..MaxLabel
                             /\ \A j \in 1..Len(ls[i]) : ls[i][j] # Backslash
  /\ Len(ls) > 1 => ~Numeric(ls[Len(ls) - 1])

Refused == <<>>     \* in place of the labels of a constructor that throws

NameOf(ls) == IF Acceptable(Terminated(ls)) THEN Terminated(ls) ELSE Refused

(* name.split(".") *)
Split(text) ==
  FoldLeft(LAMBDA ls, c : IF c = Dot THEN Append(ls, <<>>)
                          ELSE [ls EXCEPT ![Len(ls)] = Append(@, c)],
           <<<<>>>>, text)


TextLimit(text) == IF Last(text) = Dot THEN MaxName ELSE MaxName - 1

ParseName(text) ==
  IF text \in {<<>>, <<Dot>>} THEN <<Null>>
  ELSE IF Len(text) > TextLimit(text) THEN Refused
  ELSE NameOf(Split(text))

(* toString *)
NameText(ls) ==
  IF Len(ls) <= 1 THEN <<Dot>>
  ELSE FlattenSeq([i \in 1..Len(ls)-1 |-> Append(ls[i], Dot)])

(* The octets of a name that is written without compression. *)
Spelt(ls) == FoldLeft(LAMBDA octets, l : octets \o <<Len(l)>> \o l, <<>>, ls)
=============================================================================
