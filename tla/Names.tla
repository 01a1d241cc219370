-------------------------------- MODULE Names --------------------------------
(***************************************************************************)
(* FQDN objects (fqdn.ts) and the arrays of labels behind them.  The       *)
(* constructor keeps the array it is given, so that a caller who keeps it  *)
(* too can change a name that others hold; parent, subdomain, clone and    *)
(* parse make arrays of their own.                                         *)
(***************************************************************************)
EXTENDS DomainName

CONSTANTS
  Labels,      \* the labels callers put into arrays and pass to subdomain
  Texts,       \* the texts callers pass to FQDN.parse
  MaxNames,    \* bound on the names made
  MaxLabels    \* bound on the labels of an array

ASSUME NamesAssumption ==
  /\ Labels \subseteq Seq(Octet) /\ Texts \subseteq Seq(Octet)
  /\ MaxNames \in Nat /\ MaxLabels \in Nat

VARIABLES
  arrays,      \* the arrays of labels; the first one is the caller's
  names,       \* the FQDN objects: their array and their cached text, and as
               \* history how they were made and their labels then, or
               \* Changed when the array has been changed since
  iterator     \* a LabelIterator: its array and index, or Done

vars == <<arrays, names, iterator>>

Uncached == <<>>     \* cached is undefined; else the sequence of the text
Changed == <<>>
Done == [array |-> 0, index |-> 0]

CallersArray == 1

LabelsOf(n) == arrays[names[n].array]

-----------------------------------------------------------------------------
(* The caller builds its array and may change it at any time. *)
SetArray(ls) ==
  /\ arrays' = [arrays EXCEPT ![CallersArray] = ls]
  /\ names' = [n \in 1..Len(names) |->
                 [names[n] EXCEPT !.born = IF names[n].array = CallersArray THEN Changed ELSE @]]
  /\ UNCHANGED iterator

CallerPush == \E l \in Labels : /\ Len(arrays[CallersArray]) < MaxLabels
                                /\ SetArray(Append(arrays[CallersArray], l))

CallerPop == /\ arrays[CallersArray] # <<>>
             /\ SetArray(Front(arrays[CallersArray]))

-----------------------------------------------------------------------------
Object(a, ls, how) ==
  [array |-> a, cached |-> Uncached, born |-> ls, made |-> how]

(* A constructor called on an array nobody else has. *)
Make(ls, how) ==
  /\ Len(names) < MaxNames
  /\ IF ls = Refused THEN UNCHANGED <<arrays, names>>
     ELSE /\ arrays' = Append(arrays, ls)
          /\ names' = Append(names, Object(Len(arrays) + 1, ls, how))
  /\ UNCHANGED iterator

(* new FQDN(labels): the null label is pushed onto the caller's array, even *)
(* when the constructor then throws; an empty one is left alone.           *)
Construct ==
  LET ls == arrays[CallersArray]
      kept == {n \in 1..Len(names) : names[n].array = CallersArray /\ Terminated(ls) # ls}
  IN  \/ ls = <<>> /\ Make(<<Null>>, "constructor")
      \/ /\ ls # <<>> /\ Len(names) < MaxNames
         /\ arrays' = [arrays EXCEPT ![CallersArray] = Terminated(ls)]
         /\ names' = [n \in 1..Len(names) |->
                        [names[n] EXCEPT !.born = IF n \in kept THEN Changed ELSE @]]
                     \o IF NameOf(ls) = Refused THEN <<>>
                        ELSE <<Object(CallersArray, NameOf(ls), "constructor")>>
         /\ UNCHANGED iterator

Parse == \E text \in Texts : Make(ParseName(text), "parse")

(* null of the root. *)
Parent == \E n \in 1..Len(names) :
  Len(LabelsOf(n)) > 1 /\ Make(NameOf(Tail(LabelsOf(n))), "library")

Subdomain == \E n \in 1..Len(names), l \in Labels :
  /\ Len(LabelsOf(n)) < MaxLabels
  /\ Make(NameOf(<<l>> \o LabelsOf(n)), "library")

(* clone: a name of a copy of the labels; as if it kept the array. *)
CloneShallow(n) ==
  /\ Len(names) < MaxNames
  /\ names' = Append(names, Object(names[n].array, LabelsOf(n), "library"))
  /\ UNCHANGED <<arrays, iterator>>

CloneDeep(n) == Make(NameOf(LabelsOf(n)), "library")

Clone == \E n \in 1..Len(names) : CloneDeep(n)

TextOf == \E n \in 1..Len(names) :
  /\ names' = [names EXCEPT ![n].cached = IF @ = Uncached THEN <<NameText(LabelsOf(n))>> ELSE @]
  /\ UNCHANGED <<arrays, iterator>>

-----------------------------------------------------------------------------
(* for (const label of name): the iterator ends when its index is the      *)
(* length of the array at that step, and goes on when it is past it.       *)
Iterate == \E n \in 1..Len(names) :
  /\ iterator = Done
  /\ iterator' = [array |-> names[n].array, index |-> 0]
  /\ UNCHANGED <<arrays, names>>

(* The next index, which stays where no array ends; as if it did not move. *)
SameIndex(i) == i

NextIndex(i) == IF i > MaxLabels + 1 THEN i ELSE i + 1

IteratorNext ==
  /\ iterator # Done
  /\ iterator' = IF iterator.index = Len(arrays[iterator.array]) THEN Done
                 ELSE [iterator EXCEPT !.index = NextIndex(@)]
  /\ UNCHANGED <<arrays, names>>

-----------------------------------------------------------------------------
Init == arrays = <<<<>>>> /\ names = <<>> /\ iterator = Done

Next == \/ CallerPush \/ CallerPop \/ Construct
        \/ Parse \/ Parent \/ Subdomain \/ Clone \/ TextOf
        \/ Iterate \/ IteratorNext

Spec == Init /\ [][Next]_vars /\ WF_vars(IteratorNext)

-----------------------------------------------------------------------------
(* How names compare.  A position is that in the sequence, from 0 on. *)
At(ls, i) == ls[i + 1]

AtReverse(ls, i) == ls[Len(ls) - i]

Equal(ls, base) ==
  Len(ls) = Len(base) /\ \A i \in 0..Len(ls)-1 : At(ls, i) = At(base, i)

(* As if the root were treated as any name. *)
StartWithRoot(ls, base, excludeSelf) ==
  /\ Len(ls) >= Len(base) /\ ~(excludeSelf /\ Len(ls) = Len(base))
  /\ \A i \in 0..Len(base)-2 : At(ls, i) = At(base, i)

StartWith(ls, base, excludeSelf) ==
  /\ Len(ls) >= Len(base) /\ ~(excludeSelf /\ Len(ls) = Len(base))
  /\ IF Len(base) = 1 THEN Len(ls) = 1
     ELSE \A i \in 0..Len(base)-2 : At(ls, i) = At(base, i)

EndsWith(ls, base, excludeSelf) ==
  /\ Len(ls) >= Len(base) /\ ~(excludeSelf /\ Len(ls) = Len(base))
  /\ \A i \in 0..Len(base)-1 : AtReverse(ls, i) = AtReverse(base, i)

-----------------------------------------------------------------------------
(* equal, startWith and endsWith say of any two names what parent and      *)
(* subdomain would: a name ends with its ancestors and itself, starts with *)
(* what subdomain may have been given, and of two names that each end with *)
(* the other both are equal; only the root starts with the root.           *)
Ancestors(ls) == {SubSeq(ls, k, Len(ls)) : k \in 1..Len(ls)}

RelationsAgree ==
  \A m, n \in {k \in 1..Len(names) : names[k].born # Changed} :
    LET name == names[m].born
        base == names[n].born
    IN  /\ Equal(name, base) <=> name = base
        /\ EndsWith(name, base, FALSE) <=> base \in Ancestors(name)
        /\ EndsWith(name, base, TRUE) <=> base \in Ancestors(name) \ {name}
        /\ StartWith(name, base, FALSE) <=>
             IF base = <<Null>> THEN name = base
             ELSE \E rest \in Ancestors(name) : name = Front(base) \o rest
        /\ StartWith(name, base, TRUE) <=> StartWith(name, base, FALSE) /\ name # base

(* A name keeps the labels it was made with, which the constructor let     *)
(* through, and its text is theirs whenever it was asked for first: except *)
(* that a name made by the constructor follows the array its caller kept.  *)
(* What parse, parent, subdomain and clone return is never changed, be it  *)
(* made of a name that is.                                                 *)
NamesStay ==
  \A n \in 1..Len(names) :
    /\ names[n].born = Changed => names[n].made = "constructor"
    /\ names[n].born # Changed =>
         /\ LabelsOf(n) = names[n].born
         /\ Terminated(LabelsOf(n)) = LabelsOf(n) /\ Acceptable(LabelsOf(n))
         /\ names[n].cached \in {Uncached, <<NameText(LabelsOf(n))>>}


(* A loop over the labels of a name ends, unless the caller still has the  *)
(* array the name was made of, and may shorten it under the loop.          *)
IterationEnds ==
  iterator # Done /\ iterator.array # CallersArray ~> iterator = Done
=============================================================================
