------------------------------ MODULE OctetLog ------------------------------
(***************************************************************************)
(* What a writer of DNS wire data promises, with no buffer behind it: a    *)
(* log of octets that calls extend at its end or patch two octets of,      *)
(* until it is sealed.  A refused call reports why and leaves the log as   *)
(* it was; a label is a length octet and its data, two writes, so a label  *)
(* that does not fit may leave its length octet behind.                    *)
(***************************************************************************)
EXTENDS Integers, Sequences

CONSTANTS
  Radix,      \* the number of values of an octet
  Limit,      \* the most octets a log may hold
  Chunks,     \* the octet sequences a caller writes
  Numbers,    \* the numbers a caller writes
  Labels,     \* the labels a caller writes
  Positions   \* the positions a caller patches

VARIABLES
  log,        \* the octets written so far
  sealed,     \* no write is accepted any more
  outcome     \* how the last call ended

logVars == <<log, sealed, outcome>>

LogInit == /\ log \in {<<>>} \cup Chunks
           /\ sealed \in BOOLEAN
           /\ sealed \/ log = <<>>
           /\ outcome = "ok"

Fits(length) == ~sealed /\ length <= Limit

Add(data) == /\ Fits(Len(log) + Len(data))
             /\ log' = log \o data
             /\ outcome' = "ok"
             /\ UNCHANGED sealed

AddData == \E data \in Chunks : Add(data)

(* Octets hi and lo are the sixteen low bits of a number. *)
Halves(n, hi, lo) == hi * Radix + lo = n % (Radix * Radix)

(* A number goes out big-endian, reduced to the width of its field. *)
AddNumber ==
  \E n \in Numbers :
    \/ Add(<<n % Radix>>)
    \/ \E c, d \in 0..Radix-1 :
         /\ Halves(n, c, d)
         /\ \/ Add(<<c, d>>)
            \/ \E a, b \in 0..Radix-1 : /\ Halves(n \div (Radix * Radix), a, b)
                                        /\ Add(<<a, b, c, d>>)

AddLabel == \E label \in Labels : Add(<<Len(label)>> \o label)

(* The length octet of a label whose data was refused. *)
AddTornLabel ==
  \E label \in Labels : /\ Fits(Len(log) + 1)
                        /\ ~Fits(Len(log) + 1 + Len(label))
                        /\ log' = log \o <<Len(label)>>
                        /\ outcome' = "RangeError"
                        /\ UNCHANGED sealed

(* Two octets are replaced in place; a patch past the end zero-fills the gap. *)
Patch ==
  \E n \in Numbers, pos \in Positions \cap Nat :
    /\ Fits(pos + 2)
    /\ \E hi, lo \in 0..Radix-1 :
         /\ Halves(n, hi, lo)
         /\ log' = [i \in 1..(IF pos + 2 > Len(log) THEN pos + 2 ELSE Len(log)) |->
                      IF i = pos + 1 THEN hi
                      ELSE IF i = pos + 2 THEN lo
                      ELSE IF i <= Len(log) THEN log[i] ELSE 0]
    /\ outcome' = "ok"
    /\ UNCHANGED sealed

(* Sealing keeps a prefix; a longer seal may show zero octets, no others. *)
Seal == /\ \/ \E len \in 0..Len(log) : log' = SubSeq(log, 1, len)
           \/ \E zeros \in 0..Limit :
                log' = log \o [i \in 1..zeros |-> 0]
        /\ sealed' = TRUE
        /\ outcome' = "ok"

Reject == /\ \/ sealed /\ outcome' = "Error"
             \/ ~sealed /\ outcome' = "RangeError"
          /\ UNCHANGED <<log, sealed>>

LogNext == AddData \/ AddNumber \/ AddLabel \/ AddTornLabel \/ Patch \/ Seal \/ Reject

LogSpec == LogInit /\ [][LogNext]_logVars
=============================================================================
