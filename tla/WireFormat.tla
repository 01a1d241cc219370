----------------------------- MODULE WireFormat -----------------------------
(***************************************************************************)
(* The constants of the DNS wire format as the code fixes them, and how    *)
(* Slice.findLabels of packet.ts reads a domain name.  Every limit is a    *)
(* fraction of the number of values of an octet, so that a Radix of 8 or   *)
(* 16 gives a scale model in which all of them can be reached.             *)
(***************************************************************************)
EXTENDS Integers, Sequences

CONSTANT Radix      \* the number of values of an octet; 256 in the code

ASSUME RadixAssumption == Radix \in Nat /\ Radix >= 8 /\ Radix % 4 = 0

Octet == 0..Radix-1

PointerTag  == 3 * (Radix \div 4)          \* LABEL_POINTER: 0b11000000
MaxLabel    == Radix \div 4 - 1            \* MAX_DOMAIN_LABEL_WIRE_OCTETS: 63
MaxName     == Radix - 1                   \* MAX_DOMAIN_NAME_WIRE_OCTETS: 255
MaxPointers == (MaxName + 1) \div 2 - 2    \* MAX_COMPRESSION_POINTERS: 126
OffsetLimit == (Radix * Radix) \div 4      \* MAX_COMPRESSION_OFFSET: 1 << 14

(* A name is the sequence of its labels without the null label; a label is *)
(* the sequence of its octets.                                             *)
Null == <<>>

(* In place of the labels that a reader which throws does not return. *)
Garbage == <<-1>>

-----------------------------------------------------------------------------
(* findLabels on a whole message: the labels from a position, the null     *)
(* label last.  It follows at most limit pointers, p is the read position, *)
(* first where the literal labels it is reading began.                     *)
ReadLabels(b, start, limit) ==
  LET read[p \in Nat, first \in Nat, pointers \in 0..limit] ==
        IF p >= Len(b) THEN <<Garbage>>
        ELSE LET length == b[p + 1]
                 end == p + 1 + length
             IN  IF length = 0 THEN <<Null>>
                 ELSE IF length >= PointerTag
                 THEN IF pointers = limit \/ p + 1 >= Len(b) THEN <<Garbage>>
                      ELSE LET to == (length - PointerTag) * Radix + b[p + 2]
                           IN  read[to, to, pointers + 1]
                 ELSE IF end > Len(b) \/ length > MaxLabel \/ end - first >= MaxName
                 THEN <<Garbage>>
                 ELSE <<SubSeq(b, p + 2, end)>> \o read[end, first, pointers]
  IN  read[start, start, 0]
=============================================================================
