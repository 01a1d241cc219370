----------------------------- MODULE SliceProof -----------------------------
(***************************************************************************)
(* Proofs about Slice: the cursors stay in their slices and the slices in  *)
(* the message, for every message and every length asked for.  Neither     *)
(* part is inductive alone: that a cursor is a natural number after a name *)
(* needs findLabels never to read before the position it was called on.    *)
(***************************************************************************)
EXTENDS Slice, TLAPS

(* What findLabels has read lies after where it was called. *)
ReadsForward == first <= cursor

SliceInv == SliceTypeOK /\ CursorsInSlice /\ ReadsForward

LEMMA MessageFacts ==
  ASSUME SliceTypeOK
  PROVE  /\ msg \in Seq(Octet) /\ Len(msg) \in Nat
         /\ \A p \in 0..Len(msg)-1 : msg[p + 1] \in Octet
BY MessageAssumption DEF SliceTypeOK

LEMMA LimitFacts ==
  /\ Radix \in Nat /\ PointerTag \in Nat /\ PointerTag < Radix
  /\ MaxPointers \in Nat
BY RadixAssumption DEF PointerTag, MaxPointers, MaxName

(* What a failed call leaves satisfies the invariant. *)
LEMMA FailKeepsInv ==
  ASSUME SliceInv, NEW e \in {"ParseError", "RangeError"}, Fail(e)
  PROVE  SliceInv'
BY LimitFacts DEF SliceInv, SliceTypeOK, CursorsInSlice, ReadsForward, Fail

(* So does a call that only moves a cursor forward within its slice. *)
LEMMA MoveKeepsInv ==
  ASSUME SliceInv, NEW r \in Readers, NEW pos \in Nat, pos <= slices[r].len,
         MoveTo(r, pos), outcome' \in {"ok", "ParseError"}, labels' = <<>>,
         UNCHANGED <<msg, lookup, reader, first, cursor, pointers, taken>>
  PROVE  SliceInv'
<1>1. slices' \in [Readers -> [offset : Nat, len : Nat, cur : Nat]]
  BY DEF SliceInv, SliceTypeOK, MoveTo
<1>2. CursorsInSlice'
  BY DEF SliceInv, SliceTypeOK, CursorsInSlice, MoveTo
<1> QED
  BY <1>1, <1>2 DEF SliceInv, SliceTypeOK, ReadsForward

LEMMA ReadKeepsInv ==
  ASSUME SliceInv, NEW r \in Readers, NEW length \in Int, Read(r, length)
  PROVE  SliceInv'
<1>1. CASE Fail("ParseError")
  BY <1>1, FailKeepsInv
<1>2. CASE ~Fail("ParseError")
  <2> DEFINE pos == slices[r].cur + (IF length > 0 THEN length ELSE 0)
  <2>1. pos \in Nat /\ pos <= slices[r].len
    BY <1>2 DEF Read, Fits, SliceInv, SliceTypeOK, CursorsInSlice
  <2>2. MoveTo(r, pos) /\ outcome' = "ok" /\ labels' = <<>>
    BY <1>2 DEF Read
  <2>3. UNCHANGED <<msg, lookup, reader, first, cursor, pointers, taken>>
    BY <1>2 DEF Read
  <2> HIDE DEF pos
  <2> QED
    BY <2>1, <2>2, <2>3, MoveKeepsInv
<1> QED
  BY <1>1, <1>2

LEMMA NameKeepsInv ==
  ASSUME SliceInv, NEW r \in Readers, ReadName(r)
  PROVE  SliceInv'
<1>1. slices[r].offset + slices[r].cur \in Nat
  BY DEF SliceInv, SliceTypeOK
<1> QED
  BY <1>1, LimitFacts DEF SliceInv, SliceTypeOK, CursorsInSlice, ReadsForward, ReadName

LEMMA EndKeepsInv ==
  ASSUME SliceInv, EndOfName
  PROVE  SliceInv'
<1>1. CASE Fail("ParseError")
  BY <1>1, FailKeepsInv
<1>2. CASE ~Fail("ParseError")
  <2> DEFINE pos == slices[reader].cur + SizeInSlice
  <2>1. reader \in Readers
    BY DEF EndOfName, Reading, SliceInv, SliceTypeOK
  <2>2. SizeInSlice \in Nat
    BY DEF SizeInSlice, SliceInv, SliceTypeOK, ReadsForward
  <2>3. pos \in Nat /\ pos <= slices[reader].len
    BY <1>2, <2>1, <2>2 DEF EndOfName, Fits, SliceInv, SliceTypeOK
  <2>4. MoveTo(reader, pos) /\ UNCHANGED <<msg, lookup>>
    BY <1>2 DEF EndOfName
  <2>5. /\ reader' = "none" /\ first' = 0 /\ cursor' = 0
        /\ pointers' = 0 /\ taken' = 0 /\ outcome' = "ok"
        /\ labels' = Append(labels, Null)
    BY <1>2 DEF EndOfName
  <2> HIDE DEF pos
  <2>6. slices' \in [Readers -> [offset : Nat, len : Nat, cur : Nat]]
    BY <2>1, <2>3, <2>4 DEF SliceInv, SliceTypeOK, MoveTo
  <2>7. CursorsInSlice'
    BY <2>1, <2>3, <2>4 DEF SliceInv, SliceTypeOK, CursorsInSlice, MoveTo
  <2>8. labels' \in Seq(Seq(Octet))
    BY <2>5 DEF SliceInv, SliceTypeOK, Null
  <2> QED
    BY <2>4, <2>5, <2>6, <2>7, <2>8, LimitFacts DEF SliceInv, SliceTypeOK, ReadsForward
<1> QED
  BY <1>1, <1>2

LEMMA PointerKeepsInv ==
  ASSUME SliceInv, Pointer
  PROVE  SliceInv'
<1>1. CASE Fail("ParseError") \/ Fail("RangeError")
  BY <1>1, FailKeepsInv
<1>2. CASE ~(Fail("ParseError") \/ Fail("RangeError"))
  <2> DEFINE to == (LengthOctet - PointerTag) * Radix + msg[cursor + 2]
  <2>1. /\ cursor + 1 < Len(msg) /\ LengthOctet >= PointerTag /\ ~TooMany
        /\ first' = to /\ cursor' = to
        /\ taken' = IF pointers = 0 THEN cursor + 2 - first ELSE taken
        /\ pointers' = Counted
        /\ UNCHANGED <<msg, lookup, slices, outcome, reader, labels>>
    BY <1>2 DEF Pointer
  <2>2. cursor \in Nat /\ first \in Nat /\ first <= cursor /\ pointers \in 0..MaxPointers
    BY DEF SliceInv, SliceTypeOK, ReadsForward
  <2>3. LengthOctet \in Octet /\ msg[cursor + 2] \in Octet
    <3>1. cursor \in 0..Len(msg)-1 /\ cursor + 1 \in 0..Len(msg)-1
      BY <2>1, <2>2, MessageFacts DEF SliceInv
    <3>2. LengthOctet \in Octet /\ msg[cursor + 1 + 1] \in Octet
      BY <3>1, MessageFacts DEF SliceInv, LengthOctet
    <3>3. cursor + 1 + 1 = cursor + 2
      BY <2>2
    <3> QED
      BY <3>2, <3>3
  <2>4. to \in Nat
    BY <2>1, <2>3, LimitFacts DEF Octet
  <2>5. taken' \in Nat
    BY <2>1, <2>2 DEF SliceInv, SliceTypeOK
  <2>6. pointers' \in 0..MaxPointers
    BY <2>1, <2>2, LimitFacts DEF TooMany, Counted
  <2> HIDE DEF to
  <2> QED
    BY <2>1, <2>4, <2>5, <2>6 DEF SliceInv, SliceTypeOK, CursorsInSlice, ReadsForward
<1> QED
  BY <1>1, <1>2

LEMMA LabelKeepsInv ==
  ASSUME SliceInv, Label
  PROVE  SliceInv'
<1>1. CASE Fail("ParseError") \/ Fail("RangeError")
  BY <1>1, FailKeepsInv
<1>2. CASE ~(Fail("ParseError") \/ Fail("RangeError"))
  <2> DEFINE end == cursor + 1 + LengthOctet
  <2>1. /\ LengthOctet \in 1..PointerTag-1 /\ end <= Len(msg)
        /\ labels' = Append(labels, SubSeq(msg, cursor + 2, end)) /\ cursor' = end
        /\ UNCHANGED <<msg, lookup, slices, outcome, reader, first, pointers, taken>>
    BY <1>2 DEF Label
  <2>2. cursor \in Nat /\ first \in Nat /\ first <= cursor
    BY DEF SliceInv, SliceTypeOK, ReadsForward
  <2>3. end \in Nat /\ first <= end
    BY <2>1, <2>2, LimitFacts
  <2>4. SubSeq(msg, cursor + 2, end) \in Seq(Octet)
    BY <2>1, <2>2, <2>3, MessageFacts DEF SliceInv
  <2>5. labels' \in Seq(Seq(Octet))
    BY <2>1, <2>4 DEF SliceInv, SliceTypeOK
  <2> HIDE DEF end
  <2> QED
    BY <2>1, <2>3, <2>5 DEF SliceInv, SliceTypeOK, CursorsInSlice, ReadsForward
<1> QED
  BY <1>1, <1>2

LEMMA Uint48KeepsInv ==
  ASSUME SliceInv, NEW r \in Readers, ReadUint48(r)
  PROVE  SliceInv'
<1>1. CASE Read(r, 6)
  BY <1>1, ReadKeepsInv
<1>2. CASE ~Read(r, 6)
  <2>1. /\ Fits(r, 4) /\ MoveTo(r, slices[r].cur + 4)
        /\ outcome' = "ParseError" /\ labels' = <<>>
        /\ UNCHANGED <<msg, lookup, reader, first, cursor, pointers, taken>>
    BY <1>2 DEF ReadUint48
  <2>2. slices[r].cur + 4 \in Nat /\ slices[r].cur + 4 <= slices[r].len
    BY <2>1 DEF Fits, SliceInv, SliceTypeOK
  <2> QED
    BY <2>1, <2>2, MoveKeepsInv
<1> QED
  BY <1>1, <1>2

LEMMA SeekKeepsInv ==
  ASSUME SliceInv, NEW r \in Readers, Seek(r)
  PROVE  SliceInv'
<1>1. PICK pos \in Lengths :
        \/ Fail("ParseError")
        \/ /\ pos \in 0..slices[r].len
           /\ MoveTo(r, pos) /\ outcome' = "ok" /\ labels' = <<>>
           /\ UNCHANGED <<msg, lookup, reader, first, cursor, pointers, taken>>
  BY DEF Seek
<1>2. CASE Fail("ParseError")
  BY <1>2, FailKeepsInv
<1>3. CASE ~Fail("ParseError")
  <2>1. pos \in Nat /\ pos <= slices[r].len
    BY <1>1, <1>3 DEF SliceInv, SliceTypeOK
  <2> QED
    BY <1>1, <1>3, <2>1, MoveKeepsInv
<1> QED
  BY <1>2, <1>3

LEMMA SliceKeepsInv ==
  ASSUME SliceInv, ReadSlice
  PROVE  SliceInv'
<1>1. CASE Fail("ParseError")
  BY <1>1, FailKeepsInv
<1>2. CASE ~Fail("ParseError")
  <2> DEFINE made(length) ==
        [packet |-> [slices["packet"] EXCEPT !.cur = @ + length],
         rdata  |-> [offset |-> slices["packet"].offset + slices["packet"].cur,
                     len |-> length, cur |-> 0]]
  <2>1. PICK length \in Lengths \cap Nat :
          /\ Fits("packet", length) /\ slices' = made(length)
          /\ outcome' = "ok" /\ labels' = <<>>
          /\ UNCHANGED <<msg, lookup, reader, first, cursor, pointers, taken>>
    BY <1>2 DEF ReadSlice
  <2>2. slices["packet"] \in [offset : Nat, len : Nat, cur : Nat]
    BY DEF SliceInv, SliceTypeOK, Readers
  <2>3. slices' \in [Readers -> [offset : Nat, len : Nat, cur : Nat]]
    BY <2>1, <2>2 DEF Readers
  <2>4. CursorsInSlice'
    <3>1. Len(msg) \in Nat
      BY MessageFacts DEF SliceInv
    <3>2. /\ slices["packet"].cur + length <= slices["packet"].len
          /\ slices["packet"].offset + slices["packet"].len <= Len(msg)
      BY <2>1 DEF Fits, SliceInv, CursorsInSlice, Readers
    <3> QED
      BY <2>1, <2>2, <3>1, <3>2 DEF CursorsInSlice, Readers
  <2> HIDE DEF made
  <2> QED
    BY <2>1, <2>3, <2>4 DEF SliceInv, SliceTypeOK, ReadsForward
<1> QED
  BY <1>1, <1>2

LEMMA InitEstablishesInv ==
  ASSUME Init
  PROVE  SliceInv
<1>1. msg \in Messages /\ Len(msg) \in Nat
  BY MessageAssumption DEF Init
<1> QED
  BY <1>1, LimitFacts
  DEF Init, SliceInv, SliceTypeOK, CursorsInSlice, ReadsForward, Readers

LEMMA OtherReadKeepsInv ==
  ASSUME SliceInv, OtherRead
  PROVE  SliceInv'
<1>1. CASE ReadSlice
  BY <1>1, SliceKeepsInv
<1>2. ASSUME NEW r \in Readers, ReadUint(r) PROVE SliceInv'
  BY <1>2, ReadKeepsInv DEF ReadUint
<1>3. ASSUME NEW r \in Readers, ReadUint48(r) PROVE SliceInv'
  BY <1>3, Uint48KeepsInv
<1>4. ASSUME NEW r \in Readers, ReadOctets(r) PROVE SliceInv'
  <2>1. Remaining(r) \in Int
    BY DEF Remaining, SliceInv, SliceTypeOK
  <2> QED
    BY <1>4, <2>1, ReadKeepsInv, MessageAssumption DEF ReadOctets
<1>5. ASSUME NEW r \in Readers, Seek(r) PROVE SliceInv'
  BY <1>5, SeekKeepsInv
<1> QED
  BY <1>1, <1>2, <1>3, <1>4, <1>5 DEF OtherRead

(* SliceInv is an invariant of every sequence of reads: what the theorems  *)
(* below take their invariants from.                                       *)
THEOREM SliceInvariant == Spec => []SliceInv
<1>1. Init => SliceInv
  BY InitEstablishesInv
<1>2. SliceInv /\ [Next]_vars => SliceInv'
  <2> SUFFICES ASSUME SliceInv, [Next]_vars PROVE SliceInv'
    OBVIOUS
  <2>1. CASE FindLabels
    BY <2>1, FailKeepsInv, EndKeepsInv, PointerKeepsInv, LabelKeepsInv
    DEF FindLabels, PastEnd
  <2>2. CASE OtherRead
    BY <2>2, OtherReadKeepsInv
  <2>3. ASSUME NEW r \in Readers, ReadName(r) PROVE SliceInv'
    BY <2>3, NameKeepsInv
  <2>4. CASE UNCHANGED vars
    BY <2>4 DEF vars, readVars, SliceInv, SliceTypeOK, CursorsInSlice, ReadsForward
  <2> QED
    BY <2>1, <2>2, <2>3, <2>4 DEF Next
<1> QED
  BY <1>1, <1>2, PTL DEF Spec

(* Reads keep the reader's state well formed, and findLabels never follows *)
(* more pointers than MAX_COMPRESSION_POINTERS (packet.ts, findLabels).    *)
THEOREM SliceTypeCorrect == Spec => []SliceTypeOK
BY SliceInvariant, PTL DEF SliceInv

(* No read, seek or name takes a cursor out of its slice or a slice out of *)
(* the message (packet.ts, check, seek and readName).                      *)
THEOREM CursorsStayInSlice == Spec => []CursorsInSlice
BY SliceInvariant, PTL DEF SliceInv
=============================================================================
