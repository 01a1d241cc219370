------------------------------- MODULE Slice -------------------------------
(***************************************************************************)
(* Slice and Packet of packet.ts: cursors over the octets of a received    *)
(* message.  A packet covers the whole message; readSlice(rdlength) makes  *)
(* the slice a record's RDATA is read from, and a name in either may jump  *)
(* by compression pointers to anywhere in the message.  findLabels runs    *)
(* one loop iteration per step; the other reads are one step each.         *)
(***************************************************************************)
EXTENDS DomainName

CONSTANTS
  Messages,    \* the messages received
  Lengths      \* the lengths callers ask readSlice, readUint8Array, ... for

ASSUME MessageAssumption == /\ Messages \subseteq Seq(Octet)
                            /\ Lengths \subseteq Int

VARIABLES
  msg,         \* the octets of the message
  lookup,      \* lookupLabels is set: a Packet or a slice of one
  slices,      \* the packet and the slice last made of it
  outcome,     \* how the last call ended
  reader,      \* the slice readName was called on, "none" between calls
  first,       \* where findLabels was called (absolute)
  cursor,      \* where it reads next (absolute)
  pointers,    \* the compression pointers followed
  taken,       \* the octets of the name up to its first pointer, if any
  labels       \* the labels found; of the last name between calls

readVars == <<reader, first, cursor, pointers, taken, labels>>
vars == <<msg, lookup, slices, outcome, readVars>>

Readers == {"packet", "rdata"}

(* check: a read stays within the slice.  As an off-by-slice error would   *)
(* have it: within the message.                                            *)
FitsMessage(r, length) ==
  slices[r].offset + slices[r].cur + length <= Len(msg)

Fits(r, length) == slices[r].cur + length <= slices[r].len

Remaining(r) == slices[r].len - slices[r].cur

-----------------------------------------------------------------------------
MoveTo(r, pos) == slices' = [slices EXCEPT ![r].cur = pos]

Fail(exception) == /\ outcome' = exception
                   /\ reader' = "none" /\ first' = 0 /\ cursor' = 0
                   /\ pointers' = 0 /\ taken' = 0 /\ labels' = <<>>
                   /\ UNCHANGED <<msg, lookup, slices>>

-----------------------------------------------------------------------------
(* readName of a slice: findLabels from its cursor. *)
ReadName(r) == /\ reader = "none"
               /\ reader' = r
               /\ first' = slices[r].offset + slices[r].cur
               /\ cursor' = first'
               /\ pointers' = 0 /\ taken' = 0 /\ labels' = <<>>
               /\ outcome' = "ok"
               /\ UNCHANGED <<msg, lookup, slices>>

Reading == reader # "none"

LengthOctet == msg[cursor + 1]

(* readUint8 and slice of the whole message check its end, not the slice's. *)
PastEnd == Reading /\ cursor >= Len(msg) /\ Fail("RangeError")

(* The octets of the name in the slice readName was called on.  As if the  *)
(* size were that of the labels last read, wherever they are.              *)
SizeOfSuffix == cursor + 1 - first

SizeInSlice == IF pointers = 0 THEN cursor + 1 - first ELSE taken

EndOfName ==
  /\ Reading /\ cursor < Len(msg) /\ LengthOctet = 0
  /\ \/ /\ ~Fits(reader, SizeInSlice) \/ ~Acceptable(Append(labels, Null))
        /\ Fail("ParseError")
     \/ /\ Fits(reader, SizeInSlice) /\ Acceptable(Append(labels, Null))
        /\ MoveTo(reader, slices[reader].cur + SizeInSlice)
        /\ labels' = Append(labels, Null)
        /\ reader' = "none" /\ first' = 0 /\ cursor' = 0 /\ pointers' = 0 /\ taken' = 0
        /\ outcome' = "ok"
        /\ UNCHANGED <<msg, lookup>>

(* pointers++ with the pointer just met; as pointers++ in an argument. *)
CountedTooLate == pointers

Counted == pointers + 1

(* The limit on them; as a limit checked before the pointer is counted. *)
TooManyBefore == pointers > MaxPointers

TooMany == Counted > MaxPointers

Pointer ==
  /\ Reading /\ cursor < Len(msg) /\ LengthOctet >= PointerTag
  /\ \/ TooMany /\ Fail("ParseError")
     \/ ~TooMany /\ cursor + 1 >= Len(msg) /\ Fail("RangeError")
     \/ ~TooMany /\ cursor + 1 < Len(msg) /\ ~lookup /\ Fail("ParseError")
     \/ /\ ~TooMany /\ cursor + 1 < Len(msg) /\ lookup
        /\ first' = (LengthOctet - PointerTag) * Radix + msg[cursor + 2]
        /\ cursor' = first'
        /\ taken' = IF pointers = 0 THEN cursor + 2 - first ELSE taken
        /\ pointers' = Counted
        /\ UNCHANGED <<msg, lookup, slices, outcome, reader, labels>>

(* The limit on the octets of a name, which are counted from the last      *)
(* pointer on; as a limit that leaves no room for the null label.          *)
TooLongLater(end) == end - first > MaxName

TooLong(end) == end - first >= MaxName

Label ==
  LET end == cursor + 1 + LengthOctet IN
  /\ Reading /\ cursor < Len(msg) /\ LengthOctet \in 1..PointerTag-1
  /\ \/ end > Len(msg) /\ Fail("RangeError")
     \/ /\ end <= Len(msg)
        /\ LengthOctet > MaxLabel \/ TooLong(end)
        /\ Fail("ParseError")
     \/ /\ end <= Len(msg) /\ LengthOctet <= MaxLabel /\ ~TooLong(end)
        /\ labels' = Append(labels, SubSeq(msg, cursor + 2, end))
        /\ cursor' = end
        /\ UNCHANGED <<msg, lookup, slices, outcome, reader, first, pointers, taken>>

-----------------------------------------------------------------------------
(* Reads of a fixed or given number of octets: check, then advance.  A     *)
(* length that is not positive reads nothing (readUint8Array, readString). *)
Read(r, length) ==
  \/ ~Fits(r, length) /\ Fail("ParseError")
  \/ /\ Fits(r, length)
     /\ MoveTo(r, slices[r].cur + (IF length > 0 THEN length ELSE 0))
     /\ outcome' = "ok"
     /\ labels' = <<>>
     /\ UNCHANGED <<msg, lookup, reader, first, cursor, pointers, taken>>

ReadUint(r) == \E width \in {1, 2, 4} : Read(r, width)

ReadOctets(r) == \E length \in Lengths \cup {Remaining(r)} : Read(r, length)

(* readUint48 is two reads: the second may fail with the first one done. *)
ReadUint48(r) ==
  \/ (Fits(r, 4) => Fits(r, 6)) /\ Read(r, 6)
  \/ /\ Fits(r, 4) /\ ~Fits(r, 6)
     /\ MoveTo(r, slices[r].cur + 4)
     /\ outcome' = "ParseError"
     /\ labels' = <<>>
     /\ UNCHANGED <<msg, lookup, reader, first, cursor, pointers, taken>>

(* readSlice of the packet: the RDATA of a record. *)
ReadSlice ==
  \E length \in Lengths \cap Nat :
    \/ ~Fits("packet", length) /\ Fail("ParseError")
    \/ /\ Fits("packet", length)
       /\ slices' =
            [packet |-> [slices["packet"] EXCEPT !.cur = @ + length],
             rdata  |-> [offset |-> slices["packet"].offset + slices["packet"].cur,
                         len |-> length, cur |-> 0]]
       /\ outcome' = "ok"
       /\ labels' = <<>>
       /\ UNCHANGED <<msg, lookup, reader, first, cursor, pointers, taken>>

Seek(r) ==
  \E pos \in Lengths :
    \/ pos \notin 0..slices[r].len /\ Fail("ParseError")
    \/ /\ pos \in 0..slices[r].len
       /\ MoveTo(r, pos)
       /\ outcome' = "ok"
       /\ labels' = <<>>
       /\ UNCHANGED <<msg, lookup, reader, first, cursor, pointers, taken>>

-----------------------------------------------------------------------------
(* The rdata slice has no length until a record's RDATA is taken. *)
Init == /\ msg \in Messages
        /\ lookup \in BOOLEAN
        /\ slices = [packet |-> [offset |-> 0, len |-> Len(msg), cur |-> 0],
                     rdata  |-> [offset |-> 0, len |-> 0, cur |-> 0]]
        /\ outcome = "ok"
        /\ reader = "none" /\ first = 0 /\ cursor = 0
        /\ pointers = 0 /\ taken = 0 /\ labels = <<>>

FindLabels == PastEnd \/ EndOfName \/ Pointer \/ Label

OtherRead ==
  /\ ~Reading
  /\ \/ ReadSlice
     \/ \E r \in Readers : ReadUint(r) \/ ReadUint48(r) \/ ReadOctets(r) \/ Seek(r)

Next == FindLabels \/ OtherRead \/ \E r \in Readers : ReadName(r)

Spec == Init /\ [][Next]_vars /\ WF_vars(FindLabels)

-----------------------------------------------------------------------------
(* The type invariant: no more pointers than the limit among others. *)
SliceTypeOK ==
  /\ msg \in Messages /\ lookup \in BOOLEAN
  /\ slices \in [Readers -> [offset : Nat, len : Nat, cur : Nat]]
  /\ outcome \in {"ok", "ParseError", "RangeError"}
  /\ reader \in Readers \cup {"none"}
  /\ first \in Nat /\ cursor \in Nat /\ taken \in Nat
  /\ pointers \in 0..MaxPointers
  /\ labels \in Seq(Seq(Octet))

(* No sequence of reads, seeks and jumps takes a cursor past its slice or  *)
(* a slice past the message, although a name in it is read with no regard  *)
(* to where the slice ends.                                                *)
CursorsInSlice ==
  \A r \in Readers : /\ slices[r].cur <= slices[r].len
                     /\ slices[r].offset + slices[r].len <= Len(msg)

(* readName returns the labels the message has from the slice's cursor on  *)
(* and moves the cursor past the labels before the first pointer and that  *)
(* pointer, or past the null label, however far the pointers lead.         *)
NameFillsItsOctets ==
  [][Reading /\ reader' = "none" /\ outcome' = "ok" =>
       LET slice == slices[reader]
           start == slice.offset + slice.cur
           end   == slice.offset + slices'[reader].cur
           octets == SubSeq(msg, start + 1, end)
       IN  /\ labels' = ReadLabels(msg, start, MaxPointers)
           /\ \/ octets = Spelt(labels')
              \/ \E n \in 0..Len(labels') :
                   \E high \in PointerTag..Radix-1, low \in Octet :
                     /\ octets = Spelt(SubSeq(labels', 1, n)) \o <<high, low>>
                     /\ SubSeq(labels', n + 1, Len(labels')) =
                          ReadLabels(msg, (high - PointerTag) * Radix + low, MaxPointers)]_vars

(* findLabels ends, pointers that lead back to themselves included. *)
NamesEnd == Reading ~> ~Reading

(* "Max domain name octets": the limit holds for a name without pointers.  *)
(* As the octets are counted anew after every pointer, a name that is read *)
(* over pointers may be as long as the limit for each of its parts.        *)
NameWithinLimit ==
  [][Reading /\ reader' = "none" /\ outcome' = "ok" =>
       Len(Spelt(labels')) <= (pointers + 1) * (MaxName - 1) + 1]_vars
=============================================================================
