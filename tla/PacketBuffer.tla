---------------------------- MODULE PacketBuffer ----------------------------
(***************************************************************************)
(* BufferWriter of buffer.ts, the growing byte buffer every pack() writes  *)
(* into: a zero-filled Uint8Array, a write offset, and a flag that alloc() *)
(* sets and freeze() clears.  One action per writing method; a call that   *)
(* throws is a step too, with the exception in outcome.                    *)
(***************************************************************************)
EXTENDS WireFormat

CONSTANTS
  MaxMessageSize,   \* MAX_MESSAGE_SIZE; 0xffff in the code
  Sizes,            \* the sizes alloc() is called with
  Chunks,           \* the octet sequences callers write, or wrap with from()
  Numbers,          \* the numbers callers write
  Labels,           \* the labels callers write
  Positions         \* the positions callers patch

ASSUME LimitAssumption == MaxMessageSize \in Nat
ASSUME CallAssumption == /\ Sizes \subseteq Nat
                         /\ Chunks \subseteq Seq(Octet)
                         /\ Numbers \subseteq Nat
                         /\ Labels \subseteq Seq(Octet)
                         /\ Positions \subseteq Int

VARIABLES
  buf,        \* the allocated octets
  offset,     \* where the next write goes
  writable,   \* allocated by alloc() and not frozen
  outcome     \* "ok", or the exception the last call threw

bufferVars == <<buf, offset, writable, outcome>>

-----------------------------------------------------------------------------
(* checkWrite: whether a write of extra octets at a position may proceed. *)
Verdict(at, extra) ==
  IF ~writable THEN "Error"
  ELSE IF at < 0 \/ at + extra > MaxMessageSize THEN "RangeError"
  ELSE "ok"

(* Mutants: growth that doubles without looking at the need, and growth to *)
(* the need alone.                                                         *)
CapacityDoubled(size, need) ==
  IF need <= size THEN size
  ELSE IF 2 * size > MaxMessageSize THEN MaxMessageSize ELSE 2 * size

CapacityNeeded(size, need) == IF need <= size THEN size ELSE need

(* checkWrite: the capacity of a buffer of size octets after it made room. *)
Capacity(size, need) ==
  LET doubled == IF 2 * size < need THEN need ELSE 2 * size
  IN  IF need <= size THEN size
      ELSE IF doubled > MaxMessageSize THEN MaxMessageSize ELSE doubled

(* Mutant: the old octets are not copied into the new array. *)
StoredFresh(b, at, data) ==
  LET size == Capacity(Len(b), at + Len(data)) IN
  [i \in 1..size |-> IF i \in at+1..at+Len(data) THEN data[i - at]
                     ELSE IF i <= Len(b) /\ size = Len(b) THEN b[i] ELSE 0]

(* The buffer b, grown if need be, with data stored at a position. *)
Stored(b, at, data) ==
  [i \in 1..Capacity(Len(b), at + Len(data)) |->
     IF i \in at+1..at+Len(data) THEN data[i - at]
     ELSE IF i <= Len(b) THEN b[i] ELSE 0]

Uint16NoMask(n) == <<n \div Radix, n % Radix>>     \* mutant: & 0xff is missing

Uint16(n) == <<(n \div Radix) % Radix, n % Radix>>

Uint32(n) == Uint16(n \div (Radix * Radix)) \o Uint16(n)

-----------------------------------------------------------------------------
Refuse(at, extra) == /\ Verdict(at, extra) # "ok"
                     /\ outcome' = Verdict(at, extra)
                     /\ UNCHANGED <<buf, offset, writable>>

Emit(data) == /\ Verdict(offset, Len(data)) = "ok"
              /\ buf' = Stored(buf, offset, data)
              /\ offset' = offset + Len(data)
              /\ outcome' = "ok"
              /\ UNCHANGED writable

Put(data) == Emit(data) \/ Refuse(offset, Len(data))

(* writeLabel of a non-empty label: the length octet, then the data. *)
EmitLabel(label) ==
  /\ Verdict(offset, 1 + Len(label)) = "ok"
  /\ \E b \in {Stored(buf, offset, <<Len(label) % Radix>>)} :
       buf' = Stored(b, offset + 1, label)
  /\ offset' = offset + 1 + Len(label)
  /\ outcome' = "ok"
  /\ UNCHANGED writable

(* writeLabel whose second write throws: the length octet stays written. *)
TearLabel(label) ==
  /\ Verdict(offset, 1) = "ok"
  /\ Verdict(offset + 1, Len(label)) # "ok"
  /\ buf' = Stored(buf, offset, <<Len(label) % Radix>>)
  /\ offset' = offset + 1
  /\ outcome' = Verdict(offset + 1, Len(label))
  /\ UNCHANGED writable

Write == \E data \in Chunks : Put(data)
WriteUint8 == \E n \in Numbers : Put(<<n % Radix>>)
WriteUint16 == \E n \in Numbers : Put(Uint16(n))
WriteUint32 == \E n \in Numbers : Put(Uint32(n))

(* The offset after two octets were stored at a position. *)
EndAfterIgnored(pos) == offset     \* mutant: a patch past the end is not counted

EndAfter(pos) == IF pos + 2 > offset THEN pos + 2 ELSE offset

WriteUint16At ==
  \E n \in Numbers, pos \in Positions :
    \/ /\ Verdict(pos, 2) = "ok"
       /\ buf' = Stored(buf, pos, Uint16(n))
       /\ offset' = EndAfter(pos)
       /\ outcome' = "ok"
       /\ UNCHANGED writable
    \/ Refuse(pos, 2)

WriteLabel ==
  \E label \in Labels :
    \/ label = <<>> /\ Put(<<0>>)
    \/ label # <<>> /\ (EmitLabel(label) \/ TearLabel(label) \/ Refuse(offset, 1))

FreezeTo(len) ==
  /\ buf' = SubSeq(buf, 1, IF len < Len(buf) THEN len ELSE Len(buf))
  /\ writable' = FALSE
  /\ outcome' = "ok"
  /\ UNCHANGED offset

Freeze == \E len \in 0..MaxMessageSize : FreezeTo(len)

-----------------------------------------------------------------------------
Alloc == /\ \E size \in Sizes : buf = [i \in 1..size |-> 0]
         /\ writable = TRUE

From == buf \in Chunks /\ writable = FALSE

BufferInit == /\ Alloc \/ From
              /\ offset = 0
              /\ outcome = "ok"

BufferNext == \/ Write \/ WriteUint8 \/ WriteUint16 \/ WriteUint32
              \/ WriteUint16At \/ WriteLabel \/ Freeze

BufferSpec == BufferInit /\ [][BufferNext]_bufferVars

-----------------------------------------------------------------------------
(* Every octet of the array is an octet (writes mask their numbers), and a *)
(* call ends in one of the three ways the methods of buffer.ts end.        *)
BufferTypeOK == /\ buf \in Seq(Octet)
                /\ offset \in Nat
                /\ writable \in BOOLEAN
                /\ outcome \in {"ok", "Error", "RangeError"}

(* While the buffer is writable, what was written lies inside the array    *)
(* and inside a DNS message: growth always makes enough room before a      *)
(* method stores, and the 64K check comes before both.                     *)
OffsetInBuffer == writable => offset <= Len(buf) /\ offset <= MaxMessageSize

(* The octets past the offset are zero, so a buffer that grew, a patch     *)
(* past the end and a freeze beyond the offset never expose stale octets.  *)
ZeroTail == writable => \A i \in offset+1..Len(buf) : buf[i] = 0

(* "It is able to grow exponentially when it is writable" (the comment on  *)
(* PacketBuffer): growth at least doubles the array unless it reaches the  *)
(* largest message.                                                        *)
GrowsExponentially ==
  [][Len(buf') > Len(buf) =>
       Len(buf') >= 2 * Len(buf) \/ Len(buf') = MaxMessageSize]_bufferVars

(* What a reader of the buffer may rely on: the writer implements a log of *)
(* octets, whatever it reallocates and in whichever way its calls fail.    *)
Log == INSTANCE OctetLog
         WITH Limit <- MaxMessageSize,
              log <- IF writable THEN SubSeq(buf, 1, offset) ELSE buf,
              sealed <- ~writable

ImplementsLog == Log!LogSpec
=============================================================================
