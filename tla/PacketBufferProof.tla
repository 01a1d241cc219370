------------------------- MODULE PacketBufferProof -------------------------
(***************************************************************************)
(* For every radix, message limit and set of calls: the type invariant of  *)
(* PacketBuffer, that the offset stays inside the array and the octets     *)
(* past it are zero, and that the buffer implements the octet log.         *)
(***************************************************************************)
EXTENDS PacketBuffer, TLAPS

-----------------------------------------------------------------------------
(* checkWrite makes room for the write and never shrinks the array. *)
LEMMA CapacityFits ==
  ASSUME NEW size \in Nat, NEW need \in Nat, need <= MaxMessageSize
  PROVE  /\ Capacity(size, need) \in Nat
         /\ size <= Capacity(size, need)
         /\ need <= Capacity(size, need)
  BY LimitAssumption DEF Capacity

(* What storing a sequence leaves at each position of the grown array. *)
LEMMA StoredOctets ==
  ASSUME NEW b \in Seq(Octet), NEW at \in Nat, NEW data \in Seq(Octet),
         at + Len(data) <= MaxMessageSize
  PROVE  /\ Stored(b, at, data) \in Seq(Octet)
         /\ Len(Stored(b, at, data)) = Capacity(Len(b), at + Len(data))
         /\ Len(Stored(b, at, data)) >= Len(b)
         /\ Len(Stored(b, at, data)) >= at + Len(data)
         /\ \A i \in 1..Len(Stored(b, at, data)) :
              Stored(b, at, data)[i] =
                IF i \in at+1..at+Len(data) THEN data[i - at]
                ELSE IF i <= Len(b) THEN b[i] ELSE 0
<1> DEFINE size == Capacity(Len(b), at + Len(data))
<1>1. size \in Nat /\ Len(b) <= size /\ at + Len(data) <= size
  BY CapacityFits
<1>2. ASSUME NEW i \in 1..size
      PROVE  (IF i \in at+1..at+Len(data) THEN data[i - at]
              ELSE IF i <= Len(b) THEN b[i] ELSE 0) \in Octet
  <2>1. CASE i \in at+1..at+Len(data)
    <3>1. i - at \in 1..Len(data)
      BY <2>1
    <3> QED BY <3>1, <2>1
  <2>2. CASE i \notin at+1..at+Len(data) /\ i <= Len(b)
    BY <2>2
  <2>3. CASE i \notin at+1..at+Len(data) /\ ~(i <= Len(b))
    BY <2>3, RadixAssumption DEF Octet
  <2> QED BY <2>1, <2>2, <2>3
<1> HIDE DEF size
<1>3. Stored(b, at, data) = [i \in 1..size |->
        IF i \in at+1..at+Len(data) THEN data[i - at]
        ELSE IF i <= Len(b) THEN b[i] ELSE 0]
  BY DEF Stored, size
<1>4. Stored(b, at, data) \in Seq(Octet) /\ Len(Stored(b, at, data)) = size
  BY <1>1, <1>2, <1>3
<1> QED BY <1>1, <1>3, <1>4 DEF size

(* A remainder modulo the radix is an octet. *)
LEMMA ModuloIsOctet == \A n \in Nat : n % Radix \in Octet
  BY RadixAssumption DEF Octet

(* A quotient by a positive number is a natural number. *)
LEMMA QuotientIsNat == \A n, m \in Nat : m > 0 => n \div m \in Nat
  BY Z3

(* The two octets writeUint16 stores. *)
LEMMA Uint16Octets ==
  ASSUME NEW n \in Nat
  PROVE  Uint16(n) \in Seq(Octet) /\ Len(Uint16(n)) = 2
<1>1. n \div Radix \in Nat
  BY QuotientIsNat, RadixAssumption
<1>2. (n \div Radix) % Radix \in Octet /\ n % Radix \in Octet
  BY <1>1, ModuloIsOctet
<1> QED BY <1>2 DEF Uint16

(* The four octets writeUint32 stores. *)
LEMMA Uint32Octets ==
  ASSUME NEW n \in Nat
  PROVE  Uint32(n) \in Seq(Octet) /\ Len(Uint32(n)) = 4
<1> DEFINE high == n \div (Radix * Radix)
<1>1. Radix * Radix \in Nat /\ Radix * Radix > 0
  BY RadixAssumption
<1>2. high \in Nat
  BY <1>1, QuotientIsNat
<1>3. Uint32(n) = Uint16(high) \o Uint16(n)
  BY DEF Uint32
<1> HIDE DEF high
<1>4. /\ Uint16(high) \in Seq(Octet) /\ Len(Uint16(high)) = 2
      /\ Uint16(n) \in Seq(Octet) /\ Len(Uint16(n)) = 2
  BY <1>2, Uint16Octets
<1>5. ASSUME NEW s \in Seq(Octet), NEW t \in Seq(Octet)
      PROVE  s \o t \in Seq(Octet) /\ Len(s \o t) = Len(s) + Len(t)
  OBVIOUS
<1>6. /\ Uint16(high) \o Uint16(n) \in Seq(Octet)
      /\ Len(Uint16(high) \o Uint16(n)) = Len(Uint16(high)) + Len(Uint16(n))
  BY <1>4, <1>5, Zenon
<1>7. Len(Uint32(n)) = 2 + 2
  BY <1>3, <1>4, <1>6, Zenon
<1> QED BY <1>3, <1>6, <1>7

-----------------------------------------------------------------------------
(* The two checks a write passes before it stores anything. *)
LEMMA VerdictOk ==
  ASSUME NEW at \in Int, NEW extra \in Nat, Verdict(at, extra) = "ok"
  PROVE  writable /\ at \in Nat /\ at + extra <= MaxMessageSize
<1>1. CASE ~writable
  BY <1>1 DEF Verdict
<1>2. CASE writable
  BY <1>2, LimitAssumption DEF Verdict
<1> QED BY <1>1, <1>2

(* A refused call throws one of the two exceptions. *)
LEMMA VerdictRefused ==
  ASSUME NEW at, NEW extra, Verdict(at, extra) # "ok"
  PROVE  Verdict(at, extra) \in {"Error", "RangeError"}
  BY DEF Verdict

BufferInv == BufferTypeOK /\ OffsetInBuffer /\ ZeroTail

(* An array b whose first end octets are written and whose others are zero. *)
Sound(b, end) == /\ b \in Seq(Octet)
                 /\ end \in Nat /\ end <= Len(b) /\ end <= MaxMessageSize
                 /\ \A i \in end+1..Len(b) : b[i] = 0

(* The invariant says that a writable buffer is sound up to its offset. *)
LEMMA InvIsSound ==
  BufferInv <=> /\ BufferTypeOK
                /\ writable => Sound(buf, offset)
  BY DEF BufferInv, BufferTypeOK, OffsetInBuffer, ZeroTail, Sound

(* A write at the end of what is written. *)
LEMMA StoreAtEnd ==
  ASSUME NEW b, NEW end, Sound(b, end), NEW data \in Seq(Octet),
         end + Len(data) <= MaxMessageSize
  PROVE  Sound(Stored(b, end, data), end + Len(data))
  BY StoredOctets DEF Sound

(* A write anywhere, the gap before it filled with zeros. *)
LEMMA StoreAnywhere ==
  ASSUME NEW b, NEW end, Sound(b, end), NEW at \in Nat,
         NEW data \in Seq(Octet), at + Len(data) <= MaxMessageSize
  PROVE  Sound(Stored(b, at, data),
               IF at + Len(data) > end THEN at + Len(data) ELSE end)
<1> DEFINE c == Stored(b, at, data)
           stop == at + Len(data)
<1>1. /\ b \in Seq(Octet) /\ end \in Nat /\ end <= Len(b) /\ end <= MaxMessageSize
      /\ \A i \in end+1..Len(b) : b[i] = 0
  BY DEF Sound
<1>2. stop \in Nat /\ stop <= MaxMessageSize
  OBVIOUS
<1>3. /\ c \in Seq(Octet) /\ Len(c) >= Len(b) /\ Len(c) >= stop
      /\ \A i \in 1..Len(c) :
           c[i] = IF i \in at+1..stop THEN data[i - at]
                  ELSE IF i <= Len(b) THEN b[i] ELSE 0
  BY <1>1, StoredOctets
<1> HIDE DEF c, stop
<1>4. CASE stop > end
  <2>1. \A i \in stop+1..Len(c) : c[i] = 0
    BY <1>1, <1>2, <1>3, <1>4
  <2>2. Sound(c, stop)
    BY <1>1, <1>2, <1>3, <1>4, <2>1 DEF Sound
  <2> QED BY <1>4, <2>2 DEF c, stop
<1>5. CASE ~(stop > end)
  <2>1. \A i \in end+1..Len(c) : c[i] = 0
    BY <1>1, <1>2, <1>3, <1>5
  <2>2. Sound(c, end)
    BY <1>1, <1>2, <1>3, <1>5, <2>1 DEF Sound
  <2> QED BY <1>5, <2>2 DEF c, stop
<1> QED BY <1>4, <1>5

(* A write that leaves the buffer writable and sound keeps the invariant. *)
LEMMA SoundKeepsInv ==
  ASSUME writable \in BOOLEAN, writable' = writable,
         Sound(buf, offset)', outcome' \in {"ok", "Error", "RangeError"}
  PROVE  BufferInv'
  BY DEF BufferInv, BufferTypeOK, OffsetInBuffer, ZeroTail, Sound

(* A write at the offset leaves the offset behind what it wrote. *)
LEMMA EmitKeepsInv ==
  ASSUME BufferInv, NEW data \in Seq(Octet), Emit(data)
  PROVE  BufferInv'
<1>1. /\ Verdict(offset, Len(data)) = "ok"
      /\ buf' = Stored(buf, offset, data)
      /\ offset' = offset + Len(data)
      /\ outcome' = "ok" /\ writable' = writable
  BY DEF Emit
<1>2. offset \in Int /\ Len(data) \in Nat
  BY DEF BufferInv, BufferTypeOK
<1>3. writable /\ offset + Len(data) <= MaxMessageSize
  BY <1>1, <1>2, VerdictOk
<1>4. Sound(buf, offset) /\ writable \in BOOLEAN
  BY <1>3, InvIsSound DEF BufferTypeOK
<1>5. Sound(Stored(buf, offset, data), offset + Len(data))
  BY <1>3, <1>4, StoreAtEnd
<1>6. Sound(buf', offset')
  BY <1>1, <1>5, Zenon
<1> QED BY <1>1, <1>4, <1>6, SoundKeepsInv

(* A refused call changes nothing but the outcome. *)
LEMMA RefuseKeepsInv ==
  ASSUME BufferInv, NEW at, NEW extra, Refuse(at, extra)
  PROVE  BufferInv'
  BY DEF Refuse, Verdict, BufferInv, BufferTypeOK, OffsetInBuffer, ZeroTail

LEMMA PutKeepsInv ==
  ASSUME BufferInv, NEW data \in Seq(Octet), Put(data)
  PROVE  BufferInv'
  BY EmitKeepsInv, RefuseKeepsInv DEF Put

(* The length octet of a label is a sequence of one octet. *)
LEMMA LengthOctet ==
  ASSUME NEW label \in Seq(Octet)
  PROVE  /\ <<Len(label) % Radix>> \in Seq(Octet)
         /\ Len(<<Len(label) % Radix>>) = 1
<1>1. Len(label) \in Nat
  OBVIOUS
<1>2. Len(label) % Radix \in Octet
  BY <1>1, ModuloIsOctet
<1> QED BY <1>2

(* A sound buffer that takes a length octet is sound one octet further. *)
LEMMA StoreLength ==
  ASSUME Sound(buf, offset), NEW label \in Seq(Octet), offset + 1 <= MaxMessageSize
  PROVE  Sound(Stored(buf, offset, <<Len(label) % Radix>>), offset + 1)
<1> DEFINE length == <<Len(label) % Radix>>
<1>1. length \in Seq(Octet) /\ Len(length) = 1
  BY LengthOctet
<1> HIDE DEF length
<1>2. Sound(Stored(buf, offset, length), offset + Len(length))
  BY <1>1, StoreAtEnd
<1> QED BY <1>1, <1>2, Zenon DEF length

LEMMA EmitLabelKeepsInv ==
  ASSUME BufferInv, NEW label \in Seq(Octet), EmitLabel(label)
  PROVE  BufferInv'
<1> DEFINE mid == Stored(buf, offset, <<Len(label) % Radix>>)
<1>1. /\ Verdict(offset, 1 + Len(label)) = "ok"
      /\ buf' = Stored(mid, offset + 1, label)
      /\ offset' = offset + 1 + Len(label)
      /\ outcome' = "ok" /\ writable' = writable
  BY DEF EmitLabel
<1>2. offset \in Int /\ Len(label) \in Nat /\ 1 + Len(label) \in Nat
  BY DEF BufferInv, BufferTypeOK
<1>3. writable /\ offset + (1 + Len(label)) <= MaxMessageSize
  BY <1>1, <1>2, VerdictOk
<1>4. Sound(buf, offset) /\ writable \in BOOLEAN
  BY <1>3, InvIsSound DEF BufferTypeOK
<1>5. offset + 1 <= MaxMessageSize /\ (offset + 1) + Len(label) <= MaxMessageSize
  BY <1>2, <1>3, LimitAssumption
<1>6. Sound(mid, offset + 1)
  BY <1>4, <1>5, StoreLength
<1> HIDE DEF mid
<1>7. Sound(Stored(mid, offset + 1, label), offset + 1 + Len(label))
  BY <1>5, <1>6, StoreAtEnd
<1>8. Sound(buf', offset')
  BY <1>1, <1>7, Zenon
<1> QED BY <1>1, <1>4, <1>8, SoundKeepsInv

LEMMA TearLabelKeepsInv ==
  ASSUME BufferInv, NEW label \in Seq(Octet), TearLabel(label)
  PROVE  BufferInv'
<1>1. /\ Verdict(offset, 1) = "ok"
      /\ buf' = Stored(buf, offset, <<Len(label) % Radix>>)
      /\ offset' = offset + 1
      /\ outcome' \in {"ok", "Error", "RangeError"} /\ writable' = writable
  BY VerdictRefused DEF TearLabel
<1>2. offset \in Int
  BY DEF BufferInv, BufferTypeOK
<1>3. writable /\ offset + 1 <= MaxMessageSize
  BY <1>1, <1>2, VerdictOk
<1>4. Sound(buf, offset) /\ writable \in BOOLEAN
  BY <1>3, InvIsSound DEF BufferTypeOK
<1>5. Sound(buf', offset')
  BY <1>1, <1>3, <1>4, StoreLength, Zenon
<1> QED BY <1>1, <1>4, <1>5, SoundKeepsInv

LEMMA Uint16AtKeepsInv ==
  ASSUME BufferInv, WriteUint16At
  PROVE  BufferInv'
<1>1. PICK n \in Numbers, pos \in Positions :
         \/ /\ Verdict(pos, 2) = "ok"
            /\ buf' = Stored(buf, pos, Uint16(n))
            /\ offset' = IF pos + 2 > offset THEN pos + 2 ELSE offset
            /\ outcome' = "ok"
            /\ UNCHANGED writable
         \/ Refuse(pos, 2)
  BY DEF WriteUint16At, EndAfter
<1>2. CASE Refuse(pos, 2)
  BY <1>2, RefuseKeepsInv
<1>3. CASE ~Refuse(pos, 2)
  <2>1. /\ Verdict(pos, 2) = "ok"
        /\ buf' = Stored(buf, pos, Uint16(n))
        /\ offset' = IF pos + 2 > offset THEN pos + 2 ELSE offset
        /\ outcome' = "ok" /\ writable' = writable
    BY <1>1, <1>3
  <2>2. n \in Nat /\ pos \in Int
    BY CallAssumption
  <2>3. Uint16(n) \in Seq(Octet) /\ Len(Uint16(n)) = 2
    BY <2>2, Uint16Octets
  <2>4. writable /\ pos \in Nat /\ pos + 2 <= MaxMessageSize
    BY <2>1, <2>2, VerdictOk
  <2>5. Sound(buf, offset) /\ writable \in BOOLEAN
    BY <2>4, InvIsSound DEF BufferTypeOK
  <2>6. pos + Len(Uint16(n)) = pos + 2
    BY <2>3, Zenon
  <2>7. Sound(Stored(buf, pos, Uint16(n)), offset')
    BY <2>1, <2>3, <2>4, <2>5, <2>6, StoreAnywhere
  <2>8. Sound(buf', offset')
    BY <2>1, <2>7, Zenon
  <2> QED BY <2>1, <2>5, <2>8, SoundKeepsInv
<1> QED BY <1>2, <1>3

(* A frozen buffer is a prefix of the old array and accepts no write. *)
LEMMA FreezeToKeepsInv ==
  ASSUME BufferInv, NEW len \in Nat, FreezeTo(len)
  PROVE  BufferInv'
<1>1. /\ buf' = SubSeq(buf, 1, IF len < Len(buf) THEN len ELSE Len(buf))
      /\ writable' = FALSE /\ outcome' = "ok" /\ offset' = offset
  BY DEF FreezeTo
<1>2. buf' \in Seq(Octet)
  BY <1>1 DEF BufferInv, BufferTypeOK
<1> QED BY <1>1, <1>2 DEF BufferInv, BufferTypeOK, OffsetInBuffer, ZeroTail

(* A new buffer satisfies the invariant. *)
LEMMA InitEstablishesInv == BufferInit => BufferInv
<1> SUFFICES ASSUME BufferInit PROVE BufferInv
  OBVIOUS
<1>1. CASE Alloc
  <2>1. PICK size \in Sizes : buf = [i \in 1..size |-> 0]
    BY <1>1 DEF Alloc
  <2>2. size \in Nat /\ 0 \in Octet
    BY CallAssumption, RadixAssumption DEF Octet
  <2>3. buf \in Seq(Octet) /\ Len(buf) = size /\ \A i \in 1..size : buf[i] = 0
    BY <2>1, <2>2
  <2>4. offset = 0 /\ outcome = "ok" /\ writable = TRUE
    BY <1>1 DEF Alloc, BufferInit
  <2>5. BufferTypeOK
    BY <2>3, <2>4 DEF BufferTypeOK
  <2>6. OffsetInBuffer
    BY <2>2, <2>3, <2>4, LimitAssumption DEF OffsetInBuffer
  <2>7. ZeroTail
    BY <2>2, <2>3, <2>4 DEF ZeroTail
  <2> QED BY <2>5, <2>6, <2>7 DEF BufferInv
<1>2. CASE From
  BY <1>2, CallAssumption
     DEF From, BufferInit, BufferInv, BufferTypeOK, OffsetInBuffer, ZeroTail
<1> QED BY <1>1, <1>2 DEF BufferInit

(* Every step of the buffer keeps the invariant. *)
LEMMA NextKeepsInv == BufferInv /\ [BufferNext]_bufferVars => BufferInv'
<1> SUFFICES ASSUME BufferInv, [BufferNext]_bufferVars PROVE BufferInv'
  OBVIOUS
<1>1. CASE Write
  BY <1>1, CallAssumption, PutKeepsInv DEF Write
<1>2. CASE WriteUint8
  <2>1. PICK n \in Numbers : Put(<<n % Radix>>)
    BY <1>2 DEF WriteUint8
  <2>2. n % Radix \in Octet
    BY CallAssumption, ModuloIsOctet
  <2>3. <<n % Radix>> \in Seq(Octet)
    BY <2>2
  <2> QED BY <2>1, <2>3, PutKeepsInv
<1>3. CASE WriteUint16
  BY <1>3, CallAssumption, Uint16Octets, PutKeepsInv DEF WriteUint16
<1>4. CASE WriteUint32
  BY <1>4, CallAssumption, Uint32Octets, PutKeepsInv DEF WriteUint32
<1>5. CASE WriteUint16At
  BY <1>5, Uint16AtKeepsInv
<1>6. CASE WriteLabel
  <2>1. PICK label \in Labels :
           \/ label = <<>> /\ Put(<<0>>)
           \/ label # <<>> /\ (EmitLabel(label) \/ TearLabel(label) \/ Refuse(offset, 1))
    BY <1>6 DEF WriteLabel
  <2>2. label \in Seq(Octet) /\ <<0>> \in Seq(Octet)
    BY CallAssumption, RadixAssumption DEF Octet
  <2> QED BY <2>1, <2>2, PutKeepsInv, EmitLabelKeepsInv, TearLabelKeepsInv, RefuseKeepsInv
<1>7. CASE Freeze
  BY <1>7, FreezeToKeepsInv, LimitAssumption DEF Freeze
<1>8. CASE UNCHANGED bufferVars
  BY <1>8 DEF bufferVars, BufferInv, BufferTypeOK, OffsetInBuffer, ZeroTail
<1> QED BY <1>1, <1>2, <1>3, <1>4, <1>5, <1>6, <1>7, <1>8 DEF BufferNext

-----------------------------------------------------------------------------
(* The inductive invariant of the buffer, for every radix and limit. *)
THEOREM BufferInvariant == BufferSpec => []BufferInv
  BY InitEstablishesInv, NextKeepsInv, PTL DEF BufferSpec

(* Every octet stored is an octet and every call ends in one of three ways. *)
THEOREM BufferTypeCorrect == BufferSpec => []BufferTypeOK
<1>1. BufferInv => BufferTypeOK
  BY DEF BufferInv
<1> QED BY <1>1, BufferInvariant, PTL

(* What a writable buffer was given lies inside its array and a message. *)
THEOREM OffsetStaysInBuffer == BufferSpec => []OffsetInBuffer
<1>1. BufferInv => OffsetInBuffer
  BY DEF BufferInv
<1> QED BY <1>1, BufferInvariant, PTL

(* The octets past the offset of a writable buffer are zero. *)
THEOREM TailStaysZero == BufferSpec => []ZeroTail
<1>1. BufferInv => ZeroTail
  BY DEF BufferInv
<1> QED BY <1>1, BufferInvariant, PTL
=============================================================================
