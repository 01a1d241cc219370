-------------------------- MODULE CompressorProof --------------------------
(***************************************************************************)
(* For every radix, limit and set of names: the positions writeName caches *)
(* are the offsets of the buffer, and every pointer it writes leads back   *)
(* to a label sequence the compressor spelled out, even when calls before  *)
(* it threw half-way and left entries for labels that were never written.  *)
(***************************************************************************)
EXTENDS Compressor, PacketBufferProof

-----------------------------------------------------------------------------
(* Types of the call's locals and of the table. *)
StatePart ==
  /\ compressing \in BOOLEAN
  /\ pc \in {"idle", "label", "last", "pointer", "plain"}
  /\ start \in Nat /\ n \in Nat /\ calls \in Nat /\ attached \in Nat
  /\ name \in Seq(Seq(Octet))
  /\ labels \in Seq(Seq(Octet))
  /\ \A i \in 1..Len(labels) : Len(labels[i]) <= MaxLabel
  /\ offset \in Nat /\ offset <= MaxMessageSize

(* What the loop still has to write ends in the null label. *)
CursorPart ==
  /\ PositionFollowsOffset
  /\ pc # "idle" => labels[Len(labels)] = Null
  /\ pc = "label" => Len(labels) >= 2
  /\ pc = "pointer" => FindEntry(entries, labels) # NotFound

(* A cached position is behind the offset, or the buffer is full; and if a *)
(* pointer can hold it, a label sequence was spelled out there.            *)
EntryPart ==
  \A key \in DOMAIN entries :
    /\ entries[key] \in Nat /\ entries[key] <= MaxMessageSize
    /\ writable => entries[key] < offset \/ offset >= MaxMessageSize
    /\ writable /\ entries[key] <= OffsetLimit
         => \E lit \in literals : lit.at = entries[key]

CompressorInv ==
  BufferInv /\ StatePart /\ CursorPart /\ EntryPart /\ PointersLeadBack

-----------------------------------------------------------------------------
(* The limits of the wire format are natural numbers. *)
LEMMA WireLimits ==
  /\ PointerTag \in Nat /\ MaxLabel \in Nat /\ OffsetLimit \in Nat
  /\ MaxLabel < Radix
<1>1. Radix \div 4 \in Nat /\ Radix \div 4 >= 2 /\ Radix \div 4 < Radix
  BY RadixAssumption
<1>2. PointerTag \in Nat /\ MaxLabel \in Nat /\ MaxLabel < Radix
  BY <1>1, RadixAssumption DEF PointerTag, MaxLabel
<1>3. Radix * Radix \in Nat
  BY RadixAssumption
<1>4. OffsetLimit \in Nat
  BY <1>3, QuotientIsNat DEF OffsetLimit
<1> QED BY <1>2, <1>4

(* A position findEntry returns is in the table, and a pointer can hold it. *)
LEMMA FindEntryProps ==
  ASSUME NEW table, NEW ls, FindEntry(table, ls) # NotFound
  PROVE  /\ Join(ls) \in DOMAIN table
         /\ FindEntry(table, ls) = table[Join(ls)]
         /\ table[Join(ls)] <= OffsetLimit
  BY DEF FindEntry

(* Where the loop goes fits what is left to write. *)
LEMMA SearchProps ==
  ASSUME NEW table, NEW ls \in Seq(Seq(Octet))
  PROVE  /\ Search(table, ls) \in {"last", "pointer", "label"}
         /\ Search(table, ls) = "label" => Len(ls) >= 2
         /\ Search(table, ls) = "pointer" => FindEntry(table, ls) # NotFound
  BY DEF Search

(* The labels of a name, the null label last. *)
LEMMA FullName ==
  ASSUME NEW nm \in Names
  PROVE  /\ nm \in Seq(Seq(Octet))
         /\ nm \o <<Null>> \in Seq(Seq(Octet))
         /\ Len(nm \o <<Null>>) = Len(nm) + 1
         /\ (nm \o <<Null>>)[Len(nm) + 1] = Null
         /\ \A i \in 1..Len(nm)+1 : Len((nm \o <<Null>>)[i]) <= MaxLabel
         /\ nm \o <<Null>> = SubSeq(nm \o <<Null>>, 1, Len(nm) + 1)
<1>1. nm \in Seq(Seq(Octet)) /\ \A i \in 1..Len(nm) : Len(nm[i]) \in 1..MaxLabel
  BY NameAssumption
<1>2. Null \in Seq(Octet) /\ Len(Null) = 0
  BY DEF Null
<1> HIDE DEF Null
<1>3. <<Null>> \in Seq(Seq(Octet)) /\ Len(<<Null>>) = 1 /\ <<Null>>[1] = Null
  BY <1>2
<1>4. /\ nm \o <<Null>> \in Seq(Seq(Octet))
      /\ Len(nm \o <<Null>>) = Len(nm) + 1
      /\ \A i \in 1..Len(nm)+1 : (nm \o <<Null>>)[i] = IF i <= Len(nm) THEN nm[i] ELSE Null
  BY <1>1, <1>3
<1>5. (nm \o <<Null>>)[Len(nm) + 1] = Null
  BY <1>1, <1>4
<1>6. ASSUME NEW i \in 1..Len(nm)+1
      PROVE  Len((nm \o <<Null>>)[i]) <= MaxLabel
  BY <1>1, <1>2, <1>4, WireLimits
<1>7. ASSUME NEW s \in Seq(Seq(Octet)) PROVE s = SubSeq(s, 1, Len(s))
  OBVIOUS
<1> QED BY <1>1, <1>4, <1>5, <1>6, <1>7

(* shift() on what is left of a name leaves what is left of it one on. *)
LEMMA ShiftLabels ==
  ASSUME NEW full \in Seq(Seq(Octet)), NEW done \in Nat, done + 2 <= Len(full)
  PROVE  Tail(SubSeq(full, done + 1, Len(full))) = SubSeq(full, (done + 1) + 1, Len(full))
  OBVIOUS

-----------------------------------------------------------------------------
(* A step that only extends the buffer, or freezes it, keeps the entries.  *)
LEMMA EntriesQuiet ==
  ASSUME EntryPart, entries' = entries, offset \in Nat, offset' \in Nat,
         offset' >= offset, writable' => writable, literals \subseteq literals'
  PROVE  EntryPart'
  BY LimitAssumption DEF EntryPart

(* The pointers written stay good while literals are only added. *)
LEMMA PointersQuiet ==
  ASSUME PointersLeadBack, refs' = refs, literals \subseteq literals'
  PROVE  PointersLeadBack'
  BY DEF PointersLeadBack

(* What a successful write says of the offset. *)
LEMMA EmitAdvances ==
  ASSUME offset \in Nat, NEW data \in Seq(Octet), Emit(data)
  PROVE  /\ offset' = offset + Len(data) /\ offset' \in Nat
         /\ offset' <= MaxMessageSize
         /\ writable /\ writable' = writable
<1>1. Verdict(offset, Len(data)) = "ok" /\ offset' = offset + Len(data) /\ writable' = writable
  BY DEF Emit
<1>2. Len(data) \in Nat /\ offset \in Int
  OBVIOUS
<1>3. writable /\ offset + Len(data) <= MaxMessageSize
  BY <1>1, <1>2, VerdictOk
<1> QED BY <1>1, <1>2, <1>3

LEMMA EmitLabelAdvances ==
  ASSUME offset \in Nat, NEW label \in Seq(Octet), EmitLabel(label)
  PROVE  /\ offset' = offset + LabelSize(label) /\ offset' \in Nat
         /\ offset' > offset
         /\ offset' <= MaxMessageSize
         /\ writable /\ writable' = writable
<1>1. /\ Verdict(offset, 1 + Len(label)) = "ok"
      /\ offset' = offset + 1 + Len(label) /\ writable' = writable
  BY DEF EmitLabel
<1>2. 1 + Len(label) \in Nat /\ Len(label) \in Nat /\ offset \in Int
  OBVIOUS
<1>3. writable /\ offset + (1 + Len(label)) <= MaxMessageSize
  BY <1>1, <1>2, VerdictOk
<1> QED BY <1>1, <1>2, <1>3 DEF LabelSize

LEMMA TearLabelAdvances ==
  ASSUME offset \in Nat, NEW label \in Seq(Octet), TearLabel(label)
  PROVE  /\ offset' = offset + 1 /\ offset' \in Nat
         /\ offset' <= MaxMessageSize
         /\ offset' + Len(label) > MaxMessageSize
         /\ writable /\ writable' = writable
<1>1. /\ Verdict(offset, 1) = "ok" /\ Verdict(offset + 1, Len(label)) # "ok"
      /\ offset' = offset + 1 /\ writable' = writable
  BY DEF TearLabel
<1>2. writable /\ offset + 1 <= MaxMessageSize
  BY <1>1, VerdictOk
<1>3. offset + 1 + Len(label) > MaxMessageSize
  BY <1>1, <1>2, LimitAssumption DEF Verdict
<1> QED BY <1>1, <1>2, <1>3

(* A refused octet: the buffer is frozen or full. *)
LEMMA RefuseMeansFull ==
  ASSUME offset \in Nat, Refuse(offset, 1)
  PROVE  /\ offset' = offset /\ writable' = writable
         /\ writable => offset >= MaxMessageSize
<1>1. Verdict(offset, 1) # "ok" /\ offset' = offset /\ writable' = writable
  BY DEF Refuse
<1>2. writable => offset + 1 > MaxMessageSize
  BY <1>1, LimitAssumption DEF Verdict
<1> QED BY <1>1, <1>2, LimitAssumption

-----------------------------------------------------------------------------
(* A call that ends, in one way or the other. *)
LEMMA LeaveParts ==
  ASSUME CompressorInv, Leave, compressing' = compressing,
         calls' = calls, attached' = attached,
         offset' \in Nat, offset' <= MaxMessageSize
  PROVE  StatePart' /\ CursorPart'
<1>1. <<>> \in Seq(Seq(Octet)) /\ Len(<<>>) = 0
  OBVIOUS
<1> QED BY <1>1 DEF CompressorInv, StatePart, CursorPart, PositionFollowsOffset, Leave

(* Entering writeName: nothing is written yet. *)
LEMMA WriteNameKeepsInv ==
  ASSUME CompressorInv, WriteName
  PROVE  CompressorInv'
<1>1. PICK nm \in Names :
         /\ Call
         /\ \/ compressing /\ Enter(nm, Search(entries, nm \o <<Null>>))
            \/ Enter(nm, "plain")
         /\ UNCHANGED <<bufferVars, compressing, entries, historyVars>>
  BY DEF WriteName
<1> DEFINE full == nm \o <<Null>>
<1>2. /\ nm \in Seq(Seq(Octet)) /\ full \in Seq(Seq(Octet))
      /\ Len(full) = Len(nm) + 1 /\ full[Len(nm) + 1] = Null
      /\ \A i \in 1..Len(full) : Len(full[i]) <= MaxLabel
      /\ full = SubSeq(full, 1, Len(nm) + 1)
  BY FullName
<1>3. /\ name' = nm /\ labels' = full /\ start' = offset /\ n' = 0
      /\ pc' = Search(entries, full) \/ pc' = "plain"
      /\ calls' = calls + 1
  BY <1>1 DEF Enter, Call
<1>4. /\ buf' = buf /\ offset' = offset /\ writable' = writable /\ outcome' = outcome
      /\ compressing' = compressing /\ entries' = entries
      /\ attached' = attached /\ literals' = literals /\ refs' = refs
  BY <1>1 DEF bufferVars, historyVars
<1>5. name' \o <<Null>> = full
  BY <1>3
<1> HIDE DEF full
<1>6. BufferInv'
  BY <1>4 DEF CompressorInv, BufferInv, BufferTypeOK, OffsetInBuffer, ZeroTail
<1>7. /\ pc' \in {"last", "pointer", "label", "plain"}
      /\ pc' = "label" => Len(full) >= 2
      /\ pc' = "pointer" => FindEntry(entries', labels') # NotFound
  BY <1>2, <1>3, <1>4, SearchProps
<1>8. StatePart'
  BY <1>2, <1>3, <1>4, <1>7 DEF CompressorInv, StatePart
<1>9. PositionFollowsOffset'
  <2>1. start' + n' = offset'
    BY <1>3, <1>4 DEF CompressorInv, StatePart
  <2>2. labels' # <<>>
    BY <1>2, <1>3
  <2>3. labels' = SubSeq(full, 1, Len(nm) + 1) /\ 0 + 1 = 1
    BY <1>2, <1>3
  <2>4. labels' = SubSeq(name' \o <<Null>>, 0 + 1, Len(name') + 1)
    BY <1>3, <1>5, <2>3, Zenon
  <2>5. 0 \in 0..Len(name')
    BY <1>2, <1>3
  <2> QED BY <2>1, <2>2, <2>4, <2>5 DEF PositionFollowsOffset
<1>10. CursorPart'
  BY <1>2, <1>3, <1>7, <1>9 DEF CursorPart
<1>11. EntryPart'
  BY <1>4, EntriesQuiet DEF CompressorInv, StatePart
<1>12. PointersLeadBack'
  BY <1>4, PointersQuiet DEF CompressorInv
<1> QED BY <1>6, <1>8, <1>10, <1>11, <1>12 DEF CompressorInv

(* The label at the head of what is left, and what is left behind it. *)
LEMMA HeadLabel ==
  ASSUME StatePart, CursorPart, pc # "idle"
  PROVE  /\ Len(labels) \in Nat /\ Len(labels) >= 1
         /\ Head(labels) \in Seq(Octet) /\ Len(Head(labels)) <= MaxLabel
<1>1. labels \in Seq(Seq(Octet)) /\ labels # <<>>
  BY DEF StatePart, CursorPart, PositionFollowsOffset
<1>2. Len(labels) \in Nat /\ Len(labels) >= 1 /\ Head(labels) = labels[1]
  BY <1>1
<1>3. labels[1] \in Seq(Octet) /\ Len(labels[1]) <= MaxLabel
  BY <1>1, <1>2 DEF StatePart
<1> QED BY <1>2, <1>3

Shifted == /\ pc # "idle" /\ Len(labels) >= 2
           /\ Shift
           /\ offset' = offset + LabelSize(Head(labels))
           /\ offset' \in Nat /\ offset' <= MaxMessageSize
           /\ UNCHANGED <<name, start, compressing, calls, attached>>
           /\ pc' \in {"label", "last", "pointer", "plain"}

(* One label was written: the locals are those of the next iteration. *)
LEMMA ShiftParts ==
  ASSUME StatePart, CursorPart, Shifted
  PROVE  /\ StatePart' /\ PositionFollowsOffset'
         /\ labels'[Len(labels')] = Null
<1>1. Head(labels) \in Seq(Octet) /\ LabelSize(Head(labels)) \in Nat
  BY HeadLabel DEF LabelSize, Shifted
<1>2. labels \in Seq(Seq(Octet)) /\ Len(labels) \in Nat /\ Len(labels) >= 2
  BY DEF StatePart, Shifted
<1>3. /\ labels' \in Seq(Seq(Octet)) /\ Len(labels') = Len(labels) - 1
      /\ \A i \in 1..Len(labels') : labels'[i] = labels[i + 1]
  BY <1>2 DEF Shifted, Shift
<1>4. StatePart'
  <2>1. n' \in Nat
    BY <1>1 DEF StatePart, Shifted, Shift
  <2>2. \A i \in 1..Len(labels') : Len(labels'[i]) <= MaxLabel
    <3> SUFFICES ASSUME NEW i \in 1..Len(labels') PROVE Len(labels'[i]) <= MaxLabel
      OBVIOUS
    <3>1. i + 1 \in 1..Len(labels) /\ labels'[i] = labels[i + 1]
      BY <1>2, <1>3
    <3>2. Len(labels[i + 1]) <= MaxLabel
      BY <3>1 DEF StatePart
    <3> QED BY <3>1, <3>2, Zenon
  <2>3. /\ compressing' \in BOOLEAN /\ start' \in Nat /\ calls' \in Nat
        /\ attached' \in Nat /\ name' \in Seq(Seq(Octet))
        /\ offset' \in Nat /\ offset' <= MaxMessageSize
        /\ pc' \in {"idle", "label", "last", "pointer", "plain"}
    BY DEF StatePart, Shifted
  <2> QED BY <1>3, <2>1, <2>2, <2>3 DEF StatePart
<1>5. PICK done \in 0..Len(name) :
         labels = SubSeq(name \o <<Null>>, done + 1, Len(name) + 1)
  BY DEF CursorPart, PositionFollowsOffset, Shifted
<1> DEFINE full == name \o <<Null>>
<1>6. full \in Seq(Seq(Octet)) /\ Len(full) = Len(name) + 1 /\ Len(name) \in Nat
  <2>1. name \in Seq(Seq(Octet)) /\ <<Null>> \in Seq(Seq(Octet)) /\ Len(<<Null>>) = 1
    BY DEF StatePart, Null
  <2> QED BY <2>1
<1>7. name' \o <<Null>> = full /\ name' = name
  BY DEF Shifted
<1> HIDE DEF full
<1>8. labels = SubSeq(full, done + 1, Len(full))
  BY <1>5, <1>6 DEF full
<1>9. Len(labels) = Len(full) - done
  BY <1>6, <1>8
<1>10. done + 2 <= Len(full) /\ done \in Nat
  BY <1>2, <1>6, <1>9
<1>11. labels' = SubSeq(full, (done + 1) + 1, Len(full))
  <2>1. labels' = Tail(labels)
    BY DEF Shifted, Shift
  <2> QED BY <1>6, <1>8, <1>10, <2>1, ShiftLabels
<1>12. done + 1 \in 0..Len(name') /\ Len(full) = Len(name') + 1
  BY <1>6, <1>7, <1>10
<1>13. labels' # <<>> /\ labels'[Len(labels')] = Null
  <2>1. labels[Len(labels)] = Null
    BY DEF CursorPart, Shifted
  <2>2. Len(labels') \in 1..Len(labels') /\ Len(labels') + 1 = Len(labels)
    BY <1>2, <1>3
  <2>3. labels'[Len(labels')] = labels[Len(labels') + 1]
    BY <1>3, <2>2, Zenon
  <2>4. labels' # <<>>
    BY <1>3, <2>2
  <2> QED BY <2>1, <2>2, <2>3, <2>4, Zenon
<1>14. start' + n' = offset'
  <2>1. start + n = offset
    BY DEF CursorPart, PositionFollowsOffset, Shifted
  <2>2. start \in Nat /\ n \in Nat /\ offset \in Nat
    BY DEF StatePart
  <2> DEFINE size == LabelSize(Head(labels))
  <2>3. size \in Nat /\ n' = n + size /\ offset' = offset + size /\ start' = start
    BY <1>1 DEF Shifted, Shift
  <2> HIDE DEF size
  <2> QED BY <2>1, <2>2, <2>3
<1>15. \E i \in 0..Len(name') :
         labels' = SubSeq(name' \o <<Null>>, i + 1, Len(name') + 1)
  BY <1>7, <1>11, <1>12
<1> QED BY <1>4, <1>13, <1>14, <1>15 DEF PositionFollowsOffset

(* An iteration of the loop, with its label written, torn or refused. *)
LEMMA LabelStepKeepsInv ==
  ASSUME CompressorInv, LabelStep
  PROVE  CompressorInv'
<1> DEFINE label == Head(labels)
<1>1. /\ pc = "label" /\ compressing' = compressing /\ calls' = calls
      /\ entries' = AddEntry(entries, labels, start + n)
  BY DEF LabelStep
<1>2. BufferInv /\ StatePart /\ CursorPart /\ EntryPart /\ PointersLeadBack
  BY DEF CompressorInv
<1>3. /\ label \in Seq(Octet) /\ Len(label) <= MaxLabel
      /\ Len(labels) >= 2 /\ start + n = offset /\ offset \in Nat
  BY <1>1, <1>2, HeadLabel DEF CursorPart, PositionFollowsOffset, StatePart
<1> HIDE DEF label
<1>4. /\ DOMAIN entries' = DOMAIN entries \cup {Join(labels)}
      /\ \A key \in DOMAIN entries' :
           entries'[key] = IF key = Join(labels) THEN offset ELSE entries[key]
  <2>1. entries' = AddEntry(entries, labels, offset)
    BY <1>1, <1>3, Zenon
  <2> QED BY <2>1 DEF AddEntry
<1>5. CASE /\ EmitLabel(label)
           /\ literals' = literals \cup {[at |-> offset, suffix |-> labels]}
           /\ Shift
           /\ pc' = Search(entries', labels')
           /\ UNCHANGED <<name, start, attached, refs, written>>
  <2>1. BufferInv'
    BY <1>2, <1>3, <1>5, EmitLabelKeepsInv
  <2>2. /\ offset' = offset + LabelSize(label) /\ offset' \in Nat /\ offset' > offset
        /\ offset' <= MaxMessageSize /\ writable /\ writable' = writable
    BY <1>3, <1>5, EmitLabelAdvances
  <2>3. labels' \in Seq(Seq(Octet))
    BY <1>2, <1>3, <1>5 DEF StatePart, Shift
  <2>4. /\ pc' \in {"last", "pointer", "label"}
        /\ pc' = "label" => Len(labels') >= 2
        /\ pc' = "pointer" => FindEntry(entries', labels') # NotFound
    BY <1>5, <2>3, SearchProps
  <2>5. /\ StatePart' /\ PositionFollowsOffset' /\ labels'[Len(labels')] = Null
    <3>1. pc # "idle" /\ pc' \in {"label", "last", "pointer", "plain"}
      BY <1>1, <2>4
    <3>2. n' = n + LabelSize(Head(labels)) /\ offset' = offset + LabelSize(Head(labels))
      BY <1>5, <2>2 DEF label, Shift
    <3>3. Shifted
      BY <1>1, <1>3, <1>5, <2>2, <3>1, <3>2 DEF Shifted
    <3> QED BY <1>2, <3>3, ShiftParts
  <2>6. CursorPart'
    BY <2>4, <2>5 DEF CursorPart
  <2>7. EntryPart'
    <3> SUFFICES ASSUME NEW key \in DOMAIN entries'
                 PROVE  /\ entries'[key] \in Nat /\ entries'[key] <= MaxMessageSize
                        /\ entries'[key] < offset'
                        /\ entries'[key] <= OffsetLimit
                             => \E lit \in literals' : lit.at = entries'[key]
      BY DEF EntryPart
    <3>1. CASE key = Join(labels)
      <4>1. entries'[key] = offset
        BY <1>4, <3>1
      <4>2. [at |-> offset, suffix |-> labels] \in literals'
        BY <1>5
      <4> QED BY <1>3, <2>2, <4>1, <4>2, LimitAssumption
    <3>2. CASE key # Join(labels)
      <4>1. key \in DOMAIN entries /\ entries'[key] = entries[key]
        BY <1>4, <3>2
      <4>2. /\ entries[key] \in Nat /\ entries[key] <= MaxMessageSize
            /\ entries[key] < offset \/ offset >= MaxMessageSize
            /\ entries[key] <= OffsetLimit => \E lit \in literals : lit.at = entries[key]
        BY <1>2, <2>2, <4>1 DEF EntryPart
      <4>3. offset < MaxMessageSize
        BY <1>3, <2>2, LimitAssumption
      <4>4. literals \subseteq literals'
        BY <1>5
      <4> QED BY <1>3, <2>2, <4>1, <4>2, <4>3, <4>4, LimitAssumption
    <3> QED BY <3>1, <3>2
  <2>8. PointersLeadBack'
    BY <1>2, <1>5, PointersQuiet
  <2> QED BY <2>1, <2>5, <2>6, <2>7, <2>8 DEF CompressorInv
<1>6. CASE (TearLabel(label) \/ Refuse(offset, 1)) /\ Throw
  <2>1. BufferInv'
    BY <1>2, <1>3, <1>6, TearLabelKeepsInv, RefuseKeepsInv
  <2>2. /\ offset' \in Nat /\ offset' <= MaxMessageSize /\ offset' >= offset
        /\ writable' = writable
        /\ writable => /\ offset < offset' \/ offset' >= MaxMessageSize
                       /\ offset + 1 + MaxLabel >= MaxMessageSize
    <3>1. CASE TearLabel(label)
      <4>1. /\ offset' = offset + 1 /\ offset' <= MaxMessageSize
            /\ offset' + Len(label) > MaxMessageSize /\ writable' = writable
        BY <1>3, <3>1, TearLabelAdvances
      <4> QED BY <1>3, <4>1, WireLimits, LimitAssumption
    <3>2. CASE Refuse(offset, 1)
      <4>1. offset' = offset /\ writable' = writable /\ (writable => offset >= MaxMessageSize)
        BY <1>3, <3>2, RefuseMeansFull
      <4>2. offset <= MaxMessageSize
        BY <1>2 DEF StatePart
      <4> QED BY <1>3, <4>1, <4>2, WireLimits, LimitAssumption
    <3> QED BY <1>6, <3>1, <3>2
  <2>3. Leave /\ literals' = literals /\ refs' = refs /\ attached' = attached
    BY <1>6 DEF Throw, historyVars
  <2>4. StatePart' /\ CursorPart'
    BY <1>1, <2>2, <2>3, LeaveParts
  <2>5. EntryPart'
    <3> SUFFICES ASSUME NEW key \in DOMAIN entries'
                 PROVE  /\ entries'[key] \in Nat /\ entries'[key] <= MaxMessageSize
                        /\ writable' => entries'[key] < offset' \/ offset' >= MaxMessageSize
                        /\ writable' /\ entries'[key] <= OffsetLimit
                             => \E lit \in literals' : lit.at = entries'[key]
      BY DEF EntryPart
    <3>1. CASE key = Join(labels)
      <4>1. entries'[key] = offset /\ offset <= MaxMessageSize
        BY <1>2, <1>4, <3>1 DEF StatePart
      <4>2. writable => offset > OffsetLimit
        BY <1>3, <2>2, WireLimits, LimitAssumption, RoomAssumption
      <4> QED BY <1>3, <2>2, <4>1, <4>2, WireLimits, LimitAssumption
    <3>2. CASE key # Join(labels)
      <4>1. key \in DOMAIN entries /\ entries'[key] = entries[key]
        BY <1>4, <3>2
      <4>2. /\ entries[key] \in Nat /\ entries[key] <= MaxMessageSize
            /\ writable => entries[key] < offset \/ offset >= MaxMessageSize
            /\ writable /\ entries[key] <= OffsetLimit
                 => \E lit \in literals : lit.at = entries[key]
        BY <1>2, <4>1 DEF EntryPart
      <4> QED BY <1>3, <2>2, <2>3, <4>1, <4>2, LimitAssumption
    <3> QED BY <3>1, <3>2
  <2>6. PointersLeadBack'
    BY <1>2, <2>3, PointersQuiet
  <2> QED BY <2>1, <2>4, <2>5, <2>6 DEF CompressorInv
<1> QED BY <1>5, <1>6 DEF LabelStep, label

(* A call that ends with an octet or two written, or with none. *)
LEMMA EndKeepsInv ==
  ASSUME CompressorInv, BufferInv', Leave,
         offset' \in Nat, offset' >= offset, offset' <= MaxMessageSize,
         writable' = writable, PointersLeadBack',
         UNCHANGED <<compressing, entries, calls, attached, literals>>
  PROVE  CompressorInv'
<1>1. StatePart' /\ CursorPart'
  BY LeaveParts
<1>2. EntryPart'
  BY EntriesQuiet DEF CompressorInv, StatePart
<1> QED BY <1>1, <1>2 DEF CompressorInv

(* Facts of the state before a step. *)
LEMMA InvFacts ==
  ASSUME CompressorInv
  PROVE  /\ BufferInv /\ StatePart /\ CursorPart /\ EntryPart /\ PointersLeadBack
         /\ offset \in Nat /\ offset <= MaxMessageSize
         /\ <<0>> \in Seq(Octet) /\ Len(<<0>>) = 1
<1>1. 0 \in Octet
  BY RadixAssumption DEF Octet
<1> QED BY <1>1 DEF CompressorInv, StatePart

(* The null label is one octet. *)
LEMMA EmitNullAdvances ==
  ASSUME CompressorInv
  PROVE  Emit(<<0>>) => /\ offset' \in Nat /\ offset' >= offset
                        /\ offset' <= MaxMessageSize /\ writable' = writable
<1> HAVE Emit(<<0>>)
<1> DEFINE null == <<0>>
<1>1. null \in Seq(Octet) /\ Len(null) = 1 /\ Emit(null)
  BY InvFacts
<1> HIDE DEF null
<1> QED BY <1>1, InvFacts, EmitAdvances

LEMMA LastStepKeepsInv ==
  ASSUME CompressorInv, LastStep
  PROVE  CompressorInv'
<1>1. UNCHANGED <<compressing, entries, calls>>
  BY DEF LastStep
<1>2. CASE Emit(<<0>>) /\ Return /\ UNCHANGED <<attached, literals, refs>>
  <2>1. BufferInv'
    BY <1>2, InvFacts, EmitKeepsInv
  <2>2. PointersLeadBack'
    BY <1>2, InvFacts, PointersQuiet
  <2>3. offset' \in Nat /\ offset' >= offset /\ offset' <= MaxMessageSize /\ writable' = writable
    BY <1>2, EmitNullAdvances
  <2> QED BY <1>1, <1>2, <2>1, <2>2, <2>3, EndKeepsInv DEF Return
<1>3. CASE Refuse(offset, 1) /\ Throw
  <2>1. BufferInv'
    BY <1>3, InvFacts, RefuseKeepsInv
  <2>2. PointersLeadBack'
    BY <1>3, InvFacts, PointersQuiet DEF Throw, historyVars
  <2>3. offset' = offset /\ writable' = writable
    BY <1>3 DEF Refuse
  <2> QED BY <1>1, <1>3, <2>1, <2>2, <2>3, InvFacts, EndKeepsInv DEF Throw, historyVars
<1> QED BY <1>2, <1>3 DEF LastStep

LEMMA PointerStepKeepsInv ==
  ASSUME CompressorInv, PointerStep
  PROVE  CompressorInv'
<1> DEFINE to == FindEntry(entries, labels)
           word == Uint16(PointerTag * Radix + to)
<1>1. pc = "pointer" /\ UNCHANGED <<compressing, entries, calls>>
  BY DEF PointerStep
<1>2. /\ Join(labels) \in DOMAIN entries
      /\ to = entries[Join(labels)] /\ to <= OffsetLimit
  BY <1>1, InvFacts, FindEntryProps DEF CursorPart
<1>3. /\ to \in Nat
      /\ writable => to < offset \/ offset >= MaxMessageSize
      /\ writable => \E lit \in literals : lit.at = to
  BY <1>2, InvFacts DEF EntryPart
<1> HIDE DEF to
<1>4. word \in Seq(Octet) /\ Len(word) = 2
  <2>1. PointerTag * Radix + to \in Nat
    BY <1>3, WireLimits, RadixAssumption
  <2> QED BY <2>1, Uint16Octets
<1> HIDE DEF word
<1>5. CASE /\ Emit(word)
           /\ refs' = refs \cup {[at |-> offset, to |-> to, from |-> start, meant |-> labels]}
           /\ Return
           /\ UNCHANGED <<attached, literals>>
  <2>1. BufferInv'
    BY <1>4, <1>5, InvFacts, EmitKeepsInv
  <2>2. /\ offset' = offset + 2 /\ offset' \in Nat /\ offset' <= MaxMessageSize
        /\ writable /\ writable' = writable
    BY <1>4, <1>5, InvFacts, EmitAdvances
  <2>3. to < offset /\ \E lit \in literals : lit.at = to
    BY <1>3, <2>2, InvFacts, LimitAssumption
  <2>4. PointersLeadBack'
    <3> SUFFICES ASSUME NEW ref \in refs'
                 PROVE  /\ ref.to < ref.at /\ ref.to <= OffsetLimit
                        /\ \E lit \in literals : lit.at = ref.to
      BY <1>5 DEF PointersLeadBack
    <3>1. CASE ref \in refs
      BY <3>1, InvFacts DEF PointersLeadBack
    <3>2. CASE ref = [at |-> offset, to |-> to, from |-> start, meant |-> labels]
      <4>1. ref.at = offset /\ ref.to = to
        BY <3>2
      <4> QED BY <1>2, <2>3, <4>1
    <3> QED BY <1>5, <3>1, <3>2
  <2>5. offset' >= offset
    BY <2>2, InvFacts
  <2> QED BY <1>1, <1>5, <2>1, <2>2, <2>4, <2>5, EndKeepsInv DEF Return
<1>6. CASE Refuse(offset, 2) /\ Throw
  <2>1. BufferInv'
    BY <1>6, InvFacts, RefuseKeepsInv
  <2>2. PointersLeadBack'
    BY <1>6, InvFacts, PointersQuiet DEF Throw, historyVars
  <2>3. offset' = offset /\ writable' = writable
    BY <1>6 DEF Refuse
  <2> QED BY <1>1, <1>6, <2>1, <2>2, <2>3, InvFacts, EndKeepsInv DEF Throw, historyVars
<1> QED BY <1>5, <1>6 DEF PointerStep, word, to

LEMMA PlainStepKeepsInv ==
  ASSUME CompressorInv, PlainStep
  PROVE  CompressorInv'
<1> DEFINE label == Head(labels)
<1>1. pc = "plain" /\ UNCHANGED <<compressing, entries, calls>>
  BY DEF PlainStep
<1>2. label \in Seq(Octet) /\ Len(labels) \in Nat /\ Len(labels) >= 1
  BY <1>1, InvFacts, HeadLabel
<1>3. CASE /\ label # Null
           /\ EmitLabel(label)
           /\ Shift
           /\ UNCHANGED <<pc, name, start, historyVars>>
  <2>1. BufferInv'
    BY <1>2, <1>3, InvFacts, EmitLabelKeepsInv
  <2>2. /\ offset' = offset + LabelSize(label) /\ offset' \in Nat /\ offset' > offset
        /\ offset' <= MaxMessageSize /\ writable /\ writable' = writable
    BY <1>2, <1>3, InvFacts, EmitLabelAdvances
  <2>3. Len(labels) >= 2
    <3>1. labels[Len(labels)] = Null
      BY <1>1, InvFacts DEF CursorPart
    <3>2. Len(labels) = 1 => Head(labels) = labels[Len(labels)]
      BY <1>2
    <3> QED BY <1>2, <1>3, <3>1, <3>2
  <2>4. Shifted
    BY <1>1, <1>3, <2>2, <2>3 DEF Shifted, historyVars
  <2>5. StatePart' /\ PositionFollowsOffset' /\ labels'[Len(labels')] = Null
    BY <2>4, InvFacts, ShiftParts
  <2>6. CursorPart'
    BY <1>1, <1>3, <2>5 DEF CursorPart
  <2>7. EntryPart'
    BY <1>1, <1>3, <2>2, InvFacts, EntriesQuiet DEF historyVars
  <2>8. PointersLeadBack'
    BY <1>3, InvFacts, PointersQuiet DEF historyVars
  <2> QED BY <2>1, <2>5, <2>6, <2>7, <2>8 DEF CompressorInv
<1>4. CASE Emit(<<0>>) /\ Return /\ UNCHANGED <<attached, literals, refs>>
  <2>1. BufferInv'
    BY <1>4, InvFacts, EmitKeepsInv
  <2>2. PointersLeadBack'
    BY <1>4, InvFacts, PointersQuiet
  <2>3. offset' \in Nat /\ offset' >= offset /\ offset' <= MaxMessageSize /\ writable' = writable
    BY <1>4, EmitNullAdvances
  <2> QED BY <1>1, <1>4, <2>1, <2>2, <2>3, EndKeepsInv DEF Return
<1>5. CASE (TearLabel(label) \/ Refuse(offset, 1)) /\ Throw
  <2>1. BufferInv'
    BY <1>2, <1>5, InvFacts, TearLabelKeepsInv, RefuseKeepsInv
  <2>2. PointersLeadBack'
    BY <1>5, InvFacts, PointersQuiet DEF Throw, historyVars
  <2>3. offset' \in Nat /\ offset' >= offset /\ offset' <= MaxMessageSize /\ writable' = writable
    BY <1>2, <1>5, InvFacts, TearLabelAdvances DEF Refuse
  <2> QED BY <1>1, <1>5, <2>1, <2>2, <2>3, EndKeepsInv DEF Throw, historyVars
<1> QED BY <1>3, <1>4, <1>5 DEF PlainStep

(* The steps between two calls of writeName. *)
LEMMA IdleKeepsInv ==
  ASSUME CompressorInv, BufferInv', Call,
         UNCHANGED <<pc, name, labels, start, n>>,
         compressing' \in BOOLEAN, attached' \in Nat,
         UNCHANGED <<literals, refs>>,
         offset' \in Nat, offset' <= MaxMessageSize, EntryPart'
  PROVE  CompressorInv'
<1>1. pc = "idle" /\ calls' = calls + 1
  BY DEF Call
<1>2. StatePart'
  BY <1>1, InvFacts DEF StatePart
<1>3. CursorPart'
  BY <1>1 DEF CursorPart, PositionFollowsOffset
<1>4. PointersLeadBack'
  BY InvFacts, PointersQuiet
<1> QED BY <1>2, <1>3, <1>4 DEF CompressorInv

LEMMA WriteFieldKeepsInv ==
  ASSUME CompressorInv, WriteField
  PROVE  CompressorInv'
<1>1. PICK data \in Chunks : Put(data)
  BY DEF WriteField
<1>2. /\ Call /\ UNCHANGED <<pc, name, labels, start, n>>
      /\ UNCHANGED <<compressing, entries, attached, literals, refs>>
  BY DEF WriteField, callVars, historyVars
<1>3. data \in Seq(Octet)
  BY CallAssumption
<1>4. BufferInv'
  BY <1>1, <1>3, InvFacts, PutKeepsInv
<1>5. offset' \in Nat /\ offset' >= offset /\ offset' <= MaxMessageSize /\ writable' = writable
  <2>1. CASE Emit(data)
    BY <1>3, <2>1, InvFacts, EmitAdvances
  <2>2. CASE Refuse(offset, Len(data))
    BY <2>2, InvFacts DEF Refuse
  <2> QED BY <1>1, <2>1, <2>2 DEF Put
<1>6. EntryPart'
  BY <1>2, <1>5, InvFacts, EntriesQuiet
<1>7. compressing' \in BOOLEAN /\ attached' \in Nat
  BY <1>2, InvFacts DEF StatePart
<1> QED BY <1>2, <1>4, <1>5, <1>6, <1>7, IdleKeepsInv

LEMMA WithCompressorKeepsInv ==
  ASSUME CompressorInv, WithCompressor
  PROVE  CompressorInv'
<1>1. /\ Call /\ UNCHANGED <<pc, name, labels, start, n>> /\ UNCHANGED <<literals, refs>>
      /\ compressing' = TRUE /\ attached' = offset /\ entries' = NoEntries
      /\ buf' = buf /\ offset' = offset /\ writable' = writable /\ outcome' = outcome
  BY DEF WithCompressor, callVars, bufferVars
<1>2. BufferInv'
  BY <1>1, InvFacts DEF BufferInv, BufferTypeOK, OffsetInBuffer, ZeroTail
<1>3. EntryPart'
  BY <1>1 DEF EntryPart, NoEntries
<1> QED BY <1>1, <1>2, <1>3, InvFacts, IdleKeepsInv

LEMMA FreezeWrittenKeepsInv ==
  ASSUME CompressorInv, FreezeWritten
  PROVE  CompressorInv'
<1>1. /\ Call /\ UNCHANGED <<pc, name, labels, start, n>>
      /\ UNCHANGED <<compressing, entries, attached, literals, refs>>
      /\ FreezeTo(offset)
  BY DEF FreezeWritten, callVars, historyVars
<1>2. BufferInv'
  BY <1>1, InvFacts, FreezeToKeepsInv
<1>3. offset' = offset /\ writable' = FALSE
  BY <1>1 DEF FreezeTo
<1>4. EntryPart'
  BY <1>1, <1>3, InvFacts, EntriesQuiet
<1>5. compressing' \in BOOLEAN /\ attached' \in Nat
  BY <1>1, InvFacts DEF StatePart
<1> QED BY <1>1, <1>2, <1>3, <1>4, <1>5, InvFacts, IdleKeepsInv

-----------------------------------------------------------------------------
LEMMA CompressorInitInv == CompressorInit => CompressorInv
<1> SUFFICES ASSUME CompressorInit PROVE CompressorInv
  OBVIOUS
<1>1. BufferInv
  BY InitEstablishesInv DEF CompressorInit, BufferInit
<1>2. StatePart
  <2>1. <<>> \in Seq(Seq(Octet)) /\ Len(<<>>) = 0
    OBVIOUS
  <2>2. /\ name \in Seq(Seq(Octet)) /\ labels \in Seq(Seq(Octet))
        /\ \A i \in 1..Len(labels) : Len(labels[i]) <= MaxLabel
    <3>1. name = <<>> /\ labels = <<>>
      BY DEF CompressorInit
    <3>2. 1..Len(labels) = {}
      BY <2>1, <3>1
    <3> QED BY <2>1, <3>1, <3>2, Zenon
  <2>3. /\ compressing = FALSE /\ pc = "idle" /\ start = 0 /\ n = 0 /\ calls = 0
        /\ attached = 0 /\ offset = 0
    BY DEF CompressorInit
  <2>4. compressing \in BOOLEAN
    BY <2>3
  <2>5. pc \in {"idle", "label", "last", "pointer", "plain"}
    BY <2>3
  <2>6. /\ start \in Nat /\ n \in Nat /\ calls \in Nat /\ attached \in Nat
        /\ offset \in Nat /\ offset <= MaxMessageSize
    BY <2>3, LimitAssumption
  <2> QED BY <2>2, <2>4, <2>5, <2>6, Zenon DEF StatePart
<1>3. CursorPart
  BY DEF CompressorInit, CursorPart, PositionFollowsOffset
<1>4. EntryPart /\ PointersLeadBack
  BY DEF CompressorInit, EntryPart, NoEntries, PointersLeadBack
<1> QED BY <1>1, <1>2, <1>3, <1>4 DEF CompressorInv

LEMMA CompressorNextInv == CompressorInv /\ [CompressorNext]_compressorVars => CompressorInv'
<1> SUFFICES ASSUME CompressorInv, [CompressorNext]_compressorVars PROVE CompressorInv'
  OBVIOUS
<1>1. CASE WriteName
  BY <1>1, WriteNameKeepsInv
<1>2. CASE LabelStep
  BY <1>2, LabelStepKeepsInv
<1>3. CASE LastStep
  BY <1>3, LastStepKeepsInv
<1>4. CASE PointerStep
  BY <1>4, PointerStepKeepsInv
<1>5. CASE PlainStep
  BY <1>5, PlainStepKeepsInv
<1>6. CASE WriteField
  BY <1>6, WriteFieldKeepsInv
<1>7. CASE WithCompressor
  BY <1>7, WithCompressorKeepsInv
<1>8. CASE FreezeWritten
  BY <1>8, FreezeWrittenKeepsInv
<1>9. CASE UNCHANGED compressorVars
  BY <1>9 DEF compressorVars, bufferVars, callVars, historyVars, CompressorInv, StatePart,
       CursorPart, EntryPart, PositionFollowsOffset, PointersLeadBack,
       BufferInv, BufferTypeOK, OffsetInBuffer, ZeroTail
<1> QED BY <1>1, <1>2, <1>3, <1>4, <1>5, <1>6, <1>7, <1>8, <1>9 DEF CompressorNext, Loop

-----------------------------------------------------------------------------
(* The inductive invariant of the compressor, for every radix and limit. *)
THEOREM CompressorInvariant == CompressorSpec => []CompressorInv
  BY CompressorInitInv, CompressorNextInv, PTL DEF CompressorSpec

(* Octets stay octets and cached positions stay positions of a message. *)
THEOREM CompressorTypeCorrect == CompressorSpec => []CompressorTypeOK
<1>1. CompressorInv => CompressorTypeOK
  BY LimitAssumption DEF CompressorInv, BufferInv, StatePart, EntryPart, CompressorTypeOK
<1> QED BY <1>1, CompressorInvariant, PTL

(* The positions writeName computes are the offsets of the buffer. *)
THEOREM PositionsAreOffsets == CompressorSpec => []PositionFollowsOffset
<1>1. CompressorInv => PositionFollowsOffset
  BY DEF CompressorInv, CursorPart
<1> QED BY <1>1, CompressorInvariant, PTL

(* Every pointer leads back to labels the compressor spelled out: reading  *)
(* a name it wrote makes progress towards the start of the message.        *)
THEOREM PointersAlwaysLeadBack == CompressorSpec => []PointersLeadBack
<1>1. CompressorInv => PointersLeadBack
  BY DEF CompressorInv
<1> QED BY <1>1, CompressorInvariant, PTL
=============================================================================
