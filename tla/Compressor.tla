----------------------------- MODULE Compressor -----------------------------
(***************************************************************************)
(* PacketBuffer.writeName of buffer.ts with the Compressor of              *)
(* compression.ts: names are written label by label into the buffer, each  *)
(* suffix is cached under its joined labels, and a suffix that is cached   *)
(* is replaced by a pointer.  One action per iteration of writeName's      *)
(* loop.  A call that throws half-way leaves the entries and the octets of *)
(* the iterations before, and the caller may go on using the buffer.       *)
(***************************************************************************)
EXTENDS PacketBuffer, SequencesExt

CONSTANTS
  Names,      \* the names callers write, without their null label
  Dot,        \* the octet of "."
  MaxCalls    \* bound on the calls of a run

ASSUME NameAssumption ==
  /\ Dot \in Octet
  /\ MaxCalls \in Nat
  /\ \A nm \in Names : /\ nm \in Seq(Seq(Octet))
                       /\ \A i \in 1..Len(nm) : Len(nm[i]) \in 1..MaxLabel

(* A label that does not fit begins where no pointer reaches: 2^14 + 64    *)
(* against 65535 in the code.                                              *)
ASSUME RoomAssumption == OffsetLimit + MaxLabel + 1 < MaxMessageSize

VARIABLES
  compressing,  \* a Compressor is attached
  entries,      \* Compressor.entries: joined labels to positions
  pc,           \* where in writeName the call is; "idle" between calls
  name,         \* the argument of writeName
  labels,       \* the labels it has not written yet
  start,        \* startPos: the offset when it was called
  n,            \* the octets it has written
  calls,        \* history: the calls so far
  attached,     \* history: the offset when the compressor was attached
  literals,     \* history: the suffixes the compressor spelled out, and where
  refs,         \* history: the pointers it wrote, the names they end and
                \* the suffixes they stand for
  written       \* history: the names whose call returned, and where

callVars == <<pc, name, labels, start, n>>
historyVars == <<attached, literals, refs, written>>
compressorVars ==
  <<bufferVars, compressing, entries, callVars, calls, historyVars>>

-----------------------------------------------------------------------------
(* labels.join(".") *)
Join(ls) ==
  FlattenSeq([i \in 1..Len(ls) |-> IF i < Len(ls) THEN ls[i] \o <<Dot>> ELSE ls[i]])

NoEntries == [key \in {} |-> 0]

NotFound == -1


FindEntryAnywhere(table, ls) ==
  IF Join(ls) \in DOMAIN table THEN table[Join(ls)] ELSE NotFound

FindEntryFalsy(table, ls) ==
  IF Join(ls) \in DOMAIN table /\ table[Join(ls)] \in 1..OffsetLimit
  THEN table[Join(ls)] ELSE NotFound

AddEntry(table, ls, pos) ==
  [key \in DOMAIN table \cup {Join(ls)} |-> IF key = Join(ls) THEN pos ELSE table[key]]

FindEntry(table, ls) ==
  IF Join(ls) \in DOMAIN table /\ table[Join(ls)] <= OffsetLimit
  THEN table[Join(ls)] ELSE NotFound

(* What writeLabel returns of a label it wrote. *)
LabelSizeNoLength(label) == Len(label)     \* mutant: the length octet is forgotten

LabelSize(label) == 1 + Len(label)

(* Where the loop goes with the labels ls left: to the pointer it found,   *)
(* to spelling out a label, or to the null label.                          *)
Search(table, ls) ==
  IF Len(ls) <= 1 THEN "last"
  ELSE IF FindEntry(table, ls) # NotFound THEN "pointer" ELSE "label"

-----------------------------------------------------------------------------
Call == pc = "idle" /\ calls < MaxCalls /\ calls' = calls + 1

Enter(nm, step) == /\ name' = nm
                   /\ labels' = nm \o <<Null>>
                   /\ start' = offset
                   /\ n' = 0
                   /\ pc' = step

Leave == /\ pc' = "idle"
         /\ name' = <<>> /\ labels' = <<>> /\ start' = 0 /\ n' = 0

Return == /\ Leave
          /\ written' = written \cup {[at |-> start, name |-> name]}

ThrowStays == UNCHANGED <<callVars, historyVars>>     \* mutant: the call never ends

Throw == Leave /\ UNCHANGED historyVars

(* labels.shift(), with the octets the label took. *)
Shift == labels' = Tail(labels) /\ n' = n + LabelSize(Head(labels))

(* writeName: with a compressor and compress = true, or without. *)
WriteName ==
  \E nm \in Names :
    /\ Call
    /\ \/ compressing /\ Enter(nm, Search(entries, nm \o <<Null>>))
       \/ Enter(nm, "plain")
    /\ UNCHANGED <<bufferVars, compressing, entries, historyVars>>

(* The body of the loop: the suffix is cached before its label is written. *)
LabelStep ==
  /\ pc = "label"
  /\ entries' = AddEntry(entries, labels, start + n)
  /\ \/ /\ EmitLabel(Head(labels))
        /\ literals' = literals \cup {[at |-> offset, suffix |-> labels]}
        /\ Shift
        /\ pc' = Search(entries', labels')
        /\ UNCHANGED <<name, start, attached, refs, written>>
     \/ /\ TearLabel(Head(labels)) \/ Refuse(offset, 1)
        /\ Throw
  /\ UNCHANGED <<compressing, calls>>

(* The null label, of a name spelled out to its end or of the root. *)
LastStep ==
  /\ pc = "last"
  /\ \/ Emit(<<0>>) /\ Return /\ UNCHANGED <<attached, literals, refs>>
     \/ Refuse(offset, 1) /\ Throw
  /\ UNCHANGED <<compressing, entries, calls>>

(* A suffix that was found: two octets, 0xc000 plus its position. *)
PointerStep ==
  LET to == FindEntry(entries, labels) IN
  /\ pc = "pointer"
  /\ \/ /\ Emit(Uint16(PointerTag * Radix + to))
        /\ refs' = refs \cup {[at |-> offset, to |-> to, from |-> start, meant |-> labels]}
        /\ Return
        /\ UNCHANGED <<attached, literals>>
     \/ Refuse(offset, 2) /\ Throw
  /\ UNCHANGED <<compressing, entries, calls>>

(* writeName without compression: every label, the null label last. *)
PlainStep ==
  /\ pc = "plain"
  /\ \/ /\ Head(labels) # Null
        /\ EmitLabel(Head(labels))
        /\ Shift
        /\ UNCHANGED <<pc, name, start, historyVars>>
     \/ /\ Head(labels) = Null
        /\ Emit(<<0>>)
        /\ Return
        /\ UNCHANGED <<attached, literals, refs>>
     \/ /\ \/ Head(labels) # Null /\ TearLabel(Head(labels))
           \/ Refuse(offset, 1)
        /\ Throw
  /\ UNCHANGED <<compressing, entries, calls>>

(* Every other field of a message. *)
WriteField ==
  /\ Call
  /\ \E data \in Chunks : Put(data)
  /\ UNCHANGED <<compressing, entries, callVars, historyVars>>

(* withCompressor: an empty table, whatever was attached before. *)
WithCompressor ==
  /\ Call
  /\ compressing' = TRUE
  /\ entries' = NoEntries
  /\ attached' = offset
  /\ UNCHANGED <<bufferVars, callVars, literals, refs, written>>

(* freeze(n) with what was written, as the callers of pack() do. *)
FreezeWritten ==
  /\ Call
  /\ FreezeTo(offset)
  /\ UNCHANGED <<compressing, entries, callVars, historyVars>>

-----------------------------------------------------------------------------
CompressorInit ==
  /\ Alloc /\ offset = 0 /\ outcome = "ok"
  /\ compressing = FALSE /\ entries = NoEntries
  /\ pc = "idle" /\ name = <<>> /\ labels = <<>> /\ start = 0 /\ n = 0
  /\ calls = 0 /\ attached = 0
  /\ literals = {} /\ refs = {} /\ written = {}

Loop == LabelStep \/ LastStep \/ PointerStep \/ PlainStep

CompressorNext ==
  WriteName \/ Loop \/ WriteField \/ WithCompressor \/ FreezeWritten

CompressorSpec == /\ CompressorInit
                  /\ [][CompressorNext]_compressorVars
                  /\ WF_compressorVars(Loop)

-----------------------------------------------------------------------------
(* The octets stay octets and cached positions stay positions of a message *)
(* (Uint16 in compression.ts), in calls that return and calls that throw.  *)
CompressorTypeOK ==
  /\ BufferTypeOK
  /\ compressing \in BOOLEAN
  /\ \A key \in DOMAIN entries : entries[key] \in 0..MaxMessageSize
  /\ pc \in {"idle", "label", "last", "pointer", "plain"}
  /\ \A l \in 1..Len(labels) : labels[l] \in Seq(Octet)
  /\ {start, n, calls, attached} \subseteq Nat

(* writeName computes the positions it caches from its arguments, startPos *)
(* + n, and not from the buffer: while it runs the sum is the offset of    *)
(* the buffer, and what it still has to write is a suffix of the name.     *)
PositionFollowsOffset ==
  pc # "idle" => /\ start + n = offset
                 /\ labels # <<>>
                 /\ \E done \in 0..Len(name) :
                      labels = SubSeq(name \o <<Null>>, done + 1, Len(name) + 1)

(* Every pointer written leads back to the start of a label sequence that  *)
(* the compressor spelled out, at a position a pointer can hold: it never  *)
(* points at itself, at a later octet, at another pointer, or at a suffix  *)
(* whose writing was cut short by an exception.                            *)
PointersLeadBack ==
  \A ref \in refs : /\ ref.to < ref.at
                    /\ ref.to <= OffsetLimit
                    /\ \E lit \in literals : lit.at = ref.to

(* Two reasons why a pointer may not stand for the suffix that was meant:  *)
(* of the one position the offset check lets through although 14 bits      *)
(* cannot hold it nothing is left but a null label; and as a label may     *)
(* hold a dot, two suffixes may have the same cache key.                   *)
AtLimit(ref) == ref.to = OffsetLimit

Ambiguous(ref) ==
  \E lit \in literals : /\ Join(lit.suffix) = Join(ref.meant)
                       /\ lit.suffix # ref.meant

(* How a name reads back from the message. A call writes at most one       *)
(* pointer, so no sound chain of pointers is longer than MaxCalls.         *)
ReadsAs(nm, at) == ReadLabels(buf, at, MaxCalls) = nm \o <<Null>>


(* "to eliminate the repetition of domain names in the message": with one  *)
(* compressor attached, no suffix is spelled out twice at positions that   *)
(* a pointer could have reached.                                           *)
NoRepetition ==
  \A lit1, lit2 \in literals :
    /\ lit1.suffix = lit2.suffix
    /\ {lit1.at, lit2.at} \subseteq attached..OffsetLimit
    => lit1 = lit2

(* Names already written are never rewritten: a step only adds octets.     *)
WireOnlyGrows ==
  [][SubSeq(buf', 1, offset) = SubSeq(buf, 1, offset)]_compressorVars

(* A call of writeName returns or throws, whatever the table holds.        *)
CallsEnd == pc # "idle" ~> pc = "idle"
=============================================================================
