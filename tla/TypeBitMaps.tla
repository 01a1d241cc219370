----------------------------- MODULE TypeBitMaps -----------------------------
(***************************************************************************)
(* TypeBitMaps of records/dnssec/type-bitmaps.ts: the types of an NSEC or  *)
(* NSEC3 record as blocks of a window number, a length and a bitmap.  An   *)
(* octet has Bits bits, a window as many types as an octet has values, and *)
(* the code's eight bits scale down to two with every limit kept.  One     *)
(* action per iteration of either loop.                                    *)
(***************************************************************************)
EXTENDS Integers, SequencesExt, FiniteSetsExt

CONSTANTS
  Bits,       \* the bits of an octet; 8 in the code
  TypeLists,  \* the lists of types callers make a record of
  Received    \* bitmaps received

Values == 2 ^ Bits               \* also the types of a window, and the windows

MaxBlock == Values \div Bits     \* 32

Octet == 0..Values-1

Type == 0..Values*Values-1

ASSUME TypeAssumption ==
  /\ Bits \in Nat \ {0} /\ Values % Bits = 0
  /\ TypeLists \subseteq Seq(Type)
  /\ Received \subseteq Seq(Octet)

VARIABLES
  types,      \* of the TypeBitMaps object, or read so far
  pc,         \* "idle", "pack", "unpack"
  todo,       \* pack: the sorted types it has not looked at
  block,      \* pack: types of the window it is in; <<>> before the first
  lastWindow, \* the window of the block before, -1 at first
  wire,       \* the octets written or received
  next,       \* unpack: octets read
  source,     \* history: the types pack was called on
  outcome

vars == <<types, pc, todo, block, lastWindow, wire, next, source, outcome>>

-----------------------------------------------------------------------------
Window(t) == t \div Values

InWindow(t) == t % Values

(* Octets of the bitmap: the last type gives their number, unmasked; as if *)
(* the first did, which is the last of a list that is not sorted.          *)
BlockSizeOfFirst(ts) == Head(ts) \div Bits + 1

BlockSize(ts) == Last(ts) \div Bits + 1

(* The value of bit j of an octet, the highest first. *)
Bit(j) == 2 ^ (Bits - 1 - j)

IsSet(octet, j) == (octet \div Bit(j)) % 2 = 1

(* buildBitMaps; a store past the end of the array is lost. *)
BuildBitMaps(ts) ==
  [i \in 1..BlockSize(ts) |->
     SumSet({Bit(InWindow(t) % Bits) : t \in {u \in ToSet(ts) : InWindow(u) \div Bits = i - 1}})]

(* A block behind its window number; its length goes into one octet.       *)
Block(ts) == <<BlockSize(ts) % Values>> \o BuildBitMaps(ts)

-----------------------------------------------------------------------------
(* pack sorts the object's own list. *)
Pack == /\ pc = "idle" /\ outcome = "ok"
        /\ types' = SortSeq(types, <) /\ todo' = types'
        /\ source' = types
        /\ pc' = "pack" /\ lastWindow' = -1 /\ wire' = <<>> /\ next' = 0
        /\ UNCHANGED <<block, outcome>>

PackType ==
  /\ pc = "pack" /\ todo # <<>>
  /\ LET t == Head(todo) IN
     \/ /\ Window(t) > lastWindow
        /\ wire' = wire \o (IF block = <<>> THEN <<>> ELSE Block(block)) \o <<Window(t) % Values>>
        /\ block' = <<t>>
        /\ lastWindow' = Window(t)
     \/ /\ Window(t) <= lastWindow
        /\ block' = Append(block, t)
        /\ UNCHANGED <<wire, lastWindow>>
  /\ todo' = Tail(todo)
  /\ UNCHANGED <<types, pc, next, source, outcome>>

(* The last block, and the reader of the RDATA. *)
Unpack == /\ pc = "pack" /\ todo = <<>>
          /\ wire' = wire \o (IF block = <<>> THEN <<>> ELSE Block(block))
          /\ types' = <<>> /\ block' = <<>> /\ lastWindow' = -1 /\ pc' = "unpack"
          /\ UNCHANGED <<todo, next, source, outcome>>

Remaining == Len(wire) - next

(* The types of a window's bitmap. *)
TypesOf(window, octets) ==
  FlattenSeq([i \in 1..Len(octets) |->
    SetToSortSeq({window * Values + (i - 1) * Bits + j : j \in {k \in 0..Bits-1 : IsSet(octets[i], k)}}, <)])

OutOfOrderRepeated(window) == window < lastWindow   \* mutant: a window may repeat

OutOfOrder(window) == window <= lastWindow

UnpackBlock ==
  LET window == wire[next + 1]
      len    == wire[next + 2]
  IN  /\ pc = "unpack" /\ Remaining >= 2
      /\ \/ /\ OutOfOrder(window) \/ len > MaxBlock \/ len > Remaining - 2
            /\ pc' = "idle" /\ outcome' = "ParseError"
            /\ UNCHANGED <<types, lastWindow, next>>
         \/ /\ ~OutOfOrder(window) /\ len <= MaxBlock /\ len <= Remaining - 2
            /\ types' = types \o TypesOf(window, SubSeq(wire, next + 3, next + 2 + len))
            /\ next' = next + 2 + len
            /\ lastWindow' = window
            /\ UNCHANGED <<pc, outcome>>
      /\ UNCHANGED <<todo, block, wire, source>>

Return == /\ pc = "unpack" /\ Remaining < 2
          /\ pc' = "idle"
          /\ UNCHANGED <<types, todo, block, lastWindow, wire, next, source, outcome>>

-----------------------------------------------------------------------------
Init == /\ source = <<>> /\ todo = <<>> /\ block = <<>> /\ lastWindow = -1 /\ next = 0 /\ outcome = "ok"
        /\ \/ pc = "idle" /\ types \in TypeLists /\ wire = <<>>
           \/ pc = "unpack" /\ types = <<>> /\ wire \in Received

Next == Pack \/ PackType \/ Unpack \/ UnpackBlock \/ Return

Spec == Init /\ [][Next]_vars

-----------------------------------------------------------------------------
Finished == pc = "idle" /\ source # <<>>

(* A record lists its types after it was packed and unpacked, in whichever *)
(* order and how often its caller gave them, or another program sent them: *)
(* exactly if all of them are of the first window.  "Bitmap length (from 1 *)
(* to 32)" is not so for the others: their block has an octet for every    *)
(* eight types from 0 on, and unpack refuses it.                           *)
TypesReadBack ==
  Finished =>
    (outcome = "ok" /\ ToSet(types) = ToSet(source)
       <=> \A i \in 1..Len(source) : Window(source[i]) = 0)

(* The types read of any octets at all are in order and never repeated,    *)
(* within a block and across blocks.                                       *)
TypesAscend == pc = "unpack" => \A i \in 1..Len(types) - 1 : types[i] < types[i + 1]

=============================================================================
