-------------------------------- MODULE Edns --------------------------------
(***************************************************************************)
(* The options of an OPT record (edns/index.ts, edns/option.ts and the     *)
(* option classes): packed one after the other, each behind its code and a *)
(* length that is patched in afterwards, and unpacked from the record's    *)
(* RDATA.  One action per iteration of either loop.  An option object is   *)
(* its code and the octets its packOptionData writes.                      *)
(***************************************************************************)
EXTENDS Integers, SequencesExt

CONSTANTS
  Options,      \* the options callers build
  Received,     \* RDATA received
  Malformed,    \* the octets that are no UTF-8 text
  Replacement,  \* the octets of the replacement character
  Room,         \* octets a message has left for the options
  MaxOptions    \* bound: options of a built record

NSID == 3
ClientSubnet == 8
Cookie == 10
Padding == 12
ExtendedError == 15

Octet == 0..255

ASSUME OptionAssumption ==
  /\ Options \subseteq [code : 0..65535, data : Seq(Octet)]
  /\ Received \subseteq Seq(Octet)
  /\ Malformed \subseteq Octet
  /\ Replacement \in Seq(Octet \ Malformed)
  /\ Room \in 0..65535 /\ MaxOptions \in Nat

VARIABLES
  options,      \* the record's options: built, or read so far
  pc,           \* "build", "pack", "unpack", or "read" when unpack ended
  wire,         \* the RDATA written, or received
  sent,         \* the options that pack was called on
  whole,        \* how many of them it has written; -1 before pack
  next,         \* octets unpack has read
  outcome       \* how the last call ended

vars == <<options, pc, wire, sent, whole, next, outcome>>

Uint16(n) == <<n \div 256, n % 256>>

Number(hi, lo) == hi * 256 + lo

Rest(data, from) == SubSeq(data, from + 1, Len(data))

-----------------------------------------------------------------------------
(* ClientSubnet.fromData: the address of family 2 is taken from octet 16   *)
(* on; as if that of family 1 were taken from octet 8 on.                  *)
AddressAtEight(family) == IF family = 1 THEN 8 ELSE 16

AddressAt(family) == IF family = 1 THEN 4 ELSE 16

AddressSize(family) == IF family = 1 THEN 4 ELSE 16

SubnetVerdict(data) ==
  LET family == Number(data[1], data[2]) IN
  CASE Len(data) < 4 -> "RangeError"
    [] Len(data) >= 4 /\ family \notin {1, 2} -> "ParseError"
    [] Len(data) >= 4 /\ family \in {1, 2} ->
         IF Len(Rest(data, AddressAt(family))) # AddressSize(family) THEN "Error"
         ELSE IF \E i \in {3, 4} : data[i] > 8 * AddressSize(family) THEN "ParseError"
         ELSE "ok"

(* The Cookie constructor. *)
CookieLength(n) == n = 8 \/ n \in 16..40

(* Text that is decoded and encoded again. *)
Text(octets) ==
  FlattenSeq([i \in 1..Len(octets) |->
                IF octets[i] \in Malformed THEN Replacement ELSE <<octets[i]>>])

(* How the decoder of a code ends, and the option it makes of the data. *)
Verdict(code, data) ==
  CASE code = ClientSubnet -> SubnetVerdict(data)
    [] code = Cookie -> IF CookieLength(Len(data)) THEN "ok" ELSE "ParseError"
    [] code = ExtendedError -> IF Len(data) < 2 THEN "RangeError" ELSE "ok"
    [] OTHER -> "ok"

Decoded(code, data) ==
  CASE code = ClientSubnet ->
         SubSeq(data, 1, 4) \o Rest(data, AddressAt(Number(data[1], data[2])))
    [] code = ExtendedError -> SubSeq(data, 1, 2) \o Text(Rest(data, 2))
    [] OTHER -> data

-----------------------------------------------------------------------------
Build == /\ pc = "build" /\ Len(options) < MaxOptions
         /\ \E o \in Options : options' = Append(options, o)
         /\ UNCHANGED <<pc, wire, sent, whole, next, outcome>>

Pack == /\ pc = "build"
        /\ wire' = <<>> /\ sent' = options /\ whole' = 0 /\ next' = 0
        /\ pc' = "pack" /\ outcome' = "ok"
        /\ UNCHANGED options

(* An option and its length, patched in; as if the four octets before the  *)
(* data counted too, which pack adds to what it returns.                   *)
PackedWithHeader(o) == Uint16(o.code) \o Uint16(4 + Len(o.data)) \o o.data

Packed(o) == Uint16(o.code) \o Uint16(Len(o.data)) \o o.data

(* When a write is refused, what was written before it stays, with a       *)
(* length of zero.                                                         *)
PackOption ==
  /\ pc = "pack" /\ whole < Len(sent)
  /\ LET o == sent[whole + 1] IN
     \/ /\ Len(wire) + 4 + Len(o.data) <= Room
        /\ wire' = wire \o Packed(o)
        /\ whole' = whole + 1
        /\ UNCHANGED <<options, pc, next, outcome>>
     \/ /\ Len(wire) + 4 + Len(o.data) > Room
        /\ \E n \in 0..Room - Len(wire) :
             wire' = wire \o SubSeq(Uint16(o.code) \o <<0, 0>> \o o.data, 1, n)
        /\ options' = <<>> /\ pc' = "unpack" /\ outcome' = "RangeError"
        /\ UNCHANGED <<whole, next>>
  /\ UNCHANGED sent

(* The reader of the RDATA. *)
Unpack == /\ pc = "pack" /\ whole = Len(sent)
          /\ options' = <<>> /\ pc' = "unpack"
          /\ UNCHANGED <<wire, sent, whole, next, outcome>>

Remaining == Len(wire) - next

(* Padding is made of its length alone: its octets are not read. *)
UnpackOption ==
  LET code == Number(wire[next + 1], wire[next + 2])
      len  == Number(wire[next + 3], wire[next + 4])
      data == SubSeq(wire, next + 5, next + 4 + len)
      How  == IF code = Padding THEN "ok"
              ELSE IF len > Remaining - 4 THEN "ParseError"
              ELSE Verdict(code, data)
  IN  /\ pc = "unpack" /\ Remaining >= 4
      /\ \/ /\ How = "ok" /\ code = Padding
            /\ options' = Append(options, [code |-> code, data |-> [i \in 1..len |-> 0]])
            /\ next' = next + 4
            /\ UNCHANGED <<pc, outcome>>
         \/ /\ How = "ok" /\ code # Padding
            /\ options' = Append(options, [code |-> code, data |-> Decoded(code, data)])
            /\ next' = next + 4 + len
            /\ UNCHANGED <<pc, outcome>>
         \/ /\ How # "ok"
            /\ pc' = "read" /\ outcome' = How
            /\ UNCHANGED <<options, next>>
      /\ UNCHANGED <<wire, sent, whole>>

Return == /\ pc = "unpack" /\ Remaining < 4
          /\ pc' = "read" /\ outcome' = "ok"
          /\ UNCHANGED <<options, wire, sent, whole, next>>

(* A forwarder packs the options it has read. *)
Forward == /\ pc = "read" /\ outcome = "ok" /\ Len(options) <= MaxOptions
           /\ pc' = "build"
           /\ UNCHANGED <<options, wire, sent, whole, next, outcome>>

-----------------------------------------------------------------------------
Init == /\ options = <<>> /\ sent = <<>> /\ whole = -1 /\ next = 0 /\ outcome = "ok"
        /\ \/ pc = "build" /\ wire = <<>>
           \/ pc = "unpack" /\ wire \in Received

Next == Build \/ Pack \/ PackOption \/ Unpack \/ UnpackOption \/ Return \/ Forward

Spec == Init /\ [][Next]_vars

-----------------------------------------------------------------------------
(* Padding that is followed by nothing and too short to be taken for an    *)
(* option, or empty.                                                       *)
PaddingShort ==
  \A i \in 1..Len(sent) : sent[i].code = Padding =>
    sent[i].data = <<>> \/ (i = Len(sent) /\ Len(sent[i].data) < 4)

NoFamily2 ==
  \A i \in 1..Len(sent) : sent[i].code = ClientSubnet => sent[i].data[2] # 2

(* Code 0 is no caller's; it is what the octets of padding read as. *)
NoReserved == \A i \in 1..Len(sent) : sent[i].code # 0

ReadBack == outcome = "ok" /\ options = sent

(* The options that were packed are the options that are read, whether a   *)
(* caller built them or they were read themselves from what another        *)
(* program sent: exactly if there is no padding whose octets are taken for *)
(* options and no address of family 2, which is read from where it is not. *)
OptionsReadBack ==
  pc = "read" /\ whole = Len(sent) =>
    /\ PaddingShort /\ NoFamily2 => ReadBack
    /\ NoReserved /\ ReadBack => PaddingShort /\ NoFamily2

(* When pack threw because the message was full, the options it had        *)
(* written are read as they were if anything is.                           *)
TornKeepsWhole ==
  pc = "read" /\ outcome = "ok" /\ whole \in 0..Len(sent) - 1 /\ PaddingShort /\ NoFamily2
    => IsPrefix(SubSeq(sent, 1, whole), options)
=============================================================================
