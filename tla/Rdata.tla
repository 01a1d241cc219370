------------------------------- MODULE Rdata -------------------------------
(***************************************************************************)
(* packRdata and unpackRdata of the record types (records/*.ts) but OPT,   *)
(* with the character string of char.ts and the address prefix of apl.ts.  *)
(* A layout is the sequence of a type's fields; one action packs or        *)
(* unpacks a field.  RecordText adds the text of RDATA and composes both.  *)
(* RDATA is octets, but for a name, which is one unit (PacketBuffer,       *)
(* Compressor and Slice have its octets).  A number is the sequence of its *)
(* octets, a character string that of its character codes, a time that of  *)
(* its octets behind an octet that is 255 when the number is negative.     *)
(***************************************************************************)
EXTENDS Integers, SequencesExt

CONSTANTS
  Records,      \* the records callers build: type, labels of the owner, fields
  Received,     \* records received: type, labels of the owner, RDATA
  Windows1252   \* code of the characters that octets 128 to 159 decode to

Octet == 0..255

(* The units that stand for names. *)
Names == 256..511

NoRecord == [type |-> "none", labels |-> 0, fields |-> <<>>]

-----------------------------------------------------------------------------
(* The kinds of field.  Header(least) and Address6 reach to the end that   *)
(* rdlength in the header tells, Rest to the end of the slice.             *)
Octets(n)     == [kind |-> "octets", size |-> n]
Name          == [kind |-> "name"]
String        == [kind |-> "string"]
Item          == [kind |-> "item"]
Time          == [kind |-> "time"]
Gateway       == [kind |-> "gateway"]
Counted(n)    == [kind |-> "counted", size |-> n]
Rest          == [kind |-> "rest"]
Header(least) == [kind |-> "header", least |-> least]
Address6      == [kind |-> "address6"]

Uint8 == Octets(1)
Uint16 == Octets(2)
Uint32 == Octets(4)

A        == <<Octets(4)>>
AAAA     == <<Address6>>
CNAME    == <<Name>>
DNAME    == <<Name>>
MB       == <<Name>>
MG       == <<Name>>
MR       == <<Name>>
NS       == <<Name>>
NSAPPTR  == <<Name>>
PTR      == <<Name>>
MINFO    == <<Name, Name>>
MX       == <<Uint16, Name>>
TXT      == <<String>>              \* over and over
HINFO    == <<String, String>>
NAPTR    == <<Uint16, Uint16, String, String, String, Name>>
SRV      == <<Uint16, Uint16, Uint16, Name>>
SSHFP    == <<Uint8, Uint8, Header(0)>>
SOA      == <<Name, Name, Uint32, Uint32, Uint32, Uint32, Uint32>>
DHCID    == <<Uint16, Uint8, Rest>>
LOC      == <<Uint8, Uint8, Uint8, Uint8, Uint32, Uint32, Uint32>>
APL      == <<Item>>                \* over and over
ZONEMD   == <<Uint32, Uint8, Uint8, Header(12)>>
TSIG     == <<Name, Time, Uint16, Counted(2), Uint16, Uint16, Counted(2)>>
IPSECKEY == <<Uint8, Gateway, Rest>>
NSEC     == <<Name, Rest>>          \* TypeBitMaps has what Rest is
NSEC3    == <<Uint8, Uint8, Uint16, Counted(1), Counted(1), Rest>>
NSEC3PARAM == <<Uint8, Uint8, Uint16, Counted(1)>>
DS       == <<Uint16, Uint8, Uint8, Header(0)>>
DNSKEY   == <<Uint16, Uint8, Uint8, Header(0)>>
RRSIG    == <<Uint16, Uint8, Uint8, Uint32, Uint32, Uint32, Uint16, Name, Header(0)>>
NSAP     == <<Rest>>
Unknown  == <<Rest>>

(* initRecord: the class of a type. *)
Layouts == [
  A |-> A, AAAA |-> AAAA, CNAME |-> CNAME, DNAME |-> DNAME, DNSKEY |-> DNSKEY,
  DS |-> DS, HINFO |-> HINFO, LOC |-> LOC, MB |-> MB, MG |-> MG, MINFO |-> MINFO,
  MR |-> MR, MX |-> MX, NS |-> NS, NSEC |-> NSEC, NSEC3 |-> NSEC3,
  NSEC3PARAM |-> NSEC3PARAM, PTR |-> PTR, RRSIG |-> RRSIG, SOA |-> SOA, SRV |-> SRV,
  SSHFP |-> SSHFP, TSIG |-> TSIG, TXT |-> TXT, ZONEMD |-> ZONEMD, NSAP |-> NSAP,
  NSAPPTR |-> NSAPPTR, NAPTR |-> NAPTR, KEY |-> DNSKEY, SIG |-> RRSIG, NXT |-> NSEC,
  APL |-> APL, IPSECKEY |-> IPSECKEY, DHCID |-> DHCID, UNKNOWN |-> Unknown]

Repeating == {"TXT", "APL"}

Field(type, i) == Layouts[type][IF type \in Repeating THEN 1 ELSE i]

ASSUME RdataAssumption ==
  /\ \A r \in Records : /\ r.type \in DOMAIN Layouts /\ r.labels \in Nat
                        /\ r.type \notin Repeating => Len(r.fields) = Len(Layouts[r.type])
  /\ \A r \in Received : /\ r.type \in DOMAIN Layouts /\ r.labels \in Nat
                         /\ r.rdata \in Seq(Octet \union Names)
  /\ \A o \in 128..159 : Windows1252[o] \in Nat

VARIABLES
  record,       \* the record that was packed, or none when it was received
  pc,           \* "pack", "packed", "unpack" or "done"; or in the text
  wire,         \* its RDATA
  rdlength,     \* header.rdlength of the record that is read
  owner,        \* the type and the labels of the owner of that record
  fields,       \* the fields read so far
  cursor,       \* the units of the RDATA read so far
  outcome       \* how the last call ended

rdataVars == <<record, pc, wire, rdlength, owner, fields, cursor, outcome>>

-----------------------------------------------------------------------------
(* Packing.  Uint16(n) is what writeUint16 makes of a number. *)
NumberOf(octets) == FoldLeft(LAMBDA n, o : n * 256 + o, 0, octets)

OctetsOf(n, size) ==
  IF size = 1 THEN <<(n % 256)>> ELSE <<((n \div 256) % 256), (n % 256)>>

(* binaryToString and stringToBinary with "ascii". *)
Encode(codes) == [i \in 1..Len(codes) |-> codes[i] % 256]

Decode(octets) ==
  [i \in 1..Len(octets) |->
     IF octets[i] \in 128..159 THEN Windows1252[octets[i]] ELSE octets[i]]

(* CharacterString.pack *)
PackString(codes) == <<(Len(codes) % 256)>> \o Encode(codes)

(* APItem.pack: the constant for the negation flag is no octet, and no     *)
(* octet has index -1, so that trailing zeros are never left out.          *)
PackItem(item) ==
  <<0, IF Len(item.address) = 4 THEN 1 ELSE 2, item.prefix, Len(item.address)>> \o item.address

(* TSIG: timeSigned >> 16 and readUint32() << 16 have 32 bits. *)
Low32(octets) == SubSeq(octets, Len(octets) - 3, Len(octets))

Sign(octets) == IF octets[1] >= 128 THEN 255 ELSE 0

PackTime(time) ==
  LET low == Low32(time) IN <<Sign(low), Sign(low)>> \o low

UnpackTime(octets) ==
  LET low == Low32(octets) IN <<Sign(low), Sign(low), Sign(low)>> \o low

GatewayType(address) ==
  CASE address = <<>>     -> 0
    [] Len(address) = 4   -> 1
    [] Len(address) = 16  -> 2
    [] OTHER              -> 3

PackField(f, value) ==
  CASE f.kind = "name"    -> <<value>>
    [] f.kind = "string"  -> PackString(value)
    [] f.kind = "item"    -> PackItem(value)
    [] f.kind = "time"    -> PackTime(value)
    [] f.kind = "gateway" -> <<GatewayType(value.address), value.algorithm>> \o value.address
    [] f.kind = "counted" -> OctetsOf(Len(value), f.size) \o value
    [] OTHER              -> value

-----------------------------------------------------------------------------
(* Unpacking: Size is the units a field takes from those left, when the    *)
(* least it takes is there.                                                *)

(* APItem.unpack: the mask of AFDLENGTH is hexadecimal, 0x11. *)
AfdLength(b) == (b % 2) + 16 * ((b \div 16) % 2)

AddressSize(af) == IF af = 1 THEN 4 ELSE 16

(* ... as if the prefix length were taken as it came. *)
ItemOfFamily(left) == NumberOf(SubSeq(left, 1, 2)) \in {1, 2}

ItemOK(left) ==
  LET af == NumberOf(SubSeq(left, 1, 2)) IN
  /\ af \in {1, 2}
  /\ left[3] <= 8 * AddressSize(af)
  /\ AfdLength(left[4]) <= AddressSize(af)

UnpackItem(units) ==
  LET size == AddressSize(NumberOf(SubSeq(units, 1, 2))) IN
  [negated |-> units[4] >= 128, prefix |-> units[3],
   address |-> [i \in 1..size |-> IF i + 4 <= Len(units) THEN units[i + 4] ELSE 0]]

Gateways == <<0, 4, 16, 1>>

Least(f) ==
  CASE f.kind \in {"octets", "counted"} -> f.size
    [] f.kind \in {"name", "string"} -> 1
    [] f.kind = "item" -> 4
    [] f.kind = "time" -> 6
    [] f.kind = "gateway" -> 2
    [] OTHER -> 0

Size(f, left, told) ==
  CASE f.kind = "string"  -> 1 + left[1]
    [] f.kind = "counted" -> f.size + NumberOf(SubSeq(left, 1, f.size))
    [] f.kind = "item"    -> 4 + AfdLength(left[4])
    [] f.kind = "gateway" -> 2 + (IF left[1] \in 0..3 THEN Gateways[left[1] + 1] ELSE 0)
    [] f.kind = "rest"    -> Len(left)
    [] f.kind \in {"header", "address6"} -> told
    [] OTHER              -> Least(f)

(* How reading a field ends.  An address that is not of 16 octets is       *)
(* refused by the address library with an error of its own.                *)
Verdict(f, left, told) ==
  IF f.kind = "header" /\ told < f.least THEN "ParseError"
  ELSE IF Len(left) < Least(f) THEN "ParseError"
  ELSE IF f.kind = "item" /\ ~ItemOK(left) THEN "ParseError"
  ELSE IF f.kind = "gateway" /\ left[1] \notin 0..3 THEN "ParseError"
  ELSE IF Len(left) < Size(f, left, told) THEN "ParseError"
  ELSE IF f.kind = "address6" /\ told # 16 THEN "Error"
  ELSE "ok"

Value(f, units) ==
  CASE f.kind = "name"    -> units[1]
    [] f.kind = "string"  -> Decode(Tail(units))
    [] f.kind = "counted" -> SubSeq(units, f.size + 1, Len(units))
    [] f.kind = "item"    -> UnpackItem(units)
    [] f.kind = "time"    -> UnpackTime(units)
    [] f.kind = "gateway" -> [algorithm |-> units[2], address |-> SubSeq(units, 3, Len(units))]
    [] OTHER              -> units

-----------------------------------------------------------------------------
Pack ==
  /\ pc = "pack" /\ Len(fields) < Len(record.fields)
  /\ LET i == Len(fields) + 1 IN
       /\ wire' = wire \o PackField(Field(record.type, i), record.fields[i])
       /\ fields' = Append(fields, record.fields[i])
  /\ UNCHANGED <<record, pc, rdlength, owner, cursor, outcome>>

Packed ==
  /\ pc = "pack" /\ Len(fields) = Len(record.fields)
  /\ pc' = "packed" /\ fields' = <<>>
  /\ UNCHANGED <<record, wire, rdlength, owner, cursor, outcome>>

(* unpackRdata begins; SRV first reads its owner: the rest of it, of which *)
(* it makes a name, begins with the dot.                                   *)
OwnerVerdict(type, labels) ==
  IF type # "SRV" \/ labels = 2 THEN "ok"
  ELSE IF labels < 2 THEN "SemanticError" ELSE "ParseError"

Unpack(how, length) ==
  /\ rdlength' = length
  /\ outcome' = how
  /\ pc' = IF how = "ok" THEN "unpack" ELSE "done"
  /\ UNCHANGED <<record, owner, fields, cursor>>

(* unpackRecord: the record came in a message. *)
UnpackRecord ==
  /\ pc = "packed"
  /\ Unpack(OwnerVerdict(owner.type, owner.labels), Len(wire))
  /\ UNCHANGED wire

(* HINFO reads a slice of rdlength octets first. *)
End == IF owner.type = "HINFO" THEN rdlength ELSE Len(wire)

Left == SubSeq(wire, cursor + 1, End)

(* What the header tells of the rest, never less than nothing; as if it    *)
(* did not count what has been read.                                       *)
ToldWhole == rdlength

Told == IF rdlength > cursor THEN rdlength - cursor ELSE 0

More == IF owner.type \in Repeating THEN Left # <<>>
        ELSE Len(fields) < Len(Layouts[owner.type])

UnpackField ==
  /\ pc = "unpack" /\ More
  /\ LET f == Field(owner.type, Len(fields) + 1)
         n == Size(f, Left, Told) IN
     \/ /\ Verdict(f, Left, Told) = "ok"
        /\ fields' = Append(fields, Value(f, SubSeq(Left, 1, n)))
        /\ cursor' = cursor + n
        /\ UNCHANGED <<pc, outcome>>
     \/ /\ Verdict(f, Left, Told) # "ok"
        /\ outcome' = Verdict(f, Left, Told) /\ pc' = "done"
        /\ UNCHANGED <<fields, cursor>>
  /\ UNCHANGED <<record, wire, rdlength, owner>>

Return ==
  /\ pc = "unpack" /\ ~More
  /\ pc' = "done"
  /\ UNCHANGED <<record, wire, rdlength, owner, fields, cursor, outcome>>

-----------------------------------------------------------------------------
RdataNext == Pack \/ Packed \/ UnpackRecord \/ UnpackField \/ Return

-----------------------------------------------------------------------------
ValueOK(f, v) ==
  CASE f.kind = "name"    -> v \in Names
    [] f.kind = "string"  -> v \in Seq(Nat)
    [] f.kind = "item"    -> /\ Len(v.address) \in {4, 16}
                             /\ v.prefix \in 0..8 * Len(v.address)
    [] f.kind = "gateway" -> /\ v.algorithm \in Octet
                             /\ v.address \in {<<n>> : n \in Names} \union Seq(Octet)
    [] OTHER              -> v \in Seq(Octet)

(* The type invariant: every field that was read is one of its kind, and   *)
(* no address prefix is longer than its address.                           *)
RdataTypeOK ==
  /\ wire \in Seq(Octet \union Names)
  /\ pc \in {"pack", "packed", "unpack", "present", "scan", "parse", "done"}
  /\ outcome \in {"ok", "ParseError", "SemanticError", "Error"}
  /\ cursor \in 0..Len(wire) /\ rdlength \in {0, Len(wire)}
  /\ \A i \in 1..Len(fields) : ValueOK(Field(owner.type, i), fields[i])

-----------------------------------------------------------------------------
(* What the code does not carry over. *)

Each(kind, P(_)) ==
  \A i \in 1..Len(record.fields) :
    Field(record.type, i).kind = kind => P(record.fields[i])

(* Characters whose code is the octet they are decoded from, no more than  *)
(* a length octet counts.                                                  *)
Latin == Each("string", LAMBDA v : Len(v) <= 255 /\ v \in Seq(Octet) /\ Decode(v) = v)

(* Times of 31 bits and a sign. *)
Times31 == Each("time", LAMBDA v : LET sign == Sign(Low32(v)) IN \A i \in 1..3 : v[i] = sign)

PlainIPv6 == Each("item", LAMBDA v : ~v.negated /\ Len(v.address) = 16)

TwoLabels == record.type = "SRV" => record.labels = 2

(* Types that do not ask the header, of a record that was scanned, and     *)
(* those that have nothing to read where they ask.                         *)
LengthTold ==
  \/ rdlength = Len(wire)
  \/ /\ record.type # "HINFO"
     /\ \A i \in 1..Len(record.fields) :
          Field(record.type, i).kind \in {"header", "address6"} => record.fields[i] = <<>>

ReadBack == outcome = "ok" /\ fields = record.fields
=============================================================================
