----------------------------- MODULE RecordText -----------------------------
(***************************************************************************)
(* presentRdata and parseRdata of the record types (records/*.ts), the end *)
(* of scanRecord (records/index.ts) and the generic text of RFC 3597       *)
(* (records/unknown.ts), composed with the packing and unpacking of Rdata: *)
(* a record goes round by wire and by text in any order.  A text is the    *)
(* sequence of its strings as ZoneText scans them; a string is the value   *)
(* it was made of, and as what it was written.                             *)
(***************************************************************************)
EXTENDS Rdata

CONSTANTS
  Texts,    \* texts of other programs: type, labels of the owner, strings,
            \* and the fields they mean, none if they are malformed
  Dotted,   \* what the text of a name with a dot within a label is read as
  Spaced    \* the two names in the text of a name with a blank in a label,
            \* when it is not escaped

ASSUME TextAssumption ==
  /\ \A t \in Texts : t.type \in DOMAIN Layouts /\ t.labels \in Nat
  /\ DOMAIN Dotted \subseteq Names /\ DOMAIN Spaced \subseteq Names

VARIABLES
  form,     \* how the record goes: "wire", "text" or "generic"
  text,     \* the strings that were written
  strings   \* those scanned and not yet looked at

vars == <<rdataVars, form, text, strings>>

Written(as, value) == [as |-> as, value |-> value]

-----------------------------------------------------------------------------
(* The forms of the fields; those of the forms "hex" and "base64" take all *)
(* strings that are left, "one64" takes one.                               *)
NumberForms(n) == [i \in 1..n |-> "number"]

AForms          == <<"address">>
AAAAForms       == <<"address">>
CNAMEForms      == <<"name">>
DNAMEForms      == <<"name">>
MBForms         == <<"name">>
MGForms         == <<"name">>
MRForms         == <<"name">>
NSForms         == <<"name">>
NSAPPTRForms    == <<"name">>
PTRForms        == <<"name">>
MINFOForms      == <<"name", "name">>
MXForms         == <<"number", "name">>
SOAForms        == <<"name", "name">> \o NumberForms(5)
SRVForms        == NumberForms(3) \o <<"name">>
NAPTRForms      == NumberForms(2) \o <<"always", "always", "always", "name">>
TXTForms        == <<"always">>         \* over and over
HINFOForms      == <<"dynamic", "dynamic">>
APLForms        == <<"item">>           \* over and over
LOCForms        == [i \in 1..7 |-> "loc"]
SSHFPForms      == NumberForms(2) \o <<"hex">>
ZONEMDForms     == NumberForms(3) \o <<"hex">>
DSForms         == NumberForms(3) \o <<"hex">>
DNSKEYForms     == NumberForms(3) \o <<"base64">>
DHCIDForms      == <<"base64">>
IPSECKEYForms   == <<"number", "gateway", "one64">>
NSAPForms       == <<"nsap">>
NSECForms       == <<"name", "types">>
NSEC3Forms      == NumberForms(3) \o <<"salt", "base32", "types">>
NSEC3PARAMForms == NumberForms(3) \o <<"salt">>
RRSIGForms      == <<"type">> \o NumberForms(3) \o <<"date", "date", "number", "raw", "base64">>
TSIGForms       == <<"raw", "time", "number", "one64", "number", "number", "other">>
UnknownForms    == <<"generic">>

Forms == [
  A |-> AForms, AAAA |-> AAAAForms, CNAME |-> CNAMEForms, DNAME |-> DNAMEForms,
  MB |-> MBForms, MG |-> MGForms, MR |-> MRForms, NS |-> NSForms, NSAPPTR |-> NSAPPTRForms,
  PTR |-> PTRForms, MINFO |-> MINFOForms, MX |-> MXForms, SOA |-> SOAForms, SRV |-> SRVForms,
  NAPTR |-> NAPTRForms, TXT |-> TXTForms, HINFO |-> HINFOForms, APL |-> APLForms,
  LOC |-> LOCForms, SSHFP |-> SSHFPForms, ZONEMD |-> ZONEMDForms, DS |-> DSForms,
  DNSKEY |-> DNSKEYForms, DHCID |-> DHCIDForms, IPSECKEY |-> IPSECKEYForms,
  NSAP |-> NSAPForms, NSEC |-> NSECForms, NSEC3 |-> NSEC3Forms,
  NSEC3PARAM |-> NSEC3PARAMForms, RRSIG |-> RRSIGForms, TSIG |-> TSIGForms,
  UNKNOWN |-> UnknownForms]

ClassOf(type) ==
  CASE type = "KEY" -> "DNSKEY" [] type = "SIG" -> "RRSIG" [] type = "NXT" -> "NSEC" [] OTHER -> type

FormsOf(type) == Forms[ClassOf(type)]

Form(type, i) == FormsOf(type)[IF type \in Repeating THEN 1 ELSE i]

(* The strings that must be there. *)
Needed(type) ==
  LET class == ClassOf(type) IN
  CASE class = "IPSECKEY" -> 5 [] class = "TSIG" -> 6 [] class \in {"NSEC", "LOC"} -> 1
    [] class = "UNKNOWN" -> 2 [] OTHER -> Len(FormsOf(type))

-----------------------------------------------------------------------------
(* presentRdata.  CharacterString.present quotes for one of these. *)
Special == {32, 40, 41, 59, 64}

NeedsQuotes(codes) == ToSet(codes) \cap Special # {}

NameRead(n) == IF n \in DOMAIN Dotted THEN Dotted[n] ELSE n

(* present and toString of a name. *)
PresentName(n) == <<Written("name", NameRead(n))>>

RawName(n) ==
  IF n \in DOMAIN Spaced THEN [i \in 1..2 |-> Written("name", Spaced[n][i])] ELSE PresentName(n)

(* TSIG: displayTimeSigned takes seconds for milliseconds.  The text has   *)
(* one time zone's date and parseTimeSigned takes it for one of its own;   *)
(* here they are the same.                                                 *)
Thousandth(time) ==
  LET signed == [time EXCEPT ![1] = IF @ >= 128 THEN @ - 256 ELSE @]
      Carry(i) == FoldLeft(LAMBDA r, o : (r * 256 + o) % 1000, 0, SubSeq(signed, 1, i)) * 256
  IN  [i \in 1..7 |-> (Carry(i - 1) + signed[i]) \div 1000 % 256]

PresentGateway(g) ==
  LET type == GatewayType(g.address) IN
  <<Written("number", <<type>>), Written("number", <<g.algorithm>>)>>
    \o (CASE type = 0 -> <<Written("dot", <<>>)>>
          [] type = 3 -> RawName(g.address[1])
          [] OTHER    -> <<Written("address", g.address)>>)

Hash == <<35>>

GenericText(length, octets) ==
  <<Written("plain", Hash), Written("number", OctetsOf(length, 2))>>
    \o (IF octets = <<>> THEN <<>> ELSE <<Written("hex", octets)>>)

PresentField(f, value) ==
  CASE f = "name"    -> PresentName(value)
    [] f = "raw"     -> RawName(value)
    [] f = "always"  -> <<Written("quoted", value)>>
    [] f = "dynamic" -> <<Written(IF NeedsQuotes(value) THEN "quoted" ELSE "plain", value)>>
    [] f = "salt"    -> <<IF value = <<>> THEN Written("plain", <<45>>) ELSE Written("hex", value)>>
    [] f \in {"other", "types"} ->
         IF value = <<>> THEN <<>>
         ELSE <<Written(IF f = "other" THEN "base64" ELSE "types", value)>>
    [] f = "gateway" -> PresentGateway(value)
    [] f = "one64"   -> <<Written("base64", value)>>
    [] f = "time"    -> <<Written("time", Thousandth(value))>>
    [] f = "generic" -> GenericText(Len(value), value)
    [] OTHER         -> <<Written(f, value)>>

PresentRdata(r) ==
  IF r.type = "DHCID" THEN <<Written("base64", FlattenSeq(r.fields))>>
  ELSE FlattenSeq([i \in 1..Len(r.fields) |-> PresentField(Form(r.type, i), r.fields[i])])

(* What of a text is scanned: no string without characters, and no escape  *)
(* beyond 255, which a code of Windows1252 always is.                      *)
Blank(s) == s.as \in {"plain", "hex", "base64", "base32"} /\ s.value = <<>>

Scanned(ss) == SelectSeq(ss, LAMBDA s : ~Blank(s))

Escapable(s) == s.as \in {"plain", "quoted"} => s.value \in Seq(Octet)

-----------------------------------------------------------------------------
(* Unknown.tryParseUnknownRdata.  parseInt(pair, 16) takes what is a digit *)
(* up to the first character that is none; no digit at all is stored as 0. *)
HexDigit(c) ==
  CASE c \in 48..57 -> c - 48 [] c \in 97..102 -> c - 87 [] c \in 65..70 -> c - 55 [] OTHER -> -1

HexPair(high, low) ==
  IF high < 0 THEN 0 ELSE IF low < 0 THEN high ELSE 16 * high + low

IsString(s) == s.as \in {"plain", "quoted"}

Digits(s) == SelectSeq(s.value, LAMBDA c : c # 32)

OddHex(s) == IsString(s) /\ Len(Digits(s)) % 2 = 1

Hex(s) ==
  IF s.as = "hex" THEN s.value
  ELSE [i \in 1..Len(Digits(s)) \div 2 |->
          HexPair(HexDigit(Digits(s)[2 * i - 1]), HexDigit(Digits(s)[2 * i]))]

IsGeneric(ss) == Len(ss) >= 2 /\ IsString(ss[1]) /\ ss[1].value = Hash

IsNumber(s) == s.as = "number" \/ (IsString(s) /\ s.value # <<>> /\ ToSet(s.value) \subseteq 48..57)

NumberIn(s) ==
  IF s.as = "number" THEN NumberOf(s.value)
  ELSE FoldLeft(LAMBDA n, c : 10 * n + c - 48, 0, s.value)

(* The octets of the chunks, and how reading them ends. *)
Chunks(length, ss) ==
  FoldLeft(LAMBDA sum, s :
             IF sum.how # "ok" THEN sum
             ELSE IF OddHex(s) THEN [sum EXCEPT !.how = "Error"]
             ELSE IF Len(sum.octets) + Len(Hex(s)) > length THEN [sum EXCEPT !.how = "ParseError"]
             ELSE [sum EXCEPT !.octets = @ \o Hex(s)],
           [how |-> "ok", octets |-> <<>>], ss)

(* The array is as long as the text tells, of zeros where no chunk was.    *)
GenericRdata(ss) ==
  IF ~IsNumber(ss[2]) \/ NumberIn(ss[2]) > 65535 THEN [how |-> "ParseError", octets |-> <<>>]
  ELSE LET length == NumberIn(ss[2])
           sum == Chunks(length, IF length = 0 THEN <<>> ELSE SubSeq(ss, 3, Len(ss)))
           Filled(i) == IF i <= Len(sum.octets) THEN sum.octets[i] ELSE 0
       IN  [how |-> sum.how, octets |-> [i \in 1..length |-> Filled(i)]]

-----------------------------------------------------------------------------
(* parseRdata.  A field takes the strings it is made of.                   *)
Takes(f, ss) ==
  CASE f \in {"hex", "base64", "types", "generic"} -> Len(ss)
    [] f = "gateway" -> 3
    [] f = "other"   -> IF Len(ss) = 1 THEN 1 ELSE 0
    [] OTHER         -> 1

(* What a form is written as. *)
WrittenAs(f) ==
  CASE f = "raw" -> {"name"} [] f \in {"one64", "other"} -> {"base64"}
    [] f \in {"always", "dynamic"} -> {"quoted", "plain"} [] f = "salt" -> {"hex", "plain"}
    [] f = "base32" -> {"base32", "unpadded"} [] OTHER -> {f}

GatewayWrittenAs(type) ==
  CASE type = 0 -> {"dot", "name", "address"} [] type = 3 -> {"name", "dot"} [] OTHER -> {"address"}

(* A string is not of the form when those before it were dropped or split: *)
(* the decoders of base64 and base32 throw an Error, for no such string    *)
(* has a length they take.                                                 *)
ParseVerdict(f, ss) ==
  CASE f = "gateway" ->
         IF ss[1].value[1] > 3 \/ ss[3].as \notin GatewayWrittenAs(ss[1].value[1])
         THEN "ParseError" ELSE "ok"
    [] f = "generic" -> IF IsGeneric(ss) THEN GenericRdata(ss).how ELSE "ParseError"
    [] OTHER ->
         IF \E s \in ToSet(ss) : s.as \notin WrittenAs(f)
         THEN IF f \in {"base64", "one64", "base32"} THEN "Error" ELSE "ParseError"
         ELSE IF \E s \in ToSet(ss) : s.as = "unpadded" /\ Len(s.value) % 5 # 0 THEN "Error"
         ELSE "ok"

(* .map((s) => s.raw()).join(""); as if the first string were all. *)
JoinedFirst(ss) == IF ss = <<>> THEN <<>> ELSE ss[1].value

Joined(ss) == FlattenSeq([i \in 1..Len(ss) |-> ss[i].value])

Gateway_(ss) ==
  [algorithm |-> ss[2].value[1],
   address |-> CASE ss[1].value = <<0>> -> <<>>
                 [] ss[1].value = <<3>> -> <<ss[3].value>>
                 [] OTHER -> ss[3].value]

(* The fields a form has. *)
Parsed(type, f, ss) ==
  CASE type = "DHCID"  -> LET o == Joined(ss) IN <<SubSeq(o, 1, 2), <<o[3]>>, SubSeq(o, 4, Len(o))>>
    [] f = "gateway"   -> <<Gateway_(ss)>>
    [] f = "generic"   -> <<GenericRdata(ss).octets>>
    [] f = "salt"      -> <<IF ss[1].as = "plain" THEN <<>> ELSE ss[1].value>>
    [] f \in {"hex", "base64", "types", "other"} -> <<Joined(ss)>>
    [] OTHER           -> <<ss[1].value>>

-----------------------------------------------------------------------------
Present ==
  /\ pc = "present"
  /\ text' = PresentRdata(record) /\ form' = "text" /\ pc' = "scan"
  /\ UNCHANGED <<record, wire, rdlength, owner, fields, cursor, outcome, strings>>

(* Another program writes the RDATA as generic text, all of it or not.     *)
WriteGeneric ==
  /\ pc = "packed" /\ wire \in Seq(Octet)
  /\ \E n \in 0..Len(wire) + 1 :
       text' = GenericText(Len(wire), [i \in 1..n |-> IF i <= Len(wire) THEN wire[i] ELSE 0])
  /\ form' = "generic" /\ pc' = "scan"
  /\ UNCHANGED <<record, wire, rdlength, owner, fields, cursor, outcome, strings>>

Scanning == pc = "scan" /\ UNCHANGED <<record, owner, fields, cursor, form, text>>

Stop(how) == pc' = "done" /\ outcome' = how /\ UNCHANGED <<wire, rdlength, strings>>

ScanFails ==
  /\ Scanning /\ Stop("ParseError")
  /\ Scanned(text) = <<>> \/ \E s \in ToSet(text) : ~Escapable(s)

(* Generic text of a type that is known is unpacked, behind a header that  *)
(* has no length.                                                          *)
TakenForGeneric == owner.type # "UNKNOWN" /\ IsGeneric(Scanned(text))

ScanGeneric ==
  LET data == GenericRdata(Scanned(text)) IN
  /\ pc = "scan" /\ TakenForGeneric /\ \A s \in ToSet(text) : Escapable(s)
  /\ wire' = IF data.how = "ok" THEN data.octets ELSE wire
  /\ Unpack(IF data.how = "ok" THEN OwnerVerdict(owner.type, owner.labels) ELSE data.how, 0)
  /\ UNCHANGED <<form, text, strings>>

(* parseRdata begins; that of LOC throws, that of MX is at its end.        *)
ScanRdata ==
  LET ss == Scanned(text) IN
  /\ Scanning /\ ss # <<>> /\ ~TakenForGeneric /\ \A s \in ToSet(text) : Escapable(s)
  /\ IF Len(ss) < Needed(owner.type) \/ owner.type = "LOC" THEN Stop("ParseError")
     ELSE IF owner.type = "MX" THEN Stop("ok")
     ELSE pc' = "parse" /\ strings' = ss /\ UNCHANGED <<wire, rdlength, outcome>>

MoreFields == IF owner.type \in Repeating THEN strings # <<>>
              ELSE Len(fields) < Len(Layouts[owner.type])

ParseField ==
  LET f == Form(owner.type, Len(fields) + 1)
      n == Takes(f, strings)
      ss == SubSeq(strings, 1, n)
  IN  /\ pc = "parse" /\ MoreFields
      /\ \/ /\ ParseVerdict(f, ss) = "ok"
            /\ fields' = fields \o Parsed(owner.type, f, ss)
            /\ strings' = SubSeq(strings, n + 1, Len(strings))
            /\ UNCHANGED <<pc, outcome>>
         \/ /\ ParseVerdict(f, ss) # "ok"
            /\ pc' = "done" /\ outcome' = ParseVerdict(f, ss)
            /\ UNCHANGED <<fields, strings>>
      /\ UNCHANGED <<record, wire, rdlength, owner, cursor, form, text>>

ParseEnds ==
  /\ pc = "parse" /\ ~MoreFields /\ pc' = "done"
  /\ UNCHANGED <<record, wire, rdlength, owner, fields, cursor, outcome, form, text, strings>>

(* A program goes on with the record it has read, by wire or by text; of a *)
(* record whose fields were never set there is nothing to go on with.      *)
Forward ==
  /\ pc = "done" /\ outcome = "ok"
  /\ owner.type \in Repeating \/ Len(fields) = Len(Layouts[owner.type])
  /\ record' = [type |-> owner.type, labels |-> owner.labels, fields |-> fields]
  /\ pc' \in {"pack", "present"}
  /\ wire' = <<>> /\ rdlength' = 0 /\ fields' = <<>> /\ cursor' = 0
  /\ form' = "wire" /\ text' = <<>> /\ strings' = <<>>
  /\ UNCHANGED <<owner, outcome>>

-----------------------------------------------------------------------------
InitRecord == /\ record \in Records /\ pc \in {"pack", "present"}
              /\ owner = [type |-> record.type, labels |-> record.labels]
              /\ wire = <<>> /\ form = "wire" /\ text = <<>>

InitReceived == \E r \in Received :
                  /\ record = NoRecord /\ pc = "packed" /\ wire = r.rdata
                  /\ owner = [type |-> r.type, labels |-> r.labels]
                  /\ form = "wire" /\ text = <<>>

InitText == \E t \in Texts :
              /\ record = IF t.fields = <<>> THEN NoRecord
                          ELSE [type |-> t.type, labels |-> t.labels, fields |-> t.fields]
              /\ pc = "scan" /\ wire = <<>> /\ form = "text" /\ text = t.strings
              /\ owner = [type |-> t.type, labels |-> t.labels]

Init == /\ InitRecord \/ InitReceived \/ InitText
        /\ fields = <<>> /\ cursor = 0 /\ rdlength = 0 /\ outcome = "ok" /\ strings = <<>>

ByWire == RdataNext /\ UNCHANGED <<form, text, strings>>

Next == \/ ByWire \/ Present \/ WriteGeneric \/ ScanFails \/ ScanGeneric \/ ScanRdata
        \/ ParseField \/ ParseEnds \/ Forward

Spec == Init /\ [][Next]_vars

-----------------------------------------------------------------------------
PackedRdata(r) ==
  FlattenSeq([i \in 1..Len(r.fields) |-> PackField(Field(r.type, i), r.fields[i])])

(* Generic text that tells the length of the RDATA means just its octets:  *)
(* those it lacks are zeros.                                               *)
Whole == form = "generic" =>
           GenericRdata(text) = [how |-> "ok", octets |-> PackedRdata(record)]

(* The fields that were packed are the fields that are read, of every      *)
(* type, from a message or from generic text, whether a caller built the   *)
(* record or it was itself read from what another program sent: exactly    *)
(* if its character strings, times and prefixes are of those kinds the     *)
(* code carries over, an SRV record's owner has two labels, the header was *)
(* told the length where it is asked, and the generic text, which the code *)
(* takes when octets of it are missing, lacks only zeros.                  *)
RdataReadsBack ==
  pc = "done" /\ record # NoRecord /\ form # "text" =>
    (ReadBack <=> Latin /\ Times31 /\ PlainIPv6 /\ TwoLabels /\ LengthTold /\ Whole)

-----------------------------------------------------------------------------
(* What parseRdata does not read back. *)
Unparsed == {"MX", "LOC"}

PlainNames ==
  record.type # "DHCID" => \A i \in 1..Len(record.fields) :
    LET f == Form(record.type, i)
        ns == IF f = "gateway" THEN ToSet(record.fields[i].address) ELSE {record.fields[i]}
    IN  /\ f \in {"name", "raw", "gateway"} => ns \cap DOMAIN Dotted = {}
        /\ f \in {"raw", "gateway"} => ns \cap DOMAIN Spaced = {}

InOneString == record.type = "IPSECKEY" => Len(text) = 5

TypesListed == record.type = "NSEC3" => Last(record.fields) # <<>>

Padded == \A s \in ToSet(text) : s.as = "unpadded" => Len(s.value) % 5 = 0

TimeWritten == Each("time", LAMBDA v : Written("time", v) \in ToSet(text))

(* The text that a record is presented as, and texts of other programs,    *)
(* are read as the fields they are of, of every type, and whichever way    *)
(* the record came: exactly if parseRdata reads the type's fields, no      *)
(* string is without characters and no text without strings, its           *)
(* characters have codes of octets, its names no dots in labels and no     *)
(* blanks where they are not escaped, and nothing looks like generic text  *)
(* that was quoted text; and if a key is one string, a hash is padded, the *)
(* types of an NSEC3 record are listed, and a time is written as it is.    *)
TextReadsBack ==
  pc = "done" /\ form = "text" /\ record # NoRecord =>
    (ReadBack <=>
       /\ record.type \notin Unparsed
       /\ text # <<>> /\ Scanned(text) = text /\ \A s \in ToSet(text) : Escapable(s)
       /\ ~TakenForGeneric
       /\ PlainNames /\ InOneString /\ TypesListed /\ Padded /\ TimeWritten)
=============================================================================
