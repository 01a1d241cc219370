----------------------------- MODULE MCRecordText -----------------------------
(* A record or two of every type, and RDATA and texts of other programs    *)
(* that are malformed, or that no writer of this library writes.  A list   *)
(* of types is one string, a number in a text one of three digits.         *)
EXTENDS RecordText

Run(n) == [i \in 1..n |-> i]

Sharp == <<35>>

Rec(type, f) == [type |-> type, labels |-> 3, fields |-> f]

MCWindows1252 ==
  LET codes == <<8364, 129, 8218, 402, 8222, 8230, 8224, 8225, 710, 8240, 352, 8249, 338, 141,
                 381, 143, 144, 8216, 8217, 8220, 8221, 8226, 8211, 8212, 732, 8482, 353, 8250,
                 339, 157, 382, 376>>
  IN  [o \in 128..159 |-> codes[o - 127]]

U8 == <<7>>
U16 == <<1, 2>>
U32 == <<255, 0, 128, 1>>
N == 300
WithDot == 400
WithBlank == 410

MCDotted == (WithDot :> 401)
MCSpaced == (WithBlank :> <<411, 412>>)

Ascii == <<97, 0, 127>>
Latin1 == <<160, 255>>

NamedRecords ==
  {Rec(t, <<N>>) : t \in {"CNAME", "DNAME", "MB", "MG", "MR", "NS", "NSAPPTR", "PTR"}}
  \union {Rec("MINFO", <<N, N + 1>>), Rec("MX", <<U16, N>>),
          Rec("SOA", <<N, N + 1, U32, U32, U32, U32, U32>>),
          Rec("RRSIG", <<U16, U8, U8, U32, U32, U32, U16, N, Run(5)>>),
          Rec("SIG", <<U16, U8, U8, U32, U32, U32, U16, N, <<>> >>),
          Rec("NSEC", <<N, <<0, 1, 64>> >>), Rec("NXT", <<N, <<>> >>)}

NumericRecords == {
  Rec("A", <<Run(4)>>), Rec("AAAA", <<Run(16)>>),
  Rec("SSHFP", <<U8, U8, Run(3)>>), Rec("DHCID", <<U16, U8, Run(3)>>),
  Rec("LOC", <<U8, U8, U8, U8, U32, U32, U32>>),
  Rec("ZONEMD", <<U32, U8, U8, Run(12)>>),
  Rec("NSEC3", <<U8, U8, U16, Run(3), Run(4), <<0, 1, 64>> >>),
  Rec("NSEC3PARAM", <<U8, U8, U16, <<>> >>),
  Rec("DS", <<U16, U8, U8, Run(4)>>), Rec("DNSKEY", <<U16, U8, U8, <<>> >>),
  Rec("KEY", <<U16, U8, U8, Run(2)>>),
  Rec("NSAP", <<Run(3)>>), Rec("UNKNOWN", << <<>> >>), Rec("UNKNOWN", <<Run(3)>>) }
  \union {Rec("IPSECKEY", <<U8, [algorithm |-> 2, address |-> a], Run(2)>>)
            : a \in {<<>>, Run(4), Run(16), <<N>>}}

StringRecords == {
  Rec("TXT", <<>>), Rec("TXT", <<Ascii, <<>>, Latin1>>), Rec("HINFO", <<Ascii, <<>> >>),
  Rec("NAPTR", <<U16, U16, <<>>, Ascii, Latin1, N>>) }

Tsig(t) == Rec("TSIG", <<N, t, U16, Run(3), U16, U16, <<>> >>)

V4 == [negated |-> FALSE, prefix |-> 16, address |-> <<10, 1, 0, 0>>]
V6 == [negated |-> FALSE, prefix |-> 24, address |-> <<32, 1, 13>> \o [i \in 1..13 |-> 0]]
Not(item) == [item EXCEPT !.negated = TRUE]

Rrsig(n, sig) == Rec("RRSIG", <<U16, U8, U8, U32, U32, U32, U16, n, sig>>)

IpSecKey(address, key) == Rec("IPSECKEY", <<U8, [algorithm |-> 2, address |-> address], key>>)

Nsec3(hash, types) == Rec("NSEC3", <<U8, U8, U16, <<>>, hash, types>>)

TextRecords ==
  UNION {{Rec("NS", <<n>>), Rec("SOA", <<n, N, U32, U32, U32, U32, U32>>), Rrsig(n, Run(3)),
          Rec("NSEC", <<n, <<0, 1, 64>> >>), IpSecKey(<<n>>, Run(2)),
          Rec("TSIG", <<n, [i \in 1..7 |-> 0], U16, Run(3), U16, U16, <<>> >>)}
           : n \in {WithDot, WithBlank}}
  \union {IpSecKey(<<>>, <<>>), Nsec3(<<>>, <<0, 1, 64>>), Nsec3(Run(4), <<>>),
          Rec("SSHFP", <<U8, U8, <<>> >>), Rec("NSAP", << <<>> >>), Rec("ZONEMD", <<U32, U8, U8, Run(13)>>),
          Rec("DHCID", <<U16, U8, <<>> >>),
          Rec("TSIG", <<N, [i \in 1..7 |-> 0], U16, <<>>, U16, U16, <<>> >>),
          Rec("TSIG", <<N, [i \in 1..7 |-> 0], U16, <<>>, U16, U16, Run(2)>>),
          Rec("HINFO", << <<97, 32>>, <<59>> >>), Rec("HINFO", << <<>>, <<>> >>),
          Rec("HINFO", <<Sharp, <<57>> >>), Rec("HINFO", <<Sharp, <<97>> >>)}
  \union {Rec("TXT", <<Sharp>> \o ss) :
            ss \in {<<>>, << <<48>> >>, << <<50>> >>, << <<120>> >>, << <<48>>, Sharp>>,
                   << <<51>>, <<48, 49, 32, 65, 97>>, <<102, 122>> >>, << <<50>>, <<102, 102, 102>> >>,
                   << <<49>>, <<122, 70, 48, 48>> >>, << <<>> >>}}

Srv(labels) == [type |-> "SRV", labels |-> labels, fields |-> <<U16, U16, U16, N>>]

MCRecords ==
  NamedRecords \union NumericRecords \union StringRecords \union TextRecords
  \union {Tsig(t) : t \in {<<0, 0, 0, 127, 255, 0, 1>>, <<0, 0, 0, 128, 0, 0, 0>>,
                           <<0, 0, 1, 0, 0, 0, 0>>}}
  \union {Srv(l) : l \in 0..4}
  \union {Rec("TXT", << <<c>>, Ascii>>) : c \in {127, 128, 129, 146, 159, 160}}
  \union {Rec("APL", <<>>)} \union {Rec("APL", <<i, j>>) : i, j \in {V4, V6, Not(V6)}}

Got(type, r) == [type |-> type, labels |-> 3, rdata |-> r]

MCReceived == {
  Got("A", Run(3)), Got("A", Run(5)),            \* short; with an octet too many
  Got("AAAA", Run(15)), Got("AAAA", Run(17)),
  Got("TXT", <<1, 65, 0, 3, 66>>), Got("TXT", <<1, 128>>), Got("TXT", <<1, 200, 2, 65, 66>>),
  Got("HINFO", <<1, 65>>), Got("HINFO", <<1, 65, 0, 9>>),
  Got("ZONEMD", Run(17)), Got("ZONEMD", Run(18)), Got("SSHFP", <<1>>), Got("SSHFP", <<1, 2>>),
  Got("DS", Run(3)), Got("DS", Run(6)), Got("NSEC3PARAM", <<1, 0, 0, 9, 3, 1, 2>>),
  Got("IPSECKEY", <<9, 4, 2, 1>>), Got("IPSECKEY", <<9, 1, 2, 1, 2>>),
  Got("IPSECKEY", <<9, 3, 2, N>>), Got("DHCID", <<1, 2>>), Got("NSAP", <<>>),
  Got("MX", <<0, 1>>), Got("LOC", Run(17)),
  Got("APL", <<0, 1, 16, 1, 10>>), Got("APL", <<0, 1, 33, 1, 10>>), Got("APL", <<0, 1, 8, 130>>),
  Got("APL", <<0, 2, 129, 16>> \o Run(16)), Got("APL", <<0, 2, 48, 16>> \o Run(16)),
  Got("APL", <<0, 2, 48, 2, 32, 1>>), Got("APL", <<0, 3, 0, 0>>), Got("APL", <<0, 1, 8>>) }

Num(octets) == Written("number", octets)
B64(octets) == Written("base64", octets)

Says(r, ss) ==
  [type |-> r.type, labels |-> r.labels, fields |-> r.fields, strings |-> ss]

DsText == <<Num(U16), Num(U8), Num(U8), Written("hex", Run(2)), Written("hex", <<7, 8, 9>>)>>
KeyText == <<Num(U16), Num(U8), Num(U8), B64(Run(3)), B64(Run(2))>>
GatewayText == <<Num(U8), Num(<<0>>), Num(<<2>>), Written("dot", <<>>), B64(Run(3)), B64(Run(1))>>
HashText(ss) == <<Num(U8), Num(U8), Num(U16), Written("plain", <<45>>)>> \o ss
TsigText == <<Written("name", N), Written("time", <<0, 0, 0, 100, 1, 2, 3>>), Num(U16), B64(Run(3)),
              Num(U16), Num(U16)>>

MCTexts == {
  Says(Rec("DS", <<U16, U8, U8, Run(2) \o <<7, 8, 9>> >>), DsText),
  Says(Rec("DNSKEY", <<U16, U8, U8, Run(3) \o Run(2)>>), KeyText),
  Says(IpSecKey(<<>>, Run(3) \o Run(1)), GatewayText),
  Says(Nsec3(Run(4), <<0, 1, 64>>),
       HashText(<<Written("unpadded", Run(4)), Written("types", <<0, 1, 64>>)>>)),
  Says(Nsec3(Run(5), <<0, 1, 64>>),
       HashText(<<Written("unpadded", Run(5)), Written("types", <<0, 1, 64>>)>>)),
  Says(Rec("NSEC3PARAM", <<U8, U8, U16, <<>> >>), HashText(<<>>)),
  Says(Rec("TSIG", <<N, <<0, 0, 0, 100, 1, 2, 3>>, U16, Run(3), U16, U16, <<>> >>), TsigText),
  Says(Rec("TSIG", <<N, <<0, 0, 0, 100, 1, 2, 3>>, U16, Run(3), U16, U16, Run(2)>>),
       Append(TsigText, B64(Run(2)))),
  Says(Rec("TXT", << <<97>>, <<98>> >>), <<Written("plain", <<97>>), Written("quoted", <<98>>)>>),
  Says(Rec("IPSECKEY", <<>>),
       <<Num(U8), Num(<<9>>), Num(<<2>>), Written("name", N), B64(Run(1))>>),
  Says(Rec("NS", <<>>), <<Num(U8)>>), Says(Rec("SOA", <<>>), <<Written("name", N)>>),
  Says(Rec("RRSIG", <<>>), <<Num(U8), Num(U8), Num(U8), Num(U8), Num(U8), Num(U8), Num(U8), Num(U8),
                             Num(U8)>>) }
=============================================================================
