----------------------------- MODULE MCZoneText -----------------------------
(* One record with a string or an owner of up to two characters of every   *)
(* lexical class, or laid out in other ways, followed by another record,   *)
(* texts of up to four characters behind a header, and headers cut short.  *)
EXTENDS ZoneText

Inet == <<73, 78>>
TXT == <<84, 88, 84>>

MCClassNames == [n \in {1, 3} |-> IF n = 1 THEN <<Inet, <<73, 78, 69, 84>>>> ELSE <<<<67, 72>>>>]
MCTypeNames == [n \in {16} |-> <<TXT>>]

a == 97
b == 98

Name(l) == <<l, Null>>

(* What present writes, and what it means. *)
Written(name, ttl, class, type, ss, modes) ==
  [text |-> PresentRecord([owner |-> name, ttl |-> ttl, class |-> class, type |-> type,
                           strings |-> ss, modes |-> modes]) \o <<LF>>,
   means |-> <<[owner |-> <<name>>, class |-> <<class>>, ttl |-> <<ttl>>,
                type |-> <<type>>, strings |-> ss, modes |-> modes]>>]

(* The record behind takes its owner and class from the one before. *)
Follower ==
  [text |-> <<Tab, 55, Space>> \o TXT \o <<Space, b, Semicolon, Semicolon, Quote, LF>>,
   means |-> <<[owner |-> None, class |-> None, ttl |-> <<7>>, type |-> <<16>>,
                strings |-> <<<<b>>>>, modes |-> <<"Never">>]>>]

Chars == {a, 49, Space, Tab, LF, Quote, Open, Close, Semicolon, At, Dot, Backslash, 200, 8364}

Shorts == UNION {[1..n -> Chars] : n \in 0..2}

StringZones ==
  {<<Written(Name(<<b>>), 60, 1, 16, <<s, <<a>>>>, <<m, m>>), Follower>> :
     s \in Shorts, m \in {"Dynamic", "Always", "Never"}}

NameZones ==
  {<<Written(<<l, <<a>>, Null>>, 0, 5, 258, <<<<a>>>>, <<"Dynamic">>), Follower>> :
     l \in {l \in Shorts : l # <<>> /\ Backslash \notin Range(l)}}

(* Layouts: fields in the other order, in lower case, with a negative TTL  *)
(* and none; parentheses, comments and quotes over ends of line.           *)
Layout(line, ttl, ss) ==
  [text |-> line, means |-> <<[owner |-> <<Name(<<a>>)>>, class |-> <<1>>, ttl |-> ttl,
                               type |-> <<16>>, strings |-> ss,
                               modes |-> [i \in 1..Len(ss) |-> "Always"]]>>]

txt == <<116, 120, 116>>

Layouts == {
  Layout(<<a, Space>> \o Inet \o <<Space, 53, Space>> \o txt \o <<Space, b, LF>>, <<5>>, <<<<b>>>>),
  Layout(<<a, Space, Minus, 53, Space, 73, 110, 69, 84, Space>> \o TXT \o <<Tab, b, LF>>,
         <<-5>>, <<<<b>>>>),
  Layout(<<a, Space>> \o CLASS \o <<49, Space>> \o TYPE \o <<49, 54, Space, b, LF>>,
         None, <<<<b>>>>),
  Layout(<<a, Space, 57, Space, 105, 110, Space>> \o TXT \o
         <<Space, Open, Semicolon, Close, LF, b, Open, LF, Quote, LF, Close, Semicolon, Quote,
           Semicolon, Quote, LF, Close, Space, a, Close, LF>>,
         <<9>>, <<<<b>>, <<LF, Close, Semicolon>>, <<a>>>>),
  Layout(<<a, Space, 57, Space>> \o Inet \o <<Space>> \o TXT \o <<Space, Quote, Quote, LF>>,
         <<9>>, <<<<>>>>) }

LayoutZones == {<<line, Follower, line>> : line \in Layouts}

(* Texts that mean nothing. *)
Junk ==
  {<<[text |-> <<a, Space, 49, Space>> \o Inet \o <<Space>> \o TXT \o s, means |-> None]>> :
     s \in [1..4 -> {a, 50, LF, Quote, Open, Close, Semicolon, Backslash, 200}]}

(* Headers that end early, or have what belongs behind them. *)
Cut ==
  LET line == <<Space, a, Space, 49, Space>> \o Inet \o <<Space>> \o TXT IN
  {<<[text |-> SubSeq(line, 1, n) \o s, means |-> None]>> :
     n \in 0..Len(line), s \in {<<>>, <<LF>>, <<Open>>, <<Close>>, <<Semicolon, LF>>}}

MCZones == StringZones \cup NameZones \cup LayoutZones \cup Junk \cup Cut
=============================================================================
