------------------------------ MODULE ZoneText ------------------------------
(***************************************************************************)
(* Records as text and back: what present writes of a header and of        *)
(* character strings (rr.ts, char.ts, fqdn.ts), the Lexer over the         *)
(* characters (scan.ts), and scanHeader, scanRdata and the loop of calls   *)
(* of scanRecord over the tokens.  A character is its code; what parseRdata *)
(* makes of the strings is not looked at.                                  *)
(***************************************************************************)
EXTENDS DomainName

CONSTANTS
  Zones,       \* the zones: sequences of lines, each a text and what it means
  ClassNames,  \* the mnemonics (upper case) of a number of a class or type,
  TypeNames,   \* the one in the enumeration first
  MaxTTL       \* 0xffffffff

Tab == 9
LF == 10
Space == 32
Quote == 34
Open == 40
Close == 41
Semicolon == 59
At == 64
Tilde == 126

Blanks == {Tab, Space}

Visible(c) == c \in Space+1..Tilde

None == <<>>     \* null; a value that may be null is <<value>>

-----------------------------------------------------------------------------
(* Numbers and mnemonics.  No number in hexadecimal (parseInt) and no sign *)
(* but "-" is in the texts.                                                *)
Decimal[n \in Nat] ==
  IF n < 10 THEN <<48 + n>> ELSE Append(Decimal[n \div 10], 48 + (n % 10))

Signed(n) == IF n < 0 THEN <<Minus>> \o Decimal[-n] ELSE Decimal[n]

Number(digits) == FoldLeft(LAMBDA n, d : 10 * n + d - 48, 0, digits)

(* The digits a text begins with. *)
LeadingDigits(s) ==
  LET n == CHOOSE n \in 0..Len(s) : /\ \A i \in 1..n : s[i] \in Digits
                                    /\ n < Len(s) => s[n + 1] \notin Digits
  IN  SubSeq(s, 1, n)

ParseInt(s) ==
  LET negative == s # <<>> /\ s[1] = Minus
      digits == LeadingDigits(IF negative THEN Tail(s) ELSE s)
  IN  IF digits = <<>> THEN None
      ELSE IF negative THEN <<-Number(digits)>> ELSE <<Number(digits)>>

Upper(s) == [i \in 1..Len(s) |-> IF s[i] \in 97..122 THEN s[i] - 32 ELSE s[i]]

(* /CLASS([0-9]{1,5})/i and /TYPE([0-9]{1,5})/i match anywhere in the text. *)
WordAt(word, s, i) ==
  /\ i + Len(word) <= Len(s)
  /\ SubSeq(Upper(s), i, i + Len(word) - 1) = word /\ s[i + Len(word)] \in Digits

Generic(word, s) ==
  LET found == {i \in 1..Len(s) : WordAt(word, s, i)} IN
  IF found = {} THEN None
  ELSE LET i == CHOOSE i \in found : \A j \in found : i <= j
           digits == LeadingDigits(SubSeq(s, i + Len(word), Len(s)))
           n == Number(SubSeq(digits, 1, IF Len(digits) > 5 THEN 5 ELSE Len(digits)))
       IN  IF n > 65535 THEN None ELSE <<n>>

CLASS == <<67, 76, 65, 83, 83>>
TYPE == <<84, 89, 80, 69>>

(* classFrom and rrtypeFrom; classAbbr and rrtypeText. *)
FromText(names, word, s) ==
  LET ns == {n \in DOMAIN names : Contains(names[n], Upper(s))} IN
  IF ns # {} THEN <<CHOOSE n \in ns : TRUE>> ELSE Generic(word, s)

ToText(names, word, n) == IF n \in DOMAIN names THEN names[n][1] ELSE word \o Decimal[n]

ClassFrom(s) == FromText(ClassNames, CLASS, s)

TypeFrom(s) == FromText(TypeNames, TYPE, s)

-----------------------------------------------------------------------------
(* CharacterString.present: a character with a special meaning is escaped, *)
(* or has the string quoted.                                               *)
Special == {Space, Open, Close, Semicolon, At}

Escaped(mode) ==
  IF mode = "Never" THEN {Quote, Backslash} \cup (Special \ {Space}) ELSE {Quote, Backslash}

(* As if only the zero of two digits were put in front. *)
DddOneZero(c) == IF c < 100 THEN <<48>> \o Decimal[c] ELSE Decimal[c]

Ddd(c) == [i \in 1..3 - Len(Decimal[c]) |-> 48] \o Decimal[c]

PresentChar(mode, c) ==
  IF mode # "Never" /\ c \in Special THEN <<c>>
  ELSE IF c \in Escaped(mode) THEN <<Backslash, c>>
  ELSE IF ~Visible(c) THEN <<Backslash>> \o Ddd(c)
  ELSE <<c>>

NeedsQuotes(mode, s) ==
  \/ mode = "Always"
  \/ mode = "Dynamic" /\ \E i \in 1..Len(s) : s[i] \in Special

PresentString(mode, s) ==
  LET body == FlattenSeq([i \in 1..Len(s) |-> PresentChar(mode, s[i])]) IN
  IF NeedsQuotes(mode, s) THEN <<Quote>> \o body \o <<Quote>> ELSE body

Joined(parts, c) ==
  FlattenSeq([i \in 1..Len(parts) |-> IF i > 1 THEN <<c>> \o parts[i] ELSE parts[i]])

PresentName(ls) ==
  IF Len(ls) <= 1 THEN <<Dot>>
  ELSE Joined([i \in 1..Len(ls) |-> PresentString("Never", ls[i])], Dot)

PresentHeader(h) ==
  PresentName(h.owner) \o <<Tab, Tab>> \o Signed(h.ttl) \o <<Tab>>
    \o ToText(ClassNames, CLASS, h.class) \o <<Tab>> \o ToText(TypeNames, TYPE, h.type)

(* RR.present, the modes being those of presentRdata. *)
PresentRecord(r) ==
  PresentHeader(r) \o <<Tab>>
    \o Joined([i \in 1..Len(r.strings) |-> PresentString(r.modes[i], r.strings[i])], Space)

-----------------------------------------------------------------------------
VARIABLES
  lines,       \* the lines of the zone
  text,        \* their text
  position,    \* the Lexer's place in it
  openQuotePos,
  lex,         \* "next" or, in parseString, "string"
  str,         \* the string so far
  token,       \* the token that next returned, or None
  call,        \* "idle", "header" or "rdata"
  started,     \* the header scanRecord is given, or None
  header,      \* what scanHeader has found of it: values or None
  strings,     \* what scanRdata has found
  openParen,   \* the parentheses open
  scanned,     \* the records returned
  outcome      \* "ok" or "ParseError"

lexer == <<position, openQuotePos, lex, str>>
scanner == <<call, started, header, strings, openParen, scanned>>
vars == <<lines, text, lexer, token, scanner, outcome>>

EOF == -1

CharAt(p) == IF p < Len(text) THEN text[p + 1] ELSE EOF

Char == CharAt(position)

(* The first position from p on whose character is not in a set. *)
After(p, set) ==
  CHOOSE q \in p..Len(text) : CharAt(q) \notin set /\ \A r \in p..q-1 : CharAt(r) \in set

FailAt(p) == /\ outcome' = "ParseError" /\ position' = p
             /\ UNCHANGED <<lines, text, openQuotePos, lex, str, token, scanner>>

Emit(kind, value, p) ==
  /\ token' = <<[kind |-> kind, value |-> value]>>
  /\ position' = p /\ lex' = "next" /\ str' = <<>>
  /\ UNCHANGED <<lines, text, scanner, outcome>>

(* next() goes on while the scanner waits for a token. *)
Wanted == call # "idle" /\ token = None /\ outcome = "ok"

Between == Wanted /\ lex = "next"

-----------------------------------------------------------------------------
Blank ==
  /\ Between /\ Char \in Blanks
  /\ Emit("blank", <<>>, After(position, Blanks)) /\ UNCHANGED openQuotePos

Mark ==
  /\ Between /\ Char \in {Open, Close, LF, EOF}
  /\ Emit(CASE Char = Open -> "open" [] Char = Close -> "close"
            [] Char = LF -> "newline" [] OTHER -> "eof",
          <<>>, IF Char = EOF THEN position ELSE position + 1)
  /\ UNCHANGED openQuotePos

(* parseComment: to the end of the line, or to a character that is not     *)
(* visible.                                                                *)
CommentChars == (Space..Tilde) \cup Blanks

Comment ==
  LET end == After(position + 1, CommentChars) IN
  /\ Between /\ Char = Semicolon
  /\ \/ CharAt(end) \in {LF, EOF} /\ Emit("comment", <<>>, end) /\ UNCHANGED openQuotePos
     \/ CharAt(end) \notin {LF, EOF} /\ FailAt(end)

StartString ==
  /\ Between /\ Visible(Char) /\ Char \notin {Open, Close, Semicolon}
  /\ lex' = "string"
  /\ IF Char = Quote THEN openQuotePos' = position /\ position' = position + 1
     ELSE UNCHANGED <<openQuotePos, position>>
  /\ UNCHANGED <<lines, text, str, token, scanner, outcome>>

BadStart ==
  /\ Between /\ ~Visible(Char) /\ Char \notin Blanks \cup {LF, EOF}
  /\ FailAt(position)

-----------------------------------------------------------------------------
(* parseString, a character or an escape per step. *)
InString == Wanted /\ lex = "string"

Quoted == openQuotePos >= 0

Add(c, p) == /\ str' = Append(str, c) /\ position' = p
             /\ UNCHANGED <<lines, text, openQuotePos, lex, token, scanner, outcome>>

(* \DDD, of exactly three digits. *)
Escape ==
  LET next == CharAt(position + 1)
      all == After(position + 1, Digits) - position - 1
      digits == SubSeq(text, position + 2, position + 1 + (IF all > 3 THEN 3 ELSE all))
  IN  /\ InString /\ Char = Backslash
      /\ IF next \in Digits
         THEN IF Len(digits) = 3 /\ Number(digits) <= 255
              THEN Add(Number(digits), position + 4)
              ELSE FailAt(position + 1 + Len(digits))
         ELSE IF Visible(next) THEN Add(next, position + 2) ELSE FailAt(position + 1)

Ends == {Space, Tab, LF, Semicolon, Open, Close}

(* What the closing quote leaves in openQuotePos; as if it were not reset. *)
QuoteKept == openQuotePos

QuoteClosed == -1

CloseQuote ==
  /\ InString /\ Char = Quote
  /\ IF Quoted /\ CharAt(position + 1) \in Ends \cup {EOF}
     THEN Emit("string", str, position + 1) /\ openQuotePos' = QuoteClosed
     ELSE FailAt(position)

Plain ==
  /\ InString /\ Char \notin {Backslash, Quote, EOF}
  /\ IF Char \in Ends
     THEN IF Quoted THEN Add(Char, position + 1)
          ELSE Emit("string", str, position) /\ UNCHANGED openQuotePos
     ELSE IF Visible(Char) THEN Add(Char, position + 1) ELSE FailAt(position)

EndOfString ==
  /\ InString /\ Char = EOF
  /\ IF Quoted THEN FailAt(position)
     ELSE Emit("string", str, position) /\ UNCHANGED openQuotePos

-----------------------------------------------------------------------------
(* scanHeader: the owner, then class and TTL in either order, each at most *)
(* once and in doubt the class first, then the type.                       *)
NoHeader == [owner |-> None, class |-> None, ttl |-> None, type |-> None]

Or(value, default) == IF value # None THEN value ELSE default

(* The caller begins with no header or the one of the record before. *)
ScanRecord ==
  /\ call = "idle" /\ outcome = "ok" /\ Len(scanned) < Len(lines)
  /\ started' \in {NoHeader} \cup {scanned[i].header : i \in {Len(scanned)} \ {0}}
  /\ call' = "header" /\ header' = NoHeader
  /\ UNCHANGED <<lines, text, lexer, token, strings, openParen, scanned, outcome>>

Taken(kind) == token # None /\ outcome = "ok" /\ token[1].kind = kind

Value == token[1].value

Stop == /\ outcome' = "ParseError" /\ token' = None
        /\ UNCHANGED <<lines, text, lexer, scanner>>

InHeader == call = "header" /\ token # None /\ outcome = "ok"

Found(h) == /\ header' = h /\ token' = None
            /\ UNCHANGED <<lines, text, lexer, call, started, strings, openParen, scanned, outcome>>

HeaderBlank == InHeader /\ Taken("blank")
               /\ Found([header EXCEPT !.owner = Or(@, started.owner)])

Owner == /\ InHeader /\ Taken("string") /\ header.owner = None
         /\ IF ParseName(Value) = Refused THEN Stop
            ELSE Found([header EXCEPT !.owner = <<ParseName(Value)>>])

IsClass == header.class = None /\ ClassFrom(Value) # None

IsTTL == header.ttl = None /\ ParseInt(Value) # None /\ ParseInt(Value)[1] <= MaxTTL

Class == /\ InHeader /\ Taken("string") /\ header.owner # None /\ IsClass
         /\ Found([header EXCEPT !.class = ClassFrom(Value)])

TTL == /\ InHeader /\ Taken("string") /\ header.owner # None /\ ~IsClass /\ IsTTL
       /\ Found([header EXCEPT !.ttl = ParseInt(Value)])

(* With the type the header is complete, but for what was started. *)
WithType(type) ==
  [header EXCEPT !.class = Or(@, started.class), !.ttl = Or(@, started.ttl), !.type = type]

Type ==
  /\ InHeader /\ Taken("string") /\ header.owner # None /\ ~IsClass /\ ~IsTTL
  /\ LET h == WithType(TypeFrom(Value)) IN
     IF None \in {h.class, h.ttl, h.type} THEN Stop
     ELSE /\ call' = "rdata" /\ header' = h /\ token' = None
          /\ UNCHANGED <<lines, text, lexer, started, strings, openParen, scanned, outcome>>

HeaderEnds == /\ InHeader /\ token[1].kind \notin {"blank", "string"}
              /\ Stop

-----------------------------------------------------------------------------
(* scanRdata and the end of scanRecord. *)
InRdata == call = "rdata" /\ token # None /\ outcome = "ok"

Rdata(ss, depth) ==
  /\ strings' = ss /\ openParen' = depth /\ token' = None
  /\ UNCHANGED <<lines, text, lexer, call, started, header, scanned, outcome>>

RdataString == InRdata /\ Taken("string") /\ Rdata(Append(strings, Value), openParen)

(* The RDATA is at its end; as if an open parenthesis outlived the text. *)
NoneOpen == openParen = 0 /\ (Taken("eof") \/ Taken("newline"))

AtEnd == Taken("eof") \/ (Taken("newline") /\ openParen = 0)

RdataSkipped == /\ InRdata /\ token[1].kind \in {"blank", "comment", "newline", "eof"}
                /\ ~AtEnd /\ Rdata(strings, openParen)

OpenParen == InRdata /\ Taken("open") /\ Rdata(strings, openParen + 1)

CloseParen == /\ InRdata /\ Taken("close")
              /\ IF openParen = 0 THEN Stop ELSE Rdata(strings, openParen - 1)

RdataEnds ==
  /\ InRdata /\ AtEnd
  /\ IF openParen > 0 \/ strings = <<>> THEN Stop
     ELSE /\ scanned' = Append(scanned, [started |-> started, header |-> header,
                                         strings |-> strings])
          /\ call' = "idle" /\ header' = NoHeader /\ started' = NoHeader /\ strings' = <<>>
          /\ token' = None
          /\ UNCHANGED <<lines, text, lexer, openParen, outcome>>

-----------------------------------------------------------------------------
Init ==
  /\ lines \in Zones
  /\ text = FlattenSeq([i \in 1..Len(lines) |-> lines[i].text])
  /\ position = 0 /\ openQuotePos = -1 /\ lex = "next" /\ str = <<>>
  /\ token = None /\ call = "idle" /\ started = NoHeader /\ header = NoHeader
  /\ strings = <<>> /\ openParen = 0 /\ scanned = <<>> /\ outcome = "ok"

Lex == \/ Blank \/ Mark \/ Comment \/ StartString \/ BadStart
       \/ Escape \/ CloseQuote \/ Plain \/ EndOfString

Scan == \/ HeaderBlank \/ Owner \/ Class \/ TTL \/ Type \/ HeaderEnds
        \/ RdataString \/ RdataSkipped \/ OpenParen \/ CloseParen \/ RdataEnds

Next == ScanRecord \/ Lex \/ Scan

Spec == Init /\ [][Next]_vars /\ WF_vars(Lex \/ Scan)

-----------------------------------------------------------------------------
(* What a line means behind a started header, when it says what it leaves  *)
(* out, and what no text says as it is: a character whose code has more    *)
(* than three digits' room, an empty string that is not quoted, and a dot  *)
(* within a label.                                                         *)
Meaning(e, h) ==
  [owner |-> Or(e.owner, h.owner), class |-> Or(e.class, h.class),
   ttl |-> Or(e.ttl, h.ttl), type |-> e.type]

Sayable(e) ==
  /\ \A s \in Range(e.strings) : \A i \in 1..Len(s) : s[i] <= 255
  /\ \A i \in 1..Len(e.strings) : e.strings[i] = <<>> => e.modes[i] = "Always"
  /\ e.owner # None => \A l \in Range(e.owner[1]) :
                         \A i \in 1..Len(l) : l[i] <= 255 /\ l[i] # Dot

Complete(e, h) == Sayable(e) /\ None \notin {Meaning(e, h)[f] : f \in {"owner", "class", "ttl"}}

(* Every line of a zone is scanned as the record it means, whatever        *)
(* characters and escapes its names and strings have, wherever comments,   *)
(* blanks and parentheses break it, and from any record before: exactly if *)
(* it can be said in text and nothing it leaves out is missing.  A line    *)
(* that cannot be said takes nothing from the lines behind it.             *)
ZoneReadsBack ==
  /\ \A i \in 1..Len(scanned) : lines[i].means # None =>
       LET e == lines[i].means[1] IN
       Complete(e, scanned[i].started) <=>
         /\ scanned[i].header = Meaning(e, scanned[i].started)
         /\ scanned[i].strings = e.strings
  /\ outcome = "ParseError" =>
       LET line == lines[Len(scanned) + 1] IN
       line.means = None \/ ~Complete(line.means[1], started)

(* Between two tokens no quote is open, so that no string lets blanks and  *)
(* ends of line of another in: unless parseString threw, after which the   *)
(* same lexer takes all it reads as quoted.                                *)
QuotesClose == lex = "next" /\ outcome = "ok" => openQuotePos = -1

(* A record is returned or refused, whatever the text. *)
ScanEnds == call # "idle" ~> call = "idle" \/ outcome = "ParseError"
=============================================================================
