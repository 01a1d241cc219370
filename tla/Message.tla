------------------------------ MODULE Message ------------------------------
(***************************************************************************)
(* A message from its builder (message-builder.ts) to the wire and back    *)
(* (message.ts, question.ts, rr.ts, records/index.ts).  The wire is a      *)
(* sequence of units: a name, a number of a fixed field, an octet of       *)
(* RDATA; PacketBuffer, Compressor and Slice have what becomes of each     *)
(* one.  A record object may be in several sections and be packed more     *)
(* than once, and pack may throw at any write when the message is full,    *)
(* and in the RDATA of a record that lacks a field.  The loops of          *)
(* startAnswer and of a RecordIterator run over lists that may grow.       *)
(***************************************************************************)
EXTENDS Integers, SequencesExt

CONSTANTS
  Word,        \* a number of a count or length field is written mod Word
  MaxSize,     \* MAX_MESSAGE_SIZE
  Ids,         \* identifiers and flags, the fixed fields of the header
  Names, Types, Values,
  Questions,   \* subset of [name : Names, type : Types]
  Queries,     \* the question lists of other messages that are answered
  Records,     \* the record objects, one for each such pair
  MaxRdata,    \* bound: the longest RDATA
  MaxEntries,  \* bound: entries in all the sections
  Iterated,    \* the sections that callers iterate over
  MaxUncounted,  \* bound: records pushed on a section itself
  None         \* not a record and not a message

(* Every entry takes a unit or more, so a message that fits has no count   *)
(* or length of Word or more.                                              *)
ASSUME MessageAssumption ==
  /\ Word \in Nat /\ MaxSize \in Nat /\ MaxSize < Word
  /\ MaxRdata \in Nat /\ MaxEntries \in Nat /\ MaxUncounted \in Nat
  /\ Ids \subseteq Nat /\ Names \subseteq Nat /\ Types \subseteq Nat /\ Values \subseteq Nat
  /\ Questions \subseteq [name : Names, type : Types] /\ Queries \subseteq Seq(Questions)
  /\ Iterated \subseteq {"answer", "authority", "additional"}
  /\ Records \subseteq [name : Names, type : Types]

Sections == {"question", "answer", "authority", "additional"}

SectionOrder == <<"question", "answer", "authority", "additional">>

RecordSections == Sections \ {"question"}

(* RDATA: a type's number is the length of its fixed fields, and type 0    *)
(* has none but takes all of the RDATA, as TXT, OPT and Unknown do.        *)
RdataOf(type) == IF type > 0 THEN [1..type -> Values] ELSE BoundedSeq(Values, MaxRdata)

VARIABLES
  header,      \* the identifier and the counts of the built message
  entries,     \* its questions and records
  uncounted,   \* history: records of each section that no builder appended
  rdata,       \* the RDATA of each record object
  rdlength,    \* and its header's rdlength, set when it is packed
  opt,         \* the OPT record a closure is building, or None
  answering,   \* startAnswer's loop: the questions it reads and the next one
  iterator,    \* a loop over a section's RecordIterator, and its index
  buf,         \* the units written
  todo,        \* what the call of pack has still to write
  packed,      \* the message as it was when that call began, or None
  torn,        \* the call threw
  data,        \* the units unpack was called on
  cursor,      \* units read of them
  parsed,      \* the message read so far
  outcome      \* "idle", "reading", "ok" or "ParseError"

message == <<header, entries, uncounted>>
built == <<message, rdata, rdlength, opt, answering, iterator>>
writer == <<buf, todo, packed, torn>>
parser == <<data, cursor, parsed, outcome>>
vars == <<built, writer, parser>>

NoMessage == [id |-> 0, count |-> [s \in Sections |-> 0], entries |-> [s \in Sections |-> <<>>]]

NoAnswer == [self |-> FALSE, list |-> <<>>, next |-> 0]

NoIterator == [of |-> "none", type |-> 0, next |-> 0]

(* No call runs; a caller's loop over an iterator may. *)
Idle == todo = <<>> /\ outcome # "reading" /\ answering = NoAnswer

(* Bound: until a packed message was read the caller builds no further;    *)
(* neither the buffer nor the reader would know of it.                     *)
Building == Idle /\ packed = None

-----------------------------------------------------------------------------
(* The builder: every section's append counts the entry in the header.     *)
Total == Len(entries["question"]) + Len(entries["answer"]) + Len(entries["authority"])
           + Len(entries["additional"])

(* The header field a section's closure counts in; as copied from the      *)
(* section above.                                                          *)
CopiedCounter(s) == IF s = "authority" THEN "answer" ELSE s

Counter(s) == s

Add(s, items) ==
  /\ Total + Len(items) <= MaxEntries
  /\ header' = [header EXCEPT !.count[Counter(s)] = @ + Len(items)]
  /\ entries' = [entries EXCEPT ![s] = @ \o items]
  /\ UNCHANGED uncounted

PushQuestion == \E q \in Questions :
                  /\ Building /\ Add("question", <<q>>)
                  /\ UNCHANGED <<rdata, rdlength, opt, answering, iterator, writer, parser>>

Push == \E s \in RecordSections, r \in Records :
          /\ Building /\ Add(s, <<r>>)
          /\ UNCHANGED <<rdata, rdlength, opt, answering, iterator, writer, parser>>

(* RecordSection.push, which a caller reaches too, counts nothing. *)
SectionPush ==
  \E s \in RecordSections, r \in Records :
    /\ Building
    /\ Total < MaxEntries
    /\ uncounted[s] < MaxUncounted
    /\ entries' = [entries EXCEPT ![s] = Append(@, r)]
    /\ uncounted' = [uncounted EXCEPT ![s] = @ + 1]
    /\ UNCHANGED <<header, rdata, rdlength, opt, answering, iterator, writer, parser>>

(* AdditionalBuilder.opt runs the caller's closure, which may use the      *)
(* builder itself or throw, before it appends the record.                  *)
OptBegin == \E r \in Records :
              /\ Building /\ opt = None /\ r.type = 0
              /\ opt' = r
              /\ UNCHANGED <<message, rdata, rdlength, answering, iterator, writer, parser>>

OptEnd == /\ Building /\ opt # None
          /\ Add("additional", <<opt>>)
          /\ opt' = None
          /\ UNCHANGED <<rdata, rdlength, answering, iterator, writer, parser>>

OptThrow == /\ Building /\ opt # None
            /\ opt' = None
            /\ UNCHANGED <<message, rdata, rdlength, answering, iterator, writer, parser>>

(* The header's setters. *)
SetHeader == \E id \in Ids :
               /\ Building
               /\ header' = [header EXCEPT !.id = id]
               /\ UNCHANGED <<entries, uncounted, rdata, rdlength, opt, answering, iterator,
                              writer, parser>>

(* A record's fields are public. *)
SetRdata == \E r \in Records : \E v \in RdataOf(r.type) :
              /\ Building
              /\ rdata' = [rdata EXCEPT ![r] = v]
              /\ UNCHANGED <<message, rdlength, opt, answering, iterator, writer, parser>>

-----------------------------------------------------------------------------
(* startAnswer of a query, which may be the message that is built: build() *)
(* returns it whenever it is called.                                       *)
StartAnswer ==
  /\ Building
  /\ \/ \E id \in Ids, query \in Queries :
          /\ Total + Len(query) <= MaxEntries
          /\ header' = [header EXCEPT !.id = id]
          /\ answering' = [self |-> FALSE, list |-> query, next |-> 1]
     \/ /\ answering' = [self |-> TRUE, list |-> <<>>, next |-> 1]
        /\ UNCHANGED header
  /\ UNCHANGED <<entries, uncounted, rdata, rdlength, opt, iterator, writer, parser>>

QuestionList == IF answering.self THEN entries["question"] ELSE answering.list

(* for (const q of query.question), of the list as it is in each turn; as  *)
(* if it began anew.                                                       *)
Again(i) == 1

After(i) == i + 1

AnswerQuestion ==
  /\ answering # NoAnswer /\ answering.next <= Len(QuestionList)
  /\ Add("question", <<QuestionList[answering.next]>>)
  /\ answering' = [answering EXCEPT !.next = After(@)]
  /\ UNCHANGED <<rdata, rdlength, opt, iterator, writer, parser>>

Answered ==
  /\ answering # NoAnswer /\ answering.next > Len(QuestionList)
  /\ answering' = NoAnswer
  /\ UNCHANGED <<message, rdata, rdlength, opt, iterator, writer, parser>>

-----------------------------------------------------------------------------
(* A caller's loop over the records of a type in a section, which calls    *)
(* next until it is done, and may build on meanwhile.                       *)
Iterate ==
  \E s \in Iterated, t \in {r.type : r \in Records} :
    /\ Building /\ iterator = NoIterator
    /\ iterator' = [of |-> s, type |-> t, next |-> 0]
    /\ UNCHANGED <<message, rdata, rdlength, opt, answering, writer, parser>>

List == entries[iterator.of]


Match(from) ==
  CHOOSE i \in from..Len(List) : /\ i < Len(List) => List[i + 1].type = iterator.type
                                 /\ \A j \in from..i-1 : List[j + 1].type # iterator.type

(* done: there is none, or it is the last of the section. *)
IteratorDone(i) == i + 1 >= Len(List)

IteratorNext ==
  /\ Building /\ iterator # NoIterator
  /\ LET i == Match(iterator.next) IN
       iterator' = IF IteratorDone(i) THEN NoIterator ELSE [iterator EXCEPT !.next = i]
  /\ UNCHANGED <<message, rdata, rdlength, opt, answering, writer, parser>>

-----------------------------------------------------------------------------
(* pack: the header with its counts, then the sections.  A record's header *)
(* has the rdlength of when it was last packed; once the RDATA is written  *)
(* it is corrected in the record and in the buffer.                        *)
Unit(n) == [write |-> n]

Field(v) == [write |-> v, field |-> TRUE]

Patch(r) == [patch |-> r]

RecordUnits(r, lengthOf) ==
  <<Unit(r.name), Unit(r.type), Unit(lengthOf[r] % Word)>>
    \o [i \in 1..Len(rdata[r]) |-> Field(rdata[r][i])] \o <<Patch(r)>>

QuestionUnits(q) == <<Unit(q.name), Unit(q.type)>>

HeaderUnits ==
  <<Unit(header.id)>> \o [i \in 1..4 |-> Unit(header.count[SectionOrder[i]] % Word)]

(* A record that is packed again in the same call has its new rdlength. *)
Earlier(r, rs, i) == \E j \in 1..i-1 : rs[j] = r

SectionUnits ==
  LET rs == entries["answer"] \o entries["authority"] \o entries["additional"]
      length(i) == IF Earlier(rs[i], rs, i) THEN [r \in Records |-> Len(rdata[r])] ELSE rdlength
  IN  FlattenSeq([i \in 1..Len(entries["question"]) |-> QuestionUnits(entries["question"][i])])
        \o FlattenSeq([i \in 1..Len(rs) |-> RecordUnits(rs[i], length(i))])

Entry(e, rd) == [name |-> e.name, type |-> e.type, rdata |-> rd]

Snapshot ==
  [id |-> header.id, count |-> header.count,
   entries |-> [s \in Sections |->
     [i \in 1..Len(entries[s]) |->
       Entry(entries[s][i], IF s = "question" THEN <<>> ELSE rdata[entries[s][i]])]]]

Pack == /\ Idle /\ packed = None /\ iterator = NoIterator
        /\ todo' = HeaderUnits \o SectionUnits
        /\ packed' = Snapshot
        /\ UNCHANGED <<built, buf, torn, parser>>

(* checkWrite *)
Room == Len(buf) < MaxSize

Write == /\ todo # <<>> /\ "write" \in DOMAIN Head(todo)
         /\ \/ /\ Room
               /\ buf' = Append(buf, Head(todo).write)
               /\ todo' = Tail(todo)
               /\ UNCHANGED torn
            \/ /\ ~Room
               /\ todo' = <<>> /\ torn' = TRUE
               /\ UNCHANGED buf
         /\ UNCHANGED <<built, packed, parser>>

(* packRdata throws at a field that was never set. *)
Throw == /\ todo # <<>> /\ {"field", "patch"} \cap DOMAIN Head(todo) # {}
         /\ todo' = <<>> /\ torn' = TRUE
         /\ UNCHANGED <<built, buf, packed, parser>>

(* Where RDATA of that length began, less the length field; as if the      *)
(* position were taken before the header's last field.                     *)
LengthFieldEarly(length) == Len(buf) - length - 1

LengthField(length) == Len(buf) - length

WritePatch == /\ todo # <<>> /\ "patch" \in DOMAIN Head(todo)
              /\ LET r == Head(todo).patch
                     length == Len(rdata[r])
                 IN  /\ rdlength' = [rdlength EXCEPT ![r] = length]
                     /\ buf' = [buf EXCEPT ![LengthField(length)] = length % Word]
              /\ todo' = Tail(todo)
              /\ UNCHANGED <<message, rdata, opt, answering, iterator, packed, torn, parser>>

(* The caller takes a new buffer. *)
Alloc == /\ Idle /\ packed # None
         /\ buf' = <<>> /\ packed' = None /\ torn' = FALSE
         /\ data' = <<>> /\ cursor' = 0 /\ parsed' = NoMessage /\ outcome' = "idle"
         /\ UNCHANGED <<built, todo>>

-----------------------------------------------------------------------------
(* unpack of what was packed, of the first units of it, as a datagram cut  *)
(* short, or of a buffer that was not frozen, with all of its allocation.  *)
(* Bound: that is the largest there is; reading less of it goes no other   *)
(* way.                                                                    *)
Zeros(n) == [i \in 1..n |-> 0]

Unpack == \E n \in 0..Len(buf) \cup {MaxSize} :
            /\ Idle /\ packed # None /\ outcome = "idle"
            /\ data' = IF n <= Len(buf) THEN SubSeq(buf, 1, n) ELSE buf \o Zeros(n - Len(buf))
            /\ outcome' = "reading"
            /\ UNCHANGED <<built, writer, cursor, parsed>>

Left == Len(data) - cursor

At(i) == data[cursor + i]

Refuse == /\ outcome' = "ParseError" /\ parsed' = NoMessage
          /\ UNCHANGED <<built, writer, data, cursor>>

ReadHeader ==
  /\ outcome = "reading" /\ cursor = 0
  /\ \/ Left < 5 /\ Refuse
     \/ /\ Left >= 5
        /\ cursor' = 5
        /\ parsed' = [NoMessage EXCEPT
             !.id = At(1),
             !.count = [s \in Sections |->
                          At(1 + CHOOSE i \in 1..4 : SectionOrder[i] = s)]]
        /\ UNCHANGED <<built, writer, data, outcome>>

(* The sections are read in order, each to its count. *)
Missing(s) == Len(parsed.entries[s]) < parsed.count[s]

Current(s) == /\ outcome = "reading" /\ cursor > 0 /\ Missing(s)
              /\ LET k == CHOOSE i \in 1..4 : SectionOrder[i] = s
                 IN  \A i \in 1..k-1 : ~Missing(SectionOrder[i])

Take(s, e, units) == /\ parsed' = [parsed EXCEPT !.entries[s] = Append(@, e)]
                     /\ cursor' = cursor + units
                     /\ UNCHANGED <<built, writer, data, outcome>>

ReadQuestion ==
  /\ Current("question")
  /\ \/ Left < 2 /\ Refuse
     \/ Left >= 2 /\ Take("question", [name |-> At(1), type |-> At(2), rdata |-> <<>>], 2)

(* unpackRecord: readSlice(rdlength) fixes where the next record is,       *)
(* whatever unpackRdata reads of the slice.                                *)
ReadRecord == \E s \in RecordSections :
  /\ Current(s)
  /\ \/ Left < 3 /\ Refuse
     \/ /\ Left >= 3
        /\ Left < 3 + At(3) \/ At(3) < At(2)
        /\ Refuse
     \/ /\ Left >= 3
        /\ Left >= 3 + At(3) /\ At(3) >= At(2)
        /\ LET used == IF At(2) > 0 THEN At(2) ELSE At(3)
           IN  Take(s, [name |-> At(1), type |-> At(2),
                        rdata |-> SubSeq(data, cursor + 4, cursor + 3 + used)], 3 + At(3))

Return == /\ outcome = "reading" /\ cursor > 0
          /\ \A s \in Sections : ~Missing(s)
          /\ outcome' = "ok"
          /\ UNCHANGED <<built, writer, data, cursor, parsed>>

-----------------------------------------------------------------------------
Init == /\ header = [id |-> 0, count |-> [s \in Sections |-> 0]]
        /\ entries = [s \in Sections |-> <<>>]
        /\ rdata = [r \in Records |-> CHOOSE v \in RdataOf(r.type) : Len(v) = r.type]
        /\ rdlength = [r \in Records |-> 0]
        /\ uncounted = [s \in Sections |-> 0]
        /\ opt = None /\ answering = NoAnswer /\ iterator = NoIterator
        /\ buf = <<>> /\ todo = <<>> /\ packed = None /\ torn = FALSE
        /\ data = <<>> /\ cursor = 0 /\ parsed = NoMessage /\ outcome = "idle"

Build == \/ PushQuestion \/ Push \/ SectionPush \/ SetHeader \/ SetRdata
         \/ OptBegin \/ OptEnd \/ OptThrow \/ StartAnswer \/ Iterate

Answer == AnswerQuestion \/ Answered

Send == Pack \/ Write \/ Throw \/ WritePatch \/ Alloc

Receive == Unpack \/ ReadHeader \/ ReadQuestion \/ ReadRecord \/ Return

Next == Build \/ Answer \/ IteratorNext \/ Send \/ Receive

Spec == Init /\ [][Next]_vars /\ WF_vars(Answer) /\ SF_vars(IteratorNext)

-----------------------------------------------------------------------------
(* The header counts what the builders appended to the sections, whichever *)
(* are used in whichever order, inside an OPT closure and by startAnswer   *)
(* too, and never what was pushed on a section itself.                     *)
CountsMatch == \A s \in Sections : header.count[s] + uncounted[s] = Len(entries[s])

(* All entries of a message in the order of the wire. *)
Flattened(m) == FlattenSeq([i \in 1..4 |-> m.entries[SectionOrder[i]]])

Blank == [name |-> 0, type |-> 0, rdata |-> <<>>]

(* What the beginning of an entry reads as with zeros behind it. *)
Beginning(out, in) ==
  /\ out.name = in.name /\ out.type \in {in.type, 0}
  /\ \E n \in 0..Len(in.rdata) :
       n <= Len(out.rdata) /\ out.rdata = SubSeq(in.rdata, 1, n) \o Zeros(Len(out.rdata) - n)

(* A message that unpack returns has the entries of the one packed, in     *)
(* their order and split by the counts of its header, so that uncounted    *)
(* ones push others into the next section or off the end: though it was    *)
(* cut short, and though it is read out of a buffer with zeros behind it.  *)
(* Only when pack threw, the record it threw in may be read with what was  *)
(* written of it, for its rdlength has not been corrected.  It is the last *)
(* of a frozen buffer, but in one that is not frozen as many records of    *)
(* the root as are counted follow, or, when the rdlength was too small,    *)
(* records made of the RDATA that was written.                             *)
ParsedIsPacked ==
  outcome = "ok" =>
    LET sent == Flattened(packed)
        got == Flattened(parsed)
    IN  /\ parsed.id = packed.id /\ parsed.count = packed.count
        /\ \E whole \in 0..Len(got) :
             /\ SubSeq(got, 1, whole) = SubSeq(sent, 1, whole)
             /\ whole < Len(got) =>
                  /\ torn /\ Beginning(got[whole + 1], sent[whole + 1])
                  /\ \A i \in whole+2..Len(got) :
                       \/ got[i] = Blank
                       \/ Len(got[whole + 1].rdata) < Len(sent[whole + 1].rdata)
                  /\ Len(data) <= Len(buf) => whole + 1 = Len(got)

(* startAnswer returns, unless its query is the message it appends to and  *)
(* has a question: then it never does.                                     *)
Endless == answering.self /\ entries["question"] # <<>>

AnswerStarts ==
  /\ answering # NoAnswer ~> answering = NoAnswer \/ Endless
  /\ [][Endless => Endless']_vars

(* "Gets a iterator for given type of records in the section": a loop over *)
(* it ends when the section has none or its first one is the last record.  *)
(* On any other the iterator stands still, and the loop goes on for ever,  *)
(* whatever is appended meanwhile.                                         *)
Standing == iterator # NoIterator /\ ~IteratorDone(iterator.next)
              /\ List[iterator.next + 1].type = iterator.type

=============================================================================
