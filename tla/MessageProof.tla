---------------------------- MODULE MessageProof ----------------------------
(***************************************************************************)
(* Proof that the header of a built message counts its sections.           *)
(***************************************************************************)
EXTENDS Message, SequenceTheorems, TLAPS

Pairs == [name : Names, type : Types]

(* The part of the state the builders change, with its types: a count is   *)
(* the length of a sequence, so both need one.  startAnswer appends what   *)
(* it finds in a list of questions, which may be the section itself.       *)
CountInv == /\ header \in [id : Nat, count : [Sections -> Nat]]
            /\ entries \in [Sections -> Seq(Pairs)]
            /\ uncounted \in [Sections -> Nat]
            /\ answering \in [self : BOOLEAN, list : Seq(Pairs), next : Nat \ {0}] \cup {NoAnswer}
            /\ opt \in Pairs \cup {None}
            /\ CountsMatch

(* What the caller has besides the message. *)
Loops == /\ answering' \in [self : BOOLEAN, list : Seq(Pairs), next : Nat \ {0}] \cup {NoAnswer}
         /\ opt' \in Pairs \cup {None}

(* One append of any section's builder. *)
LEMMA AddKeepsCounts ==
  ASSUME CountInv, NEW s \in Sections, NEW items \in Seq(Pairs), Add(s, items), Loops
  PROVE  CountInv'
<1>1. /\ header' = [header EXCEPT !.count[s] = @ + Len(items)]
      /\ entries' = [entries EXCEPT ![s] = @ \o items]
      /\ uncounted' = uncounted
  BY DEF Add, Counter
<1>2. entries[s] \in Seq(Pairs) /\ Len(items) \in Nat
  BY DEF CountInv
<1>3. entries[s] \o items \in Seq(Pairs) /\ Len(entries[s] \o items) = Len(entries[s]) + Len(items)
  BY <1>2
<1>4. header' \in [id : Nat, count : [Sections -> Nat]]
  <2>1. header.count[s] + Len(items) \in Nat
    BY <1>2 DEF CountInv
  <2>2. [header.count EXCEPT ![s] = @ + Len(items)] \in [Sections -> Nat]
    BY <2>1 DEF CountInv
  <2>3. header' = [header EXCEPT !.count = [header.count EXCEPT ![s] = @ + Len(items)]]
    BY <1>1 DEF CountInv
  <2> QED
    BY <2>2, <2>3 DEF CountInv
<1>5. entries' \in [Sections -> Seq(Pairs)]
  BY <1>1, <1>3 DEF CountInv
<1>6. CountsMatch'
  <2> SUFFICES ASSUME NEW t \in Sections
               PROVE  header'.count[t] + uncounted[t] = Len(entries'[t])
    BY <1>1 DEF CountsMatch
  <2>1. CASE t = s
    <3>1. header'.count[s] = header.count[s] + Len(items)
      BY <1>1 DEF CountInv
    <3>2. entries'[s] = entries[s] \o items
      BY <1>1 DEF CountInv
    <3>3. header.count[s] \in Nat /\ uncounted[s] \in Nat /\ Len(entries[s]) \in Nat
      BY <1>2 DEF CountInv
    <3>4. header.count[s] + uncounted[s] = Len(entries[s])
      BY DEF CountInv, CountsMatch
    <3>5. header'.count[s] + uncounted[s] = Len(entries[s]) + Len(items)
      <4>1. (header.count[s] + Len(items)) + uncounted[s] = Len(entries[s]) + Len(items)
        <5> DEFINE a == header.count[s]
                   b == uncounted[s]
                   c == Len(entries[s])
                   d == Len(items)
        <5>1. a \in Nat /\ b \in Nat /\ c \in Nat /\ d \in Nat /\ a + b = c
          BY <3>3, <3>4, <1>2
        <5> HIDE DEF a, b, c, d
        <5>2. (a + d) + b = c + d
          BY <5>1
        <5> QED
          BY <5>2 DEF a, b, c, d
      <4> QED
        BY <3>1, <4>1
    <3>6. Len(entries'[s]) = Len(entries[s]) + Len(items)
      BY <3>2, <1>3
    <3> QED
      BY <2>1, <3>5, <3>6
  <2>2. CASE t # s
    <3>1. header'.count[t] = header.count[t] /\ entries'[t] = entries[t]
      BY <1>1, <2>2 DEF CountInv
    <3> QED
      BY <3>1 DEF CountInv, CountsMatch
  <2> QED
    BY <2>1, <2>2
<1> QED
  BY <1>1, <1>4, <1>5, <1>6 DEF CountInv, Loops

LEMMA UnchangedKeepsCounts ==
  ASSUME CountInv, UNCHANGED message, Loops
  PROVE  CountInv'
BY DEF CountInv, CountsMatch, message, Loops

(* Only the identifier is set. *)
LEMMA SettingKeepsCounts ==
  ASSUME CountInv, NEW id \in Nat, header' = [header EXCEPT !.id = id],
         UNCHANGED <<entries, uncounted>>, Loops
  PROVE  CountInv'
<1>1. header' \in [id : Nat, count : [Sections -> Nat]] /\ header'.count = header.count
  BY DEF CountInv
<1> QED
  BY <1>1 DEF CountInv, CountsMatch, Loops

LEMMA BuildKeepsCounts ==
  ASSUME CountInv, Build
  PROVE  CountInv'
<1> USE MessageAssumption DEF Pairs
<1>0. UNCHANGED <<answering, opt>> => Loops
  BY DEF CountInv, Loops
<1>1. CASE PushQuestion
  <2>1. PICK q \in Questions : Add("question", <<q>>) /\ UNCHANGED <<answering, opt>>
    BY <1>1 DEF PushQuestion
  <2>2. <<q>> \in Seq(Pairs)
    OBVIOUS
  <2> QED
    BY <1>0, <2>1, <2>2, AddKeepsCounts DEF Sections
<1>2. CASE Push
  <2>1. PICK s \in RecordSections, r \in Records : Add(s, <<r>>) /\ UNCHANGED <<answering, opt>>
    BY <1>2 DEF Push
  <2>2. <<r>> \in Seq(Pairs) /\ s \in Sections
    BY DEF RecordSections
  <2> QED
    BY <1>0, <2>1, <2>2, AddKeepsCounts
<1>3. CASE SectionPush
  <2>1. PICK s \in RecordSections, r \in Records :
          /\ entries' = [entries EXCEPT ![s] = Append(@, r)]
          /\ uncounted' = [uncounted EXCEPT ![s] = @ + 1]
          /\ UNCHANGED <<header, answering, opt>>
    BY <1>3 DEF SectionPush
  <2>2. s \in Sections /\ entries[s] \in Seq(Pairs) /\ r \in Pairs
    BY DEF RecordSections, CountInv
  <2>3. Append(entries[s], r) \in Seq(Pairs) /\ Len(Append(entries[s], r)) = Len(entries[s]) + 1
    BY <2>2
  <2>4. entries' \in [Sections -> Seq(Pairs)] /\ uncounted' \in [Sections -> Nat]
    <3>1. entries' \in [Sections -> Seq(Pairs)]
      BY <2>1, <2>2, <2>3 DEF CountInv
    <3>2. uncounted[s] + 1 \in Nat
      BY <2>2 DEF CountInv
    <3> QED
      BY <2>1, <3>1, <3>2 DEF CountInv
  <2>5. CountsMatch'
    <3> SUFFICES ASSUME NEW t \in Sections
                 PROVE  header.count[t] + uncounted'[t] = Len(entries'[t])
      BY <2>1 DEF CountsMatch
    <3>1. CASE t = s
      <4>1. entries'[s] = Append(entries[s], r) /\ uncounted'[s] = uncounted[s] + 1
        BY <2>1, <2>2 DEF CountInv
      <4>2. header.count[s] \in Nat /\ uncounted[s] \in Nat /\ Len(entries[s]) \in Nat
        BY <2>2 DEF CountInv
      <4>3. header.count[s] + uncounted[s] = Len(entries[s])
        BY <2>2 DEF CountInv, CountsMatch
      <4>4. header.count[s] + uncounted'[s] = Len(entries[s]) + 1
        <5> DEFINE a == header.count[s]
                   b == uncounted[s]
                   c == Len(entries[s])
        <5>1. a \in Nat /\ b \in Nat /\ c \in Nat /\ a + b = c
          BY <4>2, <4>3
        <5> HIDE DEF a, b, c
        <5>2. a + (b + 1) = c + 1
          BY <5>1
        <5>3. header.count[s] + (uncounted[s] + 1) = Len(entries[s]) + 1
          BY <5>2 DEF a, b, c
        <5> QED
          BY <4>1, <5>3
      <4> QED
        BY <3>1, <4>1, <4>4, <2>3
    <3>2. CASE t # s
      <4>1. entries'[t] = entries[t] /\ uncounted'[t] = uncounted[t]
        BY <2>1, <3>2 DEF CountInv
      <4> QED
        BY <4>1 DEF CountsMatch, CountInv
    <3> QED
      BY <3>1, <3>2
  <2> QED
    BY <2>1, <2>4, <2>5 DEF CountInv
<1>4. CASE OptBegin
  <2>1. UNCHANGED message /\ Loops
    BY <1>4 DEF OptBegin, CountInv, Loops
  <2> QED
    BY <2>1, UnchangedKeepsCounts
<1>5. CASE OptEnd
  <2>1. Add("additional", <<opt>>) /\ opt \in Pairs /\ Loops
    BY <1>5 DEF OptEnd, CountInv, Loops
  <2>2. <<opt>> \in Seq(Pairs)
    BY <2>1
  <2> QED
    BY <2>1, <2>2, AddKeepsCounts DEF Sections
<1>6. CASE OptThrow
  <2>1. UNCHANGED message /\ Loops
    BY <1>6 DEF OptThrow, CountInv, Loops
  <2> QED
    BY <2>1, UnchangedKeepsCounts
<1>7. CASE SetHeader
  BY <1>0, <1>7, SettingKeepsCounts DEF SetHeader
<1>8. CASE SetRdata
  BY <1>0, <1>8, UnchangedKeepsCounts DEF SetRdata
<1>9. CASE StartAnswer
  <2>1. UNCHANGED <<entries, uncounted, opt>>
    BY <1>9 DEF StartAnswer
  <2>2. CASE \E id \in Ids, query \in Queries :
               /\ header' = [header EXCEPT !.id = id]
               /\ answering' = [self |-> FALSE, list |-> query, next |-> 1]
    <3>1. PICK id \in Ids, query \in Queries :
               /\ header' = [header EXCEPT !.id = id]
               /\ answering' = [self |-> FALSE, list |-> query, next |-> 1]
      BY <2>2
    <3>2. query \in Seq(Pairs)
      <4>1. query \in Seq(Questions) /\ Questions \subseteq Pairs
        OBVIOUS
      <4> QED
        BY <4>1, SeqMonotonic
    <3>3. Loops
      BY <2>1, <3>1, <3>2 DEF Loops, CountInv
    <3> QED
      BY <2>1, <3>1, <3>3, SettingKeepsCounts
  <2>3. CASE answering' = [self |-> TRUE, list |-> <<>>, next |-> 1] /\ UNCHANGED header
    <3>1. Loops
      BY <2>1, <2>3 DEF Loops, CountInv
    <3> QED
      BY <2>1, <2>3, <3>1, UnchangedKeepsCounts DEF message
  <2> QED
    BY <1>9, <2>2, <2>3 DEF StartAnswer
<1>10. CASE Iterate
  BY <1>0, <1>10, UnchangedKeepsCounts DEF Iterate
<1> QED
  BY <1>1, <1>2, <1>3, <1>4, <1>5, <1>6, <1>7, <1>8, <1>9, <1>10 DEF Build

LEMMA AnswerKeepsCounts ==
  ASSUME CountInv, Answer
  PROVE  CountInv'
<1>1. CASE AnswerQuestion
  <2> DEFINE i == answering.next
  <2>1. answering \in [self : BOOLEAN, list : Seq(Pairs), next : Nat \ {0}]
    BY <1>1 DEF AnswerQuestion, CountInv
  <2>2. QuestionList \in Seq(Pairs)
    BY <2>1 DEF QuestionList, CountInv, Sections
  <2>3. i \in 1..Len(QuestionList)
    BY <1>1, <2>1, <2>2 DEF AnswerQuestion
  <2>4. QuestionList[i] \in Pairs
    BY <2>2, <2>3
  <2>5. <<QuestionList[i]>> \in Seq(Pairs)
    BY <2>4
  <2>6. Loops
    <3>1. answering' = [answering EXCEPT !.next = answering.next + 1] /\ UNCHANGED opt
      BY <1>1 DEF AnswerQuestion, After
    <3>2. answering.next + 1 \in Nat \ {0}
      BY <2>1
    <3>3. answering' \in [self : BOOLEAN, list : Seq(Pairs), next : Nat \ {0}]
      BY <2>1, <3>1, <3>2
    <3> QED
      BY <3>1, <3>3 DEF Loops, CountInv
  <2>7. Add("question", <<QuestionList[i]>>)
    BY <1>1 DEF AnswerQuestion
  <2> QED
    BY <2>5, <2>6, <2>7, AddKeepsCounts DEF Sections
<1>2. CASE Answered
  <2>1. UNCHANGED message /\ Loops
    BY <1>2 DEF Answered, CountInv, Loops
  <2> QED
    BY <2>1, UnchangedKeepsCounts
<1> QED
  BY <1>1, <1>2 DEF Answer

LEMMA OthersKeepCounts ==
  ASSUME CountInv, IteratorNext \/ Send \/ Receive \/ UNCHANGED vars
  PROVE  CountInv'
<1>1. UNCHANGED <<message, answering, opt>>
  <2>1. CASE IteratorNext
    BY <2>1 DEF IteratorNext
  <2>2. CASE Send
    BY <2>2 DEF Send, Pack, Write, Throw, WritePatch, Alloc, built
  <2>3. CASE Receive
    BY <2>3 DEF Receive, Unpack, ReadHeader, ReadQuestion, ReadRecord, Return,
                Refuse, Take, built
  <2>4. CASE UNCHANGED vars
    BY <2>4 DEF vars, built
  <2> QED
    BY <2>1, <2>2, <2>3, <2>4
<1>2. Loops
  BY <1>1 DEF CountInv, Loops
<1> QED
  BY <1>1, <1>2, UnchangedKeepsCounts

(* The header of a built message counts the entries of each section, for   *)
(* any number of records and any order of builder calls                    *)
(* (message-builder.ts, the closures of MessageBuilder).                   *)
THEOREM CountsAlwaysMatch == Spec => []CountsMatch
<1>1. Init => CountInv
  BY DEF Init, CountInv, CountsMatch, Pairs
<1>2. CountInv /\ [Next]_vars => CountInv'
  BY BuildKeepsCounts, AnswerKeepsCounts, OthersKeepCounts DEF Next
<1>3. CountInv => CountsMatch
  BY DEF CountInv
<1> QED
  BY <1>1, <1>2, <1>3, PTL DEF Spec
=============================================================================
