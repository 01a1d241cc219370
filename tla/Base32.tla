------------------------------- MODULE Base32 -------------------------------
(***************************************************************************)
(* Base32 (base32.ts): a Decoder turns octets into text, octet by octet,   *)
(* until finish; an Encoder turns text into octets, a character per step.  *)
(* A character is its code.                                                *)
(***************************************************************************)
EXTENDS Integers, SequencesExt

CONSTANTS
  Alphabets,    \* Base32Spec: the characters of each variant, upper case
  Paddings,     \* the characters callers pass to withPadding
  Octets,       \* the octets callers pass to update
  MaxOctets,    \* bound on the octets of two finished texts in a row
  Strangers     \* the characters that take another's place in a text

ASSUME Base32Assumption ==
  /\ \A a \in Alphabets : a \in Seq(0..255) /\ Len(a) = 32
  /\ Paddings \cup Strangers \cup Octets \subseteq 0..255
  /\ MaxOctets \in Nat

VARIABLES
  alphabet,     \* of both objects
  paddings,     \* the padding of each
  fed,          \* history: the octets since the Decoder's last finish
  output, leftoverBits, leftoverValue,    \* the Decoder's fields
  finished,     \* history: the octets and the text of its last finish
  src,          \* the text encodeToBinary was called on
  todo,         \* the characters encode has not read yet
  bits, value,  \* its carry
  dst, size,    \* the octets written and the room made for them
  call          \* "none", "encode", "ok" or "Error"

decoder == <<fed, output, leftoverBits, leftoverValue, finished>>
encoder == <<src, todo, bits, value, dst, size, call>>
vars == <<alphabet, paddings, decoder, encoder>>

-----------------------------------------------------------------------------
Upper(code) == IF code \in 97..122 THEN code - 32 ELSE code

InAlphabet(code) == \E v \in 1..32 : alphabet[v] = Upper(code)

Digit(v) == alphabet[v + 1]

DigitOf(code) == (CHOOSE v \in 1..32 : alphabet[v] = Upper(code)) - 1

(* No call runs, and what the last one had in its variables is gone. *)
Idle ==
  /\ call # "encode" /\ call' = "none"
  /\ src' = <<>> /\ todo' = <<>> /\ bits' = 0 /\ value' = 0 /\ dst' = <<>> /\ size' = 0

(* withPadding of either object, which refuses a digit. *)
WithPadding ==
  \E object \in {"decoder", "encoder"}, p \in Paddings :
    /\ Idle /\ ~InAlphabet(p)
    /\ paddings' = [paddings EXCEPT ![object] = p]
    /\ UNCHANGED <<alphabet, decoder>>

-----------------------------------------------------------------------------
(* decodeByte: a group of five bits begins with the bits left over; when   *)
(* six or more remain another is taken.                                    *)
Group(octet) ==
  LET left == leftoverBits + 3
      rest == octet % 2^left
      first == leftoverValue * 2^(5 - leftoverBits) + octet \div 2^left
  IN  IF left > 5
      THEN [digits |-> <<first, rest \div 2^(left - 5)>>,
            bits |-> left - 5, value |-> rest % 2^(left - 5)]
      ELSE [digits |-> <<first>>, bits |-> left, value |-> rest]

DecodeByte ==
  \E octet \in Octets :
    /\ Idle /\ Len(finished.octets) + Len(fed) < MaxOctets
    /\ LET g == Group(octet) IN
         /\ output' = output \o [i \in 1..Len(g.digits) |-> Digit(g.digits[i])]
         /\ leftoverBits' = g.bits /\ leftoverValue' = g.value
    /\ fed' = Append(fed, octet)
    /\ UNCHANGED <<alphabet, paddings, finished>>

Padded(text, p) == text \o [i \in 1..((8 - (Len(text) % 8)) % 8) |-> p]

(* The fields after finish; as if the carry were not reset. *)
KeptBits == leftoverBits

ResetBits == 0

Finish ==
  LET last == IF leftoverBits > 0
              THEN <<Digit(leftoverValue * 2^(5 - leftoverBits))>> ELSE <<>>
  IN  /\ Idle
      /\ finished' = [octets |-> fed, text |-> Padded(output \o last, paddings["decoder"])]
      /\ fed' = <<>> /\ output' = <<>>
      /\ leftoverBits' = ResetBits /\ leftoverValue' = 0
      /\ UNCHANGED <<alphabet, paddings>>

-----------------------------------------------------------------------------
(* The texts that callers pass: what finish returned, or that with one     *)
(* character changed or missing.                                           *)
Texts ==
  LET text == finished.text IN
  {text} \cup {[text EXCEPT ![i] = c] : i \in 1..Len(text), c \in Strangers}
         \cup {RemoveAt(text, i) : i \in 1..Len(text)}

(* The number of digits before the padding, as if it were not checked what *)
(* follows the first padding character.                                    *)
DigitsIn(text, p) ==
  IF \E i \in 1..Len(text) : text[i] = p
  THEN (CHOOSE i \in 1..Len(text) : text[i] = p /\ \A j \in 1..i-1 : text[j] # p) - 1
  ELSE Len(text)

PaddedSomehow(text, p) ==
  /\ Len(text) % 8 = 0
  /\ Len(text) - DigitsIn(text, p) \in {0, 1, 3, 4, 6}

WellPadded(text, p) ==
  /\ Len(text) % 8 = 0
  /\ Len(text) - DigitsIn(text, p) \in {0, 1, 3, 4, 6}
  /\ \A i \in DigitsIn(text, p)+1..Len(text) : text[i] = p

(* Decoder and Encoder share nothing: a text is taken up between two that  *)
(* the Decoder makes.                                                      *)
Encode ==
  \E text \in Texts :
    LET digits == DigitsIn(text, paddings["encoder"])
        ok == text = <<>> \/ WellPadded(text, paddings["encoder"])
    IN  /\ call # "encode" /\ fed = <<>>
        /\ src' = text
        /\ todo' = IF ok THEN SubSeq(text, 1, digits) ELSE <<>>
        /\ size' = (digits * 5) \div 8
        /\ bits' = 0 /\ value' = 0 /\ dst' = <<>>
        /\ call' = IF ok THEN "encode" ELSE "Error"
        /\ UNCHANGED <<alphabet, paddings, decoder>>

EncodeDigit ==
  /\ call = "encode" /\ todo # <<>> /\ InAlphabet(Head(todo))
  /\ LET v == value * 32 + DigitOf(Head(todo)) IN
     IF bits + 5 >= 8
     THEN /\ bits' = bits - 3
          /\ value' = v % 2^(bits - 3)
          /\ dst' = Append(dst, v \div 2^(bits - 3))
     ELSE bits' = bits + 5 /\ value' = v /\ UNCHANGED dst
  /\ todo' = Tail(todo)
  /\ UNCHANGED <<alphabet, paddings, decoder, src, size, call>>

Invalid ==
  /\ call = "encode" /\ todo # <<>> /\ ~InAlphabet(Head(todo))
  /\ call' = "Error"
  /\ UNCHANGED <<alphabet, paddings, decoder, src, todo, bits, value, dst, size>>

Return ==
  /\ call = "encode" /\ todo = <<>>
  /\ call' = IF value > 0 /\ bits > 0 THEN "Error" ELSE "ok"
  /\ UNCHANGED <<alphabet, paddings, decoder, src, todo, bits, value, dst, size>>

-----------------------------------------------------------------------------
Init ==
  /\ alphabet \in Alphabets
  /\ paddings = [decoder |-> 61, encoder |-> 61]     \* StandardPadding
  /\ fed = <<>> /\ output = <<>> /\ leftoverBits = 0 /\ leftoverValue = 0
  /\ finished = [octets |-> <<>>, text |-> <<>>]
  /\ src = <<>> /\ todo = <<>> /\ bits = 0 /\ value = 0
  /\ dst = <<>> /\ size = 0 /\ call = "none"

Next == \/ WithPadding \/ DecodeByte \/ Finish
        \/ Encode \/ EncodeDigit \/ Invalid \/ Return

Spec == Init /\ [][Next]_vars

-----------------------------------------------------------------------------
(* What the text of some octets is by RFC 4648: their bits, zeros up to a  *)
(* multiple of five, a digit for every five, padding up to eight digits.   *)
Bits(n, width) == [i \in 1..width |-> (n \div 2^(width - i)) % 2]

BitsOf(numbers, width) == FlattenSeq([i \in 1..Len(numbers) |-> Bits(numbers[i], width)])

Canonical(text, octets, p) ==
  LET d == DigitsIn(text, p) IN
  /\ text = Padded(SubSeq(text, 1, d), p)
  /\ \A i \in 1..d : InAlphabet(text[i])
  /\ LET digits == [i \in 1..d |-> DigitOf(text[i])]
         all == BitsOf(digits, 5)
     IN  /\ Len(all) \in 8 * Len(octets) .. 8 * Len(octets) + 4
         /\ all = BitsOf(octets, 8) \o [i \in 1..Len(all) - 8 * Len(octets) |-> 0]

(* No bit is lost, repeated or reordered over the carry: at any time the   *)
(* digits put out and the bits left over are the bits of the octets fed    *)
(* since the last finish, and what finish returned is the text of those it *)
(* was fed, whatever was fed and finished before with the same object.     *)
StreamIsBits ==
  /\ BitsOf([i \in 1..Len(output) |-> DigitOf(output[i])], 5) \o Bits(leftoverValue, leftoverBits)
       = BitsOf(fed, 8)
  /\ \E p \in Paddings : Canonical(finished.text, finished.octets, p)

(* A text is accepted exactly when it is the text of some octets, lower    *)
(* case apart, and those are the octets returned, which fill the room made *)
(* for them: no two texts of one case stand for the same octets.           *)
OctetsIn(text, p) ==
  LET d == DigitsIn(text, p)
      all == BitsOf([i \in 1..d |-> IF InAlphabet(text[i]) THEN DigitOf(text[i]) ELSE 0], 5)
  IN  [i \in 1..(5 * d) \div 8 |->
         FoldLeft(LAMBDA n, b : 2 * n + b, 0, SubSeq(all, 8 * i - 7, 8 * i))]

AcceptedIsCanonical ==
  /\ call = "ok" =>
       Canonical(src, dst, paddings["encoder"]) /\ Len(dst) = size
  /\ call = "Error" =>
       ~Canonical(src, OctetsIn(src, paddings["encoder"]), paddings["encoder"])
=============================================================================
