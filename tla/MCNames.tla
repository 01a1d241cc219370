------------------------------ MODULE MCNames ------------------------------
(* Labels "a", "4" and the null label, and texts up to the limits: octets  *)
(* of radix 16, so labels of up to three octets and names of fifteen.      *)
EXTENDS Names

MCLabels == {<<1>>, <<4>>, <<>>}

Repeat(text, n) == FlattenSeq([i \in 1..n |-> text])

LabelDot == <<1, 1, 1, 10>>

MCTexts == {
  <<>>, <<10>>, <<1>>, <<1, 10>>, <<1, 10, 10>>, <<10, 1>>,
  <<1, 10, 4>>, <<4, 10, 6, 4, 10>>,   \* numeric top levels "4" and "-4"
  <<1, 7>>, <<1, 1, 1, 1>>,            \* a backslash, and a label too long
  Repeat(LabelDot, 3) \o <<1>>,        \* 13, 14 and 15 characters
  Repeat(LabelDot, 3) \o <<1, 1>>, Repeat(LabelDot, 3) \o <<1, 10>>,
  Repeat(LabelDot, 3) \o <<1, 1, 1>>,
  Repeat(LabelDot, 3) \o <<1, 1, 10>>, Repeat(LabelDot, 4) }
=============================================================================
