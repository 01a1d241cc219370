------------------------------ MODULE MCSlice ------------------------------
(* All messages of five octets that are a null label, a label of one octet *)
(* or a pointer, and longer ones for the limits.                           *)
EXTENDS Slice

MCLengths == {-1, 0, 2, 5}

Short == [1..5 -> {0, 1, 12}]

Long == {
  <<1, 4, 0, 3, 5, 4, 4, 12, 0>>,       \* a pointer after a label of three
  <<2, 6, 4, 0, 1, 6, 0, 2, 6, 6, 0>>,  \* "-0", "-" and "--"
  <<2, 4, 5, 1, 4, 0>>,                 \* "0" as the top level
  <<2, 7, 5, 0>>,                       \* a backslash
  <<4, 5, 5, 5, 5, 0>>,                 \* a label too long
  <<3, 5, 5, 5, 3, 5, 5, 5, 3, 5, 5, 5, 1, 5, 0>>,     \* the longest name
  <<3, 5, 5, 5, 3, 5, 5, 5, 3, 5, 5, 5, 2, 5, 5, 0>>,  \* and one longer
  <<0, 12, 0, 12, 1, 12, 3, 12, 5, 12, 7, 12, 9, 12, 11>>,  \* a chain
  <<13, 0, 12, 15>>,                    \* pointers past the end
  <<2, 5, 5, 0, 3, 5, 5, 5, 3, 5, 5, 5, 3, 5, 5, 5, 12, 0>> }  \* 15 octets over a pointer

MCMessages == Short \cup Long
=============================================================================
