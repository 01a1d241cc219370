------------------------------- MODULE MCEdns -------------------------------
(* One or two options of every kind, and RDATA that is malformed in every  *)
(* way a decoder looks for.                                                *)
EXTENDS Edns

Zeros(n) == [i \in 1..n |-> 0]

MCOptions == {[code |-> NSID, data |-> <<>>], [code |-> NSID, data |-> <<103, 112>>],
          [code |-> ClientSubnet, data |-> <<0, 1, 24, 0, 1, 2, 3, 0>>],
          [code |-> Cookie, data |-> [i \in 1..8 |-> i]],
          [code |-> ExtendedError, data |-> <<0, 3>>],
          [code |-> ExtendedError, data |-> <<0, 3, 65>>],
          [code |-> 11, data |-> <<5, 200>>],
          [code |-> Padding, data |-> <<>>], [code |-> Padding, data |-> Zeros(3)],
          [code |-> Padding, data |-> Zeros(4)],
          [code |-> ClientSubnet, data |-> <<0, 2, 48, 0, 32, 1, 13, 184>> \o Zeros(12)]}

MCReplacement == <<239, 191, 189>>

(* Family 2 as the decoder expects it. *)
Gapped == <<0, 8, 0, 32, 0, 2, 48, 0>> \o Zeros(12) \o [i \in 1..16 |-> i]

MCReceived == {
  <<0, 3, 0>>,                                \* not an option
  <<0, 3, 0, 9, 1>>,                          \* a length past the end
  <<0, 10, 0, 9>> \o Zeros(9),                \* a cookie of nine octets
  <<0, 15, 0, 1, 7>>,                         \* an error without a code
  <<0, 15, 0, 4, 0, 3, 255, 65, 9, 9>>,       \* a malformed text, two octets left
  <<0, 8, 0, 2, 0, 1>>, <<0, 8, 0, 4, 0, 3, 0, 0>>,
  <<0, 8, 0, 8, 0, 1, 33, 0, 1, 2, 3, 0>>, <<0, 8, 0, 7, 0, 1, 24, 0, 1, 2, 3>>,
  Gapped,
  <<0, 12, 0, 8, 0, 11, 0, 1, 200, 0, 3, 0, 0>> }  \* options for padding
=============================================================================
