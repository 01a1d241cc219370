------------------------------ MODULE MCBase32 ------------------------------
(* The "Extended Hex" alphabet, two octets, up to six of them (the carry   *)
(* comes round after five), and texts of up to sixteen characters.         *)
EXTENDS Base32

MCAlphabets == {[v \in 1..32 |-> IF v <= 10 THEN 47 + v ELSE 54 + v]}

MCPaddings == {61, 42}

(* "1", "v", "=" and "@" *)
MCStrangers == {49, 118, 61, 64}
=============================================================================
