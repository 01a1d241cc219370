------------------------------ MODULE MCFlags ------------------------------
EXTENDS Flags

(* Queries and responses with opcodes and response codes at the ends of    *)
(* their ranges, and one with Z set.                                       *)
MCWords == {{}, {8}, {15, 11, 14, 0, 3}, {13, 10, 9, 4}, {6, 5}, 0..15}

MCRcodes == {{}, {0, 1}, {3, 4}, {4, 5, 6, 11}}

MCTtls == {{}, {15}, {31, 24, 23, 16, 14, 0}}
=============================================================================
