---------------------------- MODULE MCCompressor ----------------------------
(* The compressor on a scale model of the wire format: octets of radix 16, *)
(* so labels of up to three octets, names of up to fifteen, pointers up to *)
(* offset 64 and messages of at most 74 octets.                            *)
EXTENDS Compressor

MCSizes == {1}

(* The octet 10 is the dot: the joined labels of the last name are those   *)
(* of the third.                                                           *)
MCNames == {<<>>, <<<<1>>>>, <<<<2>>, <<1>>>>, <<<<3>>, <<2>>, <<1>>>>, <<<<2, 10, 1>>>>}

(* A first name of three octets ends at the last offset a pointer reaches  *)
(* when it comes behind this.                                              *)
MCChunks == {[i \in 1..61 |-> 5]}
=============================================================================
