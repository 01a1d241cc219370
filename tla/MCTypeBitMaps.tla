---------------------------- MODULE MCTypeBitMaps ----------------------------
(* Octets of two bits: windows of four types, bitmaps of at most two       *)
(* octets, sixteen types.  All lists of up to three types, in any order and *)
(* with repetitions, and all bitmaps of up to six octets.                  *)
EXTENDS TypeBitMaps

MCTypeLists == BoundedSeq(Type, 3)
MCReceived == BoundedSeq(Octet, 6)
=============================================================================
