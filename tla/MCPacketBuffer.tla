--------------------------- MODULE MCPacketBuffer ---------------------------
(* PacketBuffer on messages of at most seven octets: arrays that start    *)
(* empty, too small and as large as a message, so that growth by need, by  *)
(* doubling and up to the cap all happen, and every call can be refused.   *)
EXTENDS PacketBuffer

MCSizes == {0, 1, 7}
MCChunks == {<<1, 2, 3>>}
MCNumbers == {77}
MCLabels == {<<>>, <<4, 4, 4>>}
MCPositions == {-1, 0, 5}
=============================================================================
