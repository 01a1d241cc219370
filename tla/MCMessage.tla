----------------------------- MODULE MCMessage -----------------------------
(* A record of two octets of RDATA and one that takes any. *)
EXTENDS Message

MCQuestions == {[name |-> 1, type |-> 1]}

MCQueries == {<<>>, <<[name |-> 1, type |-> 1]>>}

MCRecords == {[name |-> 1, type |-> 2], [name |-> 2, type |-> 0]}
=============================================================================
