------------------------------- MODULE Flags -------------------------------
(***************************************************************************)
(* The bit fields of a message: the flags of the header (Header of         *)
(* message.ts and HeaderBuilder) and the TTL of an OPT record (OptHeader   *)
(* of records/opt.ts and OptBuilder).  A word or a field of several bits   *)
(* is the set of the positions of its one bits.  An OPT record hands out a *)
(* view of its header, made once, that has setters of its own.  A message  *)
(* header and an OPT record share no state, so a behaviour is about one.   *)
(***************************************************************************)
EXTENDS Integers

CONSTANTS
  Words,      \* flag words received
  Opcodes, Rcodes, ExtRcodes, Versions,   \* what callers set
  Ttls,       \* OPT TTLs received
  None        \* no OPT record, no view of it

ASSUME FieldAssumption ==
  /\ Words \subseteq SUBSET (0..15) /\ Ttls \subseteq SUBSET (0..31)
  /\ Opcodes \subseteq SUBSET (0..3) /\ Rcodes \subseteq SUBSET (0..11)
  /\ ExtRcodes \subseteq SUBSET (0..7) /\ Versions \subseteq SUBSET (0..7)

VARIABLES
  subject,     \* what the behaviour is about: "header" or "opt"
  flags,       \* the one-bit fields of Header.flags
  opcode,
  rcode,
  builder,     \* the TTL of the OptBuilder
  ttl,         \* the TTL of the OPT record built or unpacked, or None
  view         \* the TTL of its optHeader(), or None

headerVars == <<flags, opcode, rcode>>
optVars == <<builder, ttl, view>>
vars == <<subject, headerVars, optVars>>

Single == {"qr", "aa", "tc", "rd", "ra", "z", "ad", "cd"}

Shifted(bits, by) == {b + by : b \in bits}

If(condition, bits) == IF condition THEN bits ELSE {}

-----------------------------------------------------------------------------
(* packFlags, two octets: Z goes where RA does, for 0b010000000 is 0x80.   *)
(* As if it masked no more of the response code than of the opcode.        *)
RcodeUnmasked(rc) == rc

RcodeBits(rc) == rc \cap (0..3)

PackFlags(f, op, rc) ==
  UNION {If(f["qr"], {15}), Shifted(op, 11), If(f["aa"], {10}), If(f["tc"], {9}),
         If(f["rd"], {8}), If(f["ra"], {7}), If(f["z"], {7}), If(f["ad"], {5}),
         If(f["cd"], {4}), RcodeBits(rc)}

UnpackFlags(word) ==
  [qr |-> 15 \in word, aa |-> 10 \in word, tc |-> 9 \in word, rd |-> 8 \in word,
   ra |-> 7 \in word, z |-> 6 \in word, ad |-> 5 \in word, cd |-> 4 \in word]

UnpackOpcode(word) == Shifted(word \cap (11..14), -11)

UnpackRcode(word) == word \cap (0..3)

(* The setters; startAnswer takes the opcode and RD of a query, and the    *)
(* response code as the caller gives it.                                   *)
SetFlag == \E f \in Single \ {"z"}, on \in BOOLEAN :
             /\ flags' = [flags EXCEPT ![f] = on]
             /\ UNCHANGED <<opcode, rcode, optVars>>

SetOpcode == opcode' \in Opcodes /\ UNCHANGED <<flags, rcode, optVars>>

SetRcode == /\ \E rc \in Rcodes : rcode' = rc \cap (0..3)
            /\ UNCHANGED <<flags, opcode, optVars>>

StartAnswer == \E query \in Words, rc \in Rcodes :
                 /\ flags' = [flags EXCEPT !["qr"] = TRUE, !["rd"] = 8 \in query]
                 /\ opcode' = UnpackOpcode(query)
                 /\ rcode' = rc
                 /\ UNCHANGED optVars

(* unpack of a message received, or of this one packed. *)
UnpackHeader == \E word \in Words \cup {PackFlags(flags, opcode, rcode)} :
                  /\ flags' = UnpackFlags(word)
                  /\ opcode' = UnpackOpcode(word)
                  /\ rcode' = UnpackRcode(word)
                  /\ UNCHANGED optVars

-----------------------------------------------------------------------------
(* OptHeader: shifts and masks of a signed number of 32 bits.              *)
ExtendedRcode(t) == Shifted(t \cap (24..31), -24) \cup If(31 \in t, 8..31)

Version(t) == Shifted(t \cap (16..23), -16)

DnssecOk(t) == 15 \in t

Z(t) == t \cap (0..14)


WithVersion(t, version) == Shifted(version, 16) \cup (t \ (16..23))

WithExtendedRcode(t, code) == Shifted(code, 24) \cup (t \cap (0..23))

WithDnssecOk(t, on) == (t \ {15}) \cup If(on, {15})

Settings(t) == {WithVersion(t, v) : v \in Versions}
                 \cup {WithExtendedRcode(t, c) : c \in ExtRcodes}
                 \cup {WithDnssecOk(t, on) : on \in BOOLEAN}

SetBuilder == /\ builder' \in Settings(builder)
              /\ UNCHANGED <<headerVars, ttl, view>>

(* build: the record gets a header of its own. *)
BuildOpt == /\ ttl' = builder /\ view' = None
            /\ UNCHANGED <<headerVars, builder>>

UnpackOpt == /\ ttl' \in Ttls /\ view' = None
             /\ UNCHANGED <<headerVars, builder>>

OptHeader == /\ ttl # None
             /\ view' = IF view = None THEN ttl ELSE view
             /\ UNCHANGED <<headerVars, builder, ttl>>

SetView == /\ view # None /\ view' \in Settings(view)
           /\ UNCHANGED <<headerVars, builder, ttl>>

-----------------------------------------------------------------------------
Init == /\ subject \in {"header", "opt"}
        /\ flags = [f \in Single |-> FALSE] /\ opcode = {} /\ rcode = {}
        /\ builder = {} /\ ttl = None /\ view = None

HeaderNext == SetFlag \/ SetOpcode \/ SetRcode \/ StartAnswer \/ UnpackHeader

OptNext == SetBuilder \/ BuildOpt \/ UnpackOpt \/ OptHeader \/ SetView

Next == /\ \/ subject = "header" /\ HeaderNext
           \/ subject = "opt" /\ OptNext
        /\ UNCHANGED subject

Spec == Init /\ [][Next]_vars

-----------------------------------------------------------------------------
(* A header reads back as it was packed, whichever flags, opcode and       *)
(* response code it had, but for the part of the response code that only   *)
(* an OPT record can carry, and exactly when Z is not set: Z is written    *)
(* into the bit of RA, although the format has a bit of its own for it.    *)
HeaderReadsBack ==
  LET word == PackFlags(flags, opcode, rcode) IN
  /\ UnpackFlags(word) = flags <=> ~flags["z"]
  /\ UnpackOpcode(word) = opcode
  /\ UnpackRcode(word) = rcode \cap (0..3)

(* A setter of the OPT header, of the builder's or of a record's view,     *)
(* changes the field it is named for and no other, though all of them are  *)
(* cut from the same signed number.                                        *)
Fields(t) == [ext |-> ExtendedRcode(t), version |-> Version(t), dnssecOk |-> DnssecOk(t), z |-> Z(t)]

OneField(t1, t2) ==
  \A f1, f2 \in DOMAIN Fields(t1) :
    Fields(t2)[f1] # Fields(t1)[f1] /\ Fields(t2)[f2] # Fields(t1)[f2] => f1 = f2

=============================================================================
