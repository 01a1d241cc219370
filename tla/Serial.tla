------------------------------- MODULE Serial -------------------------------
(***************************************************************************)
(* Serial of records/soa.ts: the version number of a zone, compared in     *)
(* sequence space.  A primary advances the zone's serial, and secondaries  *)
(* keep the serial of their last transfer and compare.                     *)
(***************************************************************************)
EXTENDS Integers

CONSTANTS
  Half,         \* 0x8000_0000; serials are below twice that
  Increments,   \* what add is called with
  Secondaries,
  Lag           \* bound: how far a secondary falls behind, less than Half

ASSUME SerialAssumption == /\ Half \in Nat \ {0} /\ Lag \in 0..Half-1
                           /\ Increments \subseteq Int

Modulus == 2 * Half

Serials == 0..Modulus-1

VARIABLES
  num,       \* the primary's serial
  held,      \* the serial each secondary holds
  behind,    \* history: the increments since its last transfer
  outcome

vars == <<num, held, behind, outcome>>

-----------------------------------------------------------------------------
(* The sum as it would be without the wrap. *)
SumUnwrapped(n, other) == n + other

(* add wraps by the largest serial, not by the modulus: zero is skipped. *)
Sum(n, other) == IF n + other > Modulus - 1 THEN n + other - (Modulus - 1) ELSE n + other

(* cmp as a plain comparison of numbers. *)
CmpPlain(a, b) == IF a = b THEN 0 ELSE IF a < b THEN -1 ELSE 1

Undefined == 2

(* a.cmp(b) *)
Cmp(a, b) ==
  LET sub == IF a < b THEN b - a ELSE a - b
  IN  IF a = b THEN 0
      ELSE IF sub = Half THEN Undefined
      ELSE IF (a < b) = (sub < Half) THEN -1
      ELSE 1

-----------------------------------------------------------------------------
Add == \E other \in Increments :
         \/ /\ other < 0 \/ other > Half - 1
            /\ outcome' = "RangeError"
            /\ UNCHANGED <<num, held, behind>>
         \/ /\ other \in 0..Half-1
            /\ \A s \in Secondaries : behind[s] + other <= Lag
            /\ num' = Sum(num, other)
            /\ behind' = [s \in Secondaries |-> behind[s] + other]
            /\ outcome' = "ok"
            /\ UNCHANGED held

(* A transfer preserves the serial. *)
Transfer(s) == /\ held' = [held EXCEPT ![s] = num]
               /\ behind' = [behind EXCEPT ![s] = 0]
               /\ outcome' = "ok"
               /\ UNCHANGED num

Init == /\ num \in Serials
        /\ held = [s \in Secondaries |-> num]
        /\ behind = [s \in Secondaries |-> 0]
        /\ outcome = "ok"

Next == Add \/ \E s \in Secondaries : Transfer(s)

Spec == Init /\ [][Next]_vars

-----------------------------------------------------------------------------
(* A serial is an unsigned number of 32 bits. *)
SerialTypeOK == /\ num \in Serials
                /\ held \in [Secondaries -> Serials]
                /\ behind \in [Secondaries -> 0..Lag]
                /\ outcome \in {"ok", "RangeError"}

(* A secondary that compares finds the primary's serial newer exactly when *)
(* it was advanced since the transfer, across a wrap too, as long as it is *)
(* less than half the space behind.  But for one distance: add(2^31 - 1),  *)
(* the most that may be added, gives a serial that cannot be compared if   *)
(* it wraps, since the sum then is one more than it should be.             *)
Wrapped(s) == num < held[s]

NewerIsGreater ==
  \A s \in Secondaries :
    IF behind[s] = Half - 1 /\ Wrapped(s)
    THEN Cmp(num, held[s]) = Undefined /\ Cmp(held[s], num) = Undefined
    ELSE /\ Cmp(num, held[s]) = (IF behind[s] = 0 THEN 0 ELSE 1)
         /\ Cmp(held[s], num) = (IF behind[s] = 0 THEN 0 ELSE -1)
=============================================================================
