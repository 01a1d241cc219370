---------------------------- MODULE SerialProof ----------------------------
(***************************************************************************)
(* Proof that secondaries see the primary's serial advance, for a sequence *)
(* space of any size and any increments, although the sum skips zero.      *)
(***************************************************************************)
EXTENDS Serial, TLAPS

(* A serial b that is d increments after a: either no wrap since, or one,  *)
(* and then never back at zero.                                            *)
After(b, a, d) == b = a + d \/ (b = a + d - (Modulus - 1) /\ b >= 1)

(* NewerIsGreater says nothing of how the sums came about; this does.      *)
SerialInv == /\ SerialTypeOK
             /\ \A s \in Secondaries : After(num, held[s], behind[s])

(* Adding to a serial keeps it in the space and adds to the distance. *)
LEMMA SumAfter ==
  ASSUME NEW a \in Serials, NEW b \in Serials, NEW d \in Nat, NEW k \in Nat,
         d + k <= Half - 1, After(b, a, d)
  PROVE  Sum(b, k) \in Serials /\ After(Sum(b, k), a, d + k)
BY SerialAssumption DEF Serials, Modulus, After, Sum

(* cmp of a serial with one that far behind it, in both orders. *)
LEMMA AfterCompares ==
  ASSUME NEW a \in Serials, NEW b \in Serials, NEW d \in Nat,
         d <= Half - 1, After(b, a, d)
  PROVE  IF d = Half - 1 /\ b < a
         THEN Cmp(b, a) = Undefined /\ Cmp(a, b) = Undefined
         ELSE /\ Cmp(b, a) = (IF d = 0 THEN 0 ELSE 1)
              /\ Cmp(a, b) = (IF d = 0 THEN 0 ELSE -1)
<1>1. /\ a \in Int /\ b \in Int /\ Half \in Nat /\ Half > 0
      /\ 0 <= a /\ a <= 2 * Half - 1 /\ 0 <= b /\ b <= 2 * Half - 1
  BY SerialAssumption DEF Serials, Modulus
<1>2. CASE b = a + d
  <2>1. ~(b < a)
    BY <1>1, <1>2
  <2>2. CASE d = 0
    BY <1>1, <1>2, <2>1, <2>2 DEF Cmp
  <2>3. CASE d # 0
    <3>1. a < b /\ a # b /\ b - a < Half /\ b - a # Half
      BY <1>1, <1>2, <2>3
    <3> QED
      BY <1>1, <2>1, <2>3, <3>1 DEF Cmp
  <2> QED
    BY <2>2, <2>3
<1>3. CASE b = a + d - (Modulus - 1) /\ b >= 1
  <2>1. /\ d # 0 /\ b < a /\ ~(a < b) /\ a # b
        /\ a - b = 2 * Half - 1 - d
    BY <1>1, <1>3 DEF Modulus
  <2>2. CASE d = Half - 1
    <3>1. a - b = Half
      BY <1>1, <2>1, <2>2
    <3> QED
      BY <1>1, <2>1, <2>2, <3>1 DEF Cmp
  <2>3. CASE d # Half - 1
    <3>1. a - b # Half /\ ~(a - b < Half)
      BY <1>1, <2>1, <2>3
    <3>2. Cmp(b, a) = 1 /\ Cmp(a, b) = -1
      BY <1>1, <2>1, <3>1 DEF Cmp
    <3> QED
      BY <2>1, <2>3, <3>2
  <2> QED
    BY <2>2, <2>3
<1> QED
  BY <1>2, <1>3 DEF After

LEMMA AddKeepsInv ==
  ASSUME SerialInv, Add
  PROVE  SerialInv'
<1>1. PICK k \in Increments :
        \/ outcome' = "RangeError" /\ UNCHANGED <<num, held, behind>>
        \/ /\ k \in 0..Half-1
           /\ \A s \in Secondaries : behind[s] + k <= Lag
           /\ num' = Sum(num, k)
           /\ behind' = [s \in Secondaries |-> behind[s] + k]
           /\ outcome' = "ok"
           /\ UNCHANGED held
  BY DEF Add
<1>2. CASE outcome' = "RangeError" /\ UNCHANGED <<num, held, behind>>
  BY <1>2 DEF SerialInv, SerialTypeOK
<1>3. CASE ~(outcome' = "RangeError" /\ UNCHANGED <<num, held, behind>>)
  <2>1. /\ k \in Nat /\ num' = Sum(num, k) /\ outcome' = "ok"
        /\ held' = held /\ behind' = [s \in Secondaries |-> behind[s] + k]
        /\ \A s \in Secondaries : behind[s] + k <= Lag
    BY <1>1, <1>3, SerialAssumption
  <2>2. num' \in Serials
    <3>1. num \in Serials /\ k \in 0..Half-1
      BY <1>1, <1>3 DEF SerialInv, SerialTypeOK
    <3> QED
      BY <2>1, <3>1, SerialAssumption DEF Serials, Modulus, Sum
  <2>3. \A s \in Secondaries : behind'[s] \in 0..Lag /\ After(num', held'[s], behind'[s])
    <3> SUFFICES ASSUME NEW s \in Secondaries
                 PROVE  behind'[s] \in 0..Lag /\ After(num', held'[s], behind'[s])
      OBVIOUS
    <3>1. /\ num \in Serials /\ held[s] \in Serials /\ behind[s] \in Nat
          /\ After(num, held[s], behind[s])
      BY SerialAssumption DEF SerialInv, SerialTypeOK
    <3>2. behind'[s] = behind[s] + k /\ behind[s] + k <= Lag
      BY <2>1
    <3>3. After(Sum(num, k), held[s], behind[s] + k)
      BY <2>1, <3>1, <3>2, SumAfter, SerialAssumption
    <3> QED
      BY <2>1, <3>1, <3>2, <3>3, SerialAssumption
  <2>4. behind' \in [Secondaries -> 0..Lag]
    BY <2>1, <2>3
  <2> QED
    BY <2>1, <2>2, <2>3, <2>4 DEF SerialInv, SerialTypeOK
<1> QED
  BY <1>2, <1>3

LEMMA TransferKeepsInv ==
  ASSUME SerialInv, NEW t \in Secondaries, Transfer(t)
  PROVE  SerialInv'
<1>1. num' = num /\ outcome' = "ok"
  BY DEF Transfer
<1>2. held' \in [Secondaries -> Serials] /\ behind' \in [Secondaries -> 0..Lag]
  BY SerialAssumption DEF Transfer, SerialInv, SerialTypeOK
<1>3. ASSUME NEW s \in Secondaries PROVE After(num', held'[s], behind'[s])
  <2>1. CASE s = t
    <3>1. held'[s] = num /\ behind'[s] = 0 /\ num \in Int
      BY <2>1, SerialAssumption DEF Transfer, SerialInv, SerialTypeOK, Serials, Modulus
    <3> QED
      BY <1>1, <3>1 DEF After
  <2>2. CASE s # t
    <3>1. held'[s] = held[s] /\ behind'[s] = behind[s]
      BY <2>2 DEF Transfer, SerialInv, SerialTypeOK
    <3> QED
      BY <1>1, <3>1 DEF SerialInv
  <2> QED
    BY <2>1, <2>2
<1> QED
  BY <1>1, <1>2, <1>3 DEF SerialInv, SerialTypeOK

(* The invariant the proof rests on holds in every reachable state. *)
THEOREM SerialInvariant == Spec => []SerialInv
<1>1. Init => SerialInv
  BY SerialAssumption DEF Init, SerialInv, SerialTypeOK, After, Serials, Modulus
<1>2. SerialInv /\ [Next]_vars => SerialInv'
  <2> SUFFICES ASSUME SerialInv, [Next]_vars PROVE SerialInv'
    OBVIOUS
  <2>1. CASE UNCHANGED vars
    BY <2>1 DEF vars, SerialInv, SerialTypeOK
  <2> QED
    BY <2>1, AddKeepsInv, TransferKeepsInv DEF Next
<1> QED
  BY <1>1, <1>2, PTL DEF Spec

(* Serials stay unsigned numbers of their width, added however often and   *)
(* transferred to whomever (soa.ts, Serial.add).                           *)
THEOREM SerialTypeCorrect == Spec => []SerialTypeOK
<1>1. SerialInv => SerialTypeOK
  BY DEF SerialInv
<1> QED
  BY <1>1, SerialInvariant, PTL

(* cmp tells a secondary that it is out of date exactly when it is, for    *)
(* every sequence of additions of less than half the space in all, wraps   *)
(* included, and the primary the opposite; and it is at a loss exactly     *)
(* half way but one behind a wrap (soa.ts, Serial.add and cmp).            *)
THEOREM NewerIsAlwaysGreater == Spec => []NewerIsGreater
<1>1. SerialInv => NewerIsGreater
  <2> SUFFICES ASSUME SerialInv, NEW s \in Secondaries
               PROVE  IF behind[s] = Half - 1 /\ Wrapped(s)
                      THEN Cmp(num, held[s]) = Undefined /\ Cmp(held[s], num) = Undefined
                      ELSE /\ Cmp(num, held[s]) = (IF behind[s] = 0 THEN 0 ELSE 1)
                           /\ Cmp(held[s], num) = (IF behind[s] = 0 THEN 0 ELSE -1)
    BY DEF NewerIsGreater
  <2>1. /\ num \in Serials /\ held[s] \in Serials /\ behind[s] \in Nat
        /\ behind[s] <= Half - 1 /\ After(num, held[s], behind[s])
    BY SerialAssumption DEF SerialInv, SerialTypeOK
  <2> QED
    BY <2>1, AfterCompares DEF Wrapped
<1> QED
  BY <1>1, SerialInvariant, PTL
=============================================================================
