---------------------------- MODULE NumbersProofs ----------------------------
(***************************************************************************)
(* Division is exact for words of every width, and printf prints the number*)
(* it is given and nothing else, for every int of every width, every       *)
(* format of one conversion and every buffer with room for the digits.     *)
(*                                                                         *)
(* Division: the divisor and qbit are shifted together, what has been      *)
(* subtracted is the quotient's multiple of the divisor, and what is left  *)
(* is less than twice the shifted divisor, so that one subtraction for each*)
(* bit is enough.  printf: what bf holds spells the quotient of the number *)
(* by the weight of the last digit written, and what is left is less than  *)
(* that weight, so that each digit is one.                                 *)
(*                                                                         *)
(* The library's folds and the powers are recursive functions: that they   *)
(* have the values their equations give them is proved here first, from    *)
(* the least element of a set of numbers.                                  *)
(***************************************************************************)
EXTENDS Numbers, NaturalsInduction, WellFoundedInduction, TLAPS

(* A set of numbers that is not empty has a least element.                 *)
LEMMA LeastNumber ==
  ASSUME NEW T, T \subseteq Nat, T # {}
  PROVE  \E i \in T : \A k \in T : i <= k
<1>1. PICK i \in T : \A k \in T : ~(<<k, i>> \in OpToRel(<, Nat))
  BY NatLessThanWellFounded, WFMin
<1>2. i \in Nat /\ \A k \in T : k \in Nat /\ ~(k < i)
  BY <1>1 DEF OpToRel
<1>3. \A k \in T : i <= k
  BY <1>2
<1> QED BY <1>3

(* Induction over a set of numbers.                                        *)
LEMMA Induction ==
  ASSUME NEW T, 0 \in T, \A i \in Nat : i \in T => i + 1 \in T
  PROVE  \A i \in Nat : i \in T
<1> DEFINE U == {i \in Nat : i \notin T}
<1>1. U = {}
  <2> SUFFICES ASSUME U # {} PROVE FALSE
    OBVIOUS
  <2>1. PICK i \in U : \A k \in U : i <= k
    BY LeastNumber
  <2>2. i - 1 \in Nat /\ (i - 1) + 1 = i
    BY i # 0
  <2>3. i - 1 \notin U
    <3> HIDE DEF U
    <3> QED BY <2>1, <2>2
  <2> QED BY <2>2, <2>3
<1> QED BY <1>1

(* A function with the equations of Power(b) exists: put together of those *)
(* that have them up to i, which agree.                                    *)
LEMMA PowersExist ==
  ASSUME NEW b \in Nat
  PROVE  \E p \in [Nat -> Nat] : p = [k \in Nat |-> IF k = 0 THEN 1 ELSE b * p[k - 1]]
<1> DEFINE Upto(p, i) == p[0] = 1 /\ \A k \in 1 .. i : p[k] = b * p[k - 1]
           T == {i \in Nat : \E p \in [Nat -> Nat] : Upto(p, i)}
<1>1. ASSUME NEW i \in Nat PROVE \E p \in [Nat -> Nat] : Upto(p, i)
  <2>1. 0 \in T
    <3> DEFINE q == [k \in Nat |-> 1]
    <3>1. q \in [Nat -> Nat] /\ Upto(q, 0)
      OBVIOUS
    <3> HIDE DEF q, Upto
    <3> QED BY <3>1
  <2>2. ASSUME NEW m \in Nat, m \in T PROVE m + 1 \in T
    <3>1. PICK p \in [Nat -> Nat] : Upto(p, m)
      BY <2>2
    <3> DEFINE q == [p EXCEPT ![m + 1] = b * p[m]]
    <3>2. q \in [Nat -> Nat]
      OBVIOUS
    <3>3. Upto(q, m + 1)
      BY <3>1
    <3> HIDE DEF q, Upto
    <3> QED BY <3>2, <3>3
  <2> HIDE DEF T
  <2>3. \A m \in Nat : m \in T
    BY <2>1, <2>2, Induction
  <2> QED BY <2>3 DEF T
<1>2. ASSUME NEW i \in Nat, NEW p \in [Nat -> Nat], NEW q \in [Nat -> Nat], Upto(p, i), Upto(q, i)
      PROVE  \A k \in 0 .. i : p[k] = q[k]
  <2> DEFINE S == {k \in Nat : k <= i => p[k] = q[k]}
  <2>1. 0 \in S
    BY <1>2
  <2>2. ASSUME NEW k \in Nat, k \in S PROVE k + 1 \in S
    BY <1>2, <2>2
  <2> HIDE DEF S
  <2>3. \A k \in Nat : k \in S
    BY <2>1, <2>2, Induction
  <2> QED BY <2>3 DEF S
<1> DEFINE F(i) == CHOOSE p \in [Nat -> Nat] : Upto(p, i)
           r == [i \in Nat |-> F(i)[i]]
<1>3. \A i \in Nat : F(i) \in [Nat -> Nat] /\ Upto(F(i), i)
  BY <1>1
<1> HIDE DEF F
<1>4. r \in [Nat -> Nat]
  BY <1>3
<1>5. ASSUME NEW k \in Nat PROVE r[k] = IF k = 0 THEN 1 ELSE b * r[k - 1]
  <2>1. CASE k = 0
    BY <1>3, <2>1
  <2>2. CASE k # 0
    <3>1. k - 1 \in Nat /\ k \in 1 .. k
      BY <2>2
    <3>2. /\ Upto(F(k), k - 1) /\ Upto(F(k - 1), k - 1)
          /\ F(k) \in [Nat -> Nat] /\ F(k - 1) \in [Nat -> Nat]
      BY <1>3, <3>1
    <3>3. F(k)[k - 1] = F(k - 1)[k - 1]
      <4> HIDE DEF Upto
      <4> QED BY <1>2, <3>1, <3>2
    <3>4. F(k)[k] = b * F(k)[k - 1]
      BY <1>3, <3>1
    <3> QED BY <2>2, <3>1, <3>3, <3>4
  <2> QED BY <2>1, <2>2
<1>6. r = [k \in Nat |-> IF k = 0 THEN 1 ELSE b * r[k - 1]]
  BY <1>4, <1>5
<1> QED BY <1>4, <1>6

(* So Power(b) has them.                                                   *)
LEMMA PowersOf ==
  ASSUME NEW b \in Nat, b > 0
  PROVE  /\ Power(b) \in [Nat -> Nat] /\ Power(b)[0] = 1
         /\ \A k \in Nat : Power(b)[k] > 0 /\ Power(b)[k + 1] = b * Power(b)[k]
<1> DEFINE p == Power(b)
<1>1. p = CHOOSE q : q = [k \in Nat |-> IF k = 0 THEN 1 ELSE b * q[k - 1]]
  BY DEF Power
<1>2. p = [k \in Nat |-> IF k = 0 THEN 1 ELSE b * p[k - 1]]
  BY <1>1, PowersExist
<1> HIDE DEF p
<1>3. p[0] = 1 /\ \A k \in Nat : p[k + 1] = b * p[k]
  <2>1. ASSUME NEW k \in Nat PROVE p[k] = IF k = 0 THEN 1 ELSE b * p[k - 1]
    BY <1>2
  <2> QED BY <2>1
<1> DEFINE S == {k \in Nat : p[k] \in Nat /\ p[k] > 0}
<1>4. 0 \in S
  BY <1>3
<1>5. ASSUME NEW k \in Nat, k \in S PROVE k + 1 \in S
  BY <1>3, <1>5
<1> HIDE DEF S
<1>6. \A k \in Nat : k \in S
  BY <1>4, <1>5, Induction
<1>7. \A k \in Nat : p[k] \in Nat /\ p[k] > 0
  BY <1>6 DEF S
<1>8. p \in [Nat -> Nat]
  BY <1>2, <1>7
<1> QED BY <1>3, <1>7, <1>8 DEF p
-----------------------------------------------------------------------------
(* Division: the inductive invariant. *)

(* den and qbit, shifted left k times. *)
ShiftedBy(k) == qbit = Bit[k] /\ den = Divisor(division) * Bit[k]

Justifying ==
  /\ num = Dividend(division) /\ quot = 0
  /\ \E k \in 0 .. LongBits - 1 : ShiftedBy(k)

Subtracting ==
  /\ Dividend(division) = quot * Divisor(division) + num
  /\ \/ \E k \in 0 .. LongBits - 1 : ShiftedBy(k) /\ num < 2 * den
     \/ qbit = 0 /\ num < Divisor(division)

Divided ==
  /\ Dividend(division) = quot * Divisor(division) + num
  /\ num < Divisor(division)

DivisionInv ==
  /\ DivisionTypeOK
  /\ division.pc \in {"justify", "subtract", "return"} => division.den # 0
  /\ division.pc = "justify" => Justifying
  /\ division.pc = "subtract" => Subtracting
  /\ division.pc = "return" => Divided
-----------------------------------------------------------------------------
(* Every Bit is a positive number, and a word has twice as many values as  *)
(* its top bit is worth.                                                   *)
LEMMA Bits ==
  /\ LongBits \in Nat /\ LongBits > 1 /\ Bit[0] = 1
  /\ \A k \in 0 .. LongBits : Bit[k] \in Nat /\ Bit[k] > 0
  /\ \A k \in 0 .. LongBits - 1 : Bit[k + 1] = 2 * Bit[k]
  /\ TopBit \in Nat /\ TopBit > 0 /\ Bit[LongBits] = 2 * TopBit
<1>1. LongBits \in Nat /\ LongBits > 1
  BY DivisionAssumption
<1>2. /\ Bit \in [Nat -> Nat] /\ Bit[0] = 1
      /\ \A k \in Nat : Bit[k] > 0 /\ Bit[k + 1] = 2 * Bit[k]
  BY PowersOf, 2 \in Nat, 2 > 0 DEF Bit
<1>3. \A k \in 0 .. LongBits : Bit[k] \in Nat /\ Bit[k] > 0
  BY <1>1, <1>2
<1>4. \A k \in 0 .. LongBits - 1 : Bit[k + 1] = 2 * Bit[k]
  BY <1>1, <1>2
<1>5. TopBit \in Nat /\ TopBit > 0 /\ Bit[LongBits] = 2 * TopBit
  <2>1. LongBits - 1 \in Nat /\ (LongBits - 1) + 1 = LongBits
    BY <1>1
  <2>2. Bit[(LongBits - 1) + 1] = 2 * Bit[LongBits - 1]
    BY <1>2, <2>1
  <2> QED BY <1>2, <2>1, <2>2 DEF TopBit
<1> QED BY <1>1, <1>2, <1>3, <1>4, <1>5

(* Negations and magnitudes of words are words.                            *)
LEMMA Magnitudes ==
  ASSUME NEW w \in Word
  PROVE  /\ Negated(w) \in Word /\ Magnitude(w) \in Word
         /\ w # 0 => Magnitude(w) # 0
BY Bits DEF Word, Negated, Magnitude

(* So are the operands of __udivmoddi4.                                    *)
LEMMA Operands ==
  ASSUME NEW call, call.num \in Word, call.den \in Word
  PROVE  /\ Dividend(call) \in Word /\ Divisor(call) \in Word
         /\ call.den # 0 => Divisor(call) # 0
BY Magnitudes DEF Dividend, Divisor

(* What is smaller than the modulus stays. *)
LEMMA SmallModulo ==
  ASSUME NEW m \in Nat, NEW a \in Nat, a < m
  PROVE  a % m = a
OBVIOUS

(* Shifting left a divisor that is not left-justified loses no bit.        *)
LEMMA ShiftLeft ==
  ASSUME NEW dr \in Nat \ {0}, NEW k \in 0 .. LongBits - 1, dr * Bit[k] < TopBit
  PROVE  /\ k + 1 \in 0 .. LongBits - 1
         /\ (2 * (dr * Bit[k])) % Bit[LongBits] = dr * Bit[k + 1]
         /\ (2 * Bit[k]) % Bit[LongBits] = Bit[k + 1]
<1> DEFINE b == Bit[k]
           m == Bit[LongBits]
<1>1. b \in Nat /\ b > 0 /\ m \in Nat /\ m = 2 * TopBit /\ TopBit \in Nat /\ Bit[k + 1] = 2 * b
  BY Bits
<1>2. dr * b >= b /\ dr * b \in Nat
  BY <1>1, dr \in Nat \ {0}
<1>3. b < TopBit
  BY <1>1, <1>2
<1>4. k # LongBits - 1
  <2> SUFFICES ASSUME k = LongBits - 1 PROVE FALSE
    OBVIOUS
  <2>1. Bit[k] = TopBit
    BY DEF TopBit
  <2> QED BY <2>1, <1>1, <1>3
<1>5. (2 * (dr * b)) % m = 2 * (dr * b) /\ (2 * b) % m = 2 * b
  <2> DEFINE p == dr * b
  <2>1. p \in Nat /\ p < TopBit
    BY <1>2
  <2> HIDE DEF p, b, m
  <2>2. 2 * p \in Nat /\ 2 * p < m /\ 2 * b \in Nat /\ 2 * b < m
    BY <1>1, <1>3, <2>1
  <2>3. (2 * p) % m = 2 * p /\ (2 * b) % m = 2 * b
    BY <1>1, <2>2, SmallModulo
  <2> QED BY <2>3 DEF p
<1>6. 2 * (dr * b) = dr * (2 * b)
  BY <1>1
<1> QED BY <1>1, <1>4, <1>5, <1>6, Bits
-----------------------------------------------------------------------------
(* Before the first call the invariant holds, and every action keeps it.   *)
LEMMA DivisionStart == DivisionInit => DivisionInv
<1> SUFFICES ASSUME DivisionInit PROVE DivisionInv
  OBVIOUS
<1>1. 0 \in Word
  BY Bits DEF Word
<1> QED BY <1>1 DEF DivisionInit, DivisionInv, DivisionTypeOK, NoDivision

LEMMA CallDivisionKeeps ==
  ASSUME DivisionInv, NEW signed \in BOOLEAN, NEW a \in Word, NEW b \in Word,
         CallDivision(signed, a, b)
  PROVE  DivisionInv'
<1> DEFINE call == [pc |-> IF b = 0 THEN "fault" ELSE "justify",
                    signed |-> signed, num |-> a, den |-> b]
<1>1. /\ division' = call /\ num' = Dividend(call) /\ den' = Divisor(call)
      /\ quot' = 0 /\ qbit' = 1
  BY DEF CallDivision
<1>2. Dividend(call) \in Word /\ Divisor(call) \in Word
  BY Operands
<1>3. 0 \in Word /\ 1 \in Word
  BY Bits DEF Word
<1>4. DivisionTypeOK'
  BY <1>1, <1>2, <1>3 DEF DivisionTypeOK
<1>5. Justifying'
  <2>1. 0 \in 0 .. LongBits - 1
    BY Bits
  <2>2. Divisor(call) * 1 = Divisor(call)
    BY <1>2, Bits DEF Word
  <2>3. ShiftedBy(0)'
    BY <1>1, <2>2, Bits DEF ShiftedBy
  <2> QED BY <1>1, <2>1, <2>3 DEF Justifying
<1> QED BY <1>1, <1>4, <1>5 DEF DivisionInv

LEMMA JustifyKeeps ==
  ASSUME DivisionInv, Justify
  PROVE  DivisionInv'
<1> DEFINE dr == Divisor(division)
<1>1. division.pc = "justify" /\ division.den # 0 /\ Justifying /\ DivisionTypeOK
  BY DEF DivisionInv, Justify
<1>2. dr \in Nat \ {0} /\ dr \in Word /\ Dividend(division) \in Word
  BY <1>1, Operands, Bits DEF DivisionTypeOK, Word
<1>3. PICK k \in 0 .. LongBits - 1 : qbit = Bit[k] /\ den = dr * Bit[k]
  BY <1>1 DEF Justifying, ShiftedBy
<1>4. num' = num /\ quot' = quot /\ num = Dividend(division) /\ quot = 0
  BY <1>1 DEF Justify, Justifying
<1>5. CASE ~LeftJustified
  <2>1. /\ den' = (2 * den) % Bit[LongBits] /\ qbit' = (2 * qbit) % Bit[LongBits]
        /\ division' = division
    BY <1>5 DEF Justify
  <2>2. dr * Bit[k] < TopBit
    BY <1>1, <1>3, <1>5, Bits DEF LeftJustified, DivisionTypeOK, Word
  <2>3. k + 1 \in 0 .. LongBits - 1 /\ den' = dr * Bit[k + 1] /\ qbit' = Bit[k + 1]
    BY <2>1, <2>2, <1>2, <1>3, ShiftLeft
  <2>4. den' \in Word /\ qbit' \in Word
    BY <2>1, <1>1, Bits DEF DivisionTypeOK, Word
  <2>5. Justifying'
    BY <2>1, <2>3, <1>4 DEF Justifying, ShiftedBy
  <2> QED BY <2>1, <2>4, <2>5, <1>1, <1>4 DEF DivisionInv, DivisionTypeOK
<1>6. CASE LeftJustified
  <2>1. /\ division' = [division EXCEPT !.pc = "subtract"]
        /\ den' = den /\ qbit' = qbit
    BY <1>6 DEF Justify
  <2>2. /\ division'.pc = "subtract" /\ division'.num = division.num
        /\ division'.den = division.den /\ division'.signed = division.signed
    BY <2>1, <1>1 DEF DivisionTypeOK
  <2>3. Dividend(division') = Dividend(division) /\ Divisor(division') = dr
    BY <2>2 DEF Dividend, Divisor
  <2>4. num < 2 * den
    BY <1>1, <1>6, Bits DEF LeftJustified, DivisionTypeOK, Word
  <2>5. Subtracting'
    <3>1. Dividend(division) = quot * dr + num
      BY <1>2, <1>4 DEF Word
    <3> QED BY <2>1, <2>3, <2>4, <3>1, <1>3, <1>4 DEF Subtracting, ShiftedBy
  <2>6. DivisionTypeOK'
    BY <2>1, <2>2, <1>1, <1>4 DEF DivisionTypeOK
  <2> QED BY <2>2, <2>5, <2>6, <1>1 DEF DivisionInv
<1> QED BY <1>5, <1>6

(* One bit: qbit and den are Bit[k] and the divisor shifted by k, and the  *)
(* rest is less than twice that.                                           *)
LEMMA SubtractKeeps ==
  ASSUME DivisionInv, Subtract
  PROVE  DivisionInv'
<1> DEFINE dr == Divisor(division)
           dd == Dividend(division)
           m == Bit[LongBits]
<1>1. division.pc = "subtract" /\ division.den # 0 /\ Subtracting /\ DivisionTypeOK /\ qbit # 0
  BY DEF DivisionInv, Subtract
<1>2. /\ dr \in Nat /\ dr > 0 /\ dd \in Nat /\ dd < m /\ m \in Nat
      /\ num \in Nat /\ quot \in Nat /\ den \in Nat
      /\ num < m /\ den < m /\ quot < m
  BY <1>1, Operands, Bits DEF DivisionTypeOK, Word
<1>3. PICK k \in 0 .. LongBits - 1 : qbit = Bit[k] /\ den = dr * Bit[k] /\ num < 2 * den
  BY <1>1 DEF Subtracting, ShiftedBy
<1>4. dd = quot * dr + num
  BY <1>1 DEF Subtracting
<1>5. division' = division /\ den' = den \div 2 /\ qbit' = qbit \div 2
  BY DEF Subtract
<1>6. qbit \in Nat /\ qbit > 0
  BY <1>3, Bits
<1>7. /\ num' \in Nat /\ num' <= num /\ quot' \in Nat /\ quot' < m
      /\ dd = quot' * dr + num' /\ num' < den
  <2>1. CASE ~Fits
    <3>1. num' = num /\ quot' = quot
      BY <2>1 DEF Subtract
    <3> QED BY <2>1, <3>1, <1>2, <1>4 DEF Fits
  <2>2. CASE Fits
    <3>1. num' = num - den /\ quot' = (quot + qbit) % m
      BY <2>2 DEF Subtract
    <3> DEFINE q == quot + qbit
    <3>2. num' \in Nat /\ num' <= num /\ num' < den
      BY <2>2, <3>1, <1>2, <1>3 DEF Fits
    <3>3. q * dr = quot * dr + qbit * dr
      BY <1>2, <1>6
    <3>4. qbit * dr = den
      BY <1>2, <1>3, <1>6
    <3>5. dd = q * dr + num'
      BY <3>1, <3>3, <3>4, <1>2, <1>4
    <3>6. q \in Nat /\ q <= q * dr
      BY <1>2, <1>6
    <3>7. q < m
      <4>1. q * dr \in Nat
        BY <1>2, <3>6
      <4> QED BY <3>2, <3>5, <3>6, <4>1, <1>2
    <3>8. quot' = q
      BY <3>1, <3>6, <3>7, <1>2, SmallModulo
    <3> QED BY <3>2, <3>5, <3>6, <3>7, <3>8
  <2> QED BY <2>1, <2>2
<1>8. CASE k = 0
  <2>1. qbit = 1 /\ den = dr
    BY <1>2, <1>3, <1>8, Bits
  <2>2. qbit' = 0
    BY <2>1, <1>5
  <2>3. Subtracting'
    BY <2>1, <2>2, <1>5, <1>7 DEF Subtracting
  <2> QED BY <2>2, <2>3, <1>1, <1>2, <1>5, <1>7, Bits DEF DivisionInv, DivisionTypeOK, Word
<1>9. CASE k # 0
  <2>1. k - 1 \in 0 .. LongBits - 1 /\ (k - 1) + 1 = k
    BY <1>9, Bits
  <2>2. Bit[k] = 2 * Bit[k - 1] /\ Bit[k - 1] \in Nat
    <3>1. k - 1 \in 0 .. LongBits
      BY <2>1, Bits
    <3> QED BY <2>1, <3>1, Bits
  <2>3. qbit' = Bit[k - 1]
    BY <2>2, <1>3, <1>5
  <2>4. den = 2 * (dr * Bit[k - 1]) /\ dr * Bit[k - 1] \in Nat
    BY <2>2, <1>2, <1>3
  <2>5. den' = dr * Bit[k - 1]
    BY <2>4, <1>5
  <2>6. num' < 2 * den'
    BY <2>4, <2>5, <1>7
  <2>7. Subtracting'
    BY <2>1, <2>3, <2>5, <2>6, <1>5, <1>7 DEF Subtracting, ShiftedBy
  <2>8. den' \in Word /\ qbit' \in Word /\ num' \in Word /\ quot' \in Word
    BY <1>1, <1>2, <1>5, <1>7, Bits DEF DivisionTypeOK, Word
  <2> QED BY <2>7, <2>8, <1>1, <1>5 DEF DivisionInv, DivisionTypeOK
<1> QED BY <1>8, <1>9

LEMMA SubtractedKeeps ==
  ASSUME DivisionInv, Subtracted
  PROVE  DivisionInv'
<1>1. /\ division.pc = "subtract" /\ division.den # 0 /\ Subtracting
      /\ DivisionTypeOK /\ qbit = 0
  BY DEF DivisionInv, Subtracted
<1>2. /\ division' = [division EXCEPT !.pc = "return"]
      /\ num' = num /\ den' = den /\ quot' = quot /\ qbit' = qbit
  BY DEF Subtracted
<1>3. /\ division'.pc = "return" /\ division'.num = division.num
      /\ division'.den = division.den /\ division'.signed = division.signed
  BY <1>1, <1>2 DEF DivisionTypeOK
<1>4. Dividend(division') = Dividend(division) /\ Divisor(division') = Divisor(division)
  BY <1>3 DEF Dividend, Divisor
<1>5. ~\E k \in 0 .. LongBits - 1 : ShiftedBy(k)
  BY <1>1, Bits DEF ShiftedBy
<1>6. Divided'
  BY <1>1, <1>2, <1>4, <1>5 DEF Subtracting, Divided
<1>7. DivisionTypeOK'
  BY <1>1, <1>2, <1>3 DEF DivisionTypeOK
<1> QED BY <1>3, <1>6, <1>7, <1>1 DEF DivisionInv

LEMMA ReturnResultKeeps ==
  ASSUME DivisionInv, ReturnResult
  PROVE  DivisionInv'
<1>1. 0 \in Word
  BY Bits DEF Word
<1> QED BY <1>1 DEF ReturnResult, DivisionInv, DivisionTypeOK, NoDivision

(* The operands, the two loops and the return keep the invariant. *)
THEOREM DivisionInvariant == DivisionSpec => []DivisionInv
<1>1. DivisionInit => DivisionInv
  BY DivisionStart
<1>2. DivisionInv /\ [DivisionNext]_divisionVars => DivisionInv'
  <2> SUFFICES ASSUME DivisionInv, [DivisionNext]_divisionVars PROVE DivisionInv'
    OBVIOUS
  <2>1. CASE \E signed \in BOOLEAN, a, b \in Word : CallDivision(signed, a, b)
    BY <2>1, CallDivisionKeeps
  <2>2. CASE Justify
    BY <2>2, JustifyKeeps
  <2>3. CASE Subtract
    BY <2>3, SubtractKeeps
  <2>4. CASE Subtracted
    BY <2>4, SubtractedKeeps
  <2>5. CASE ReturnResult
    BY <2>5, ReturnResultKeeps
  <2>6. CASE UNCHANGED divisionVars
    BY <2>6 DEF divisionVars, DivisionInv, DivisionTypeOK, Justifying, Subtracting, Divided,
                ShiftedBy
  <2> QED BY <2>1, <2>2, <2>3, <2>4, <2>5, <2>6 DEF DivisionNext, DivisionStep
<1> QED BY <1>1, <1>2, PTL DEF DivisionSpec
-----------------------------------------------------------------------------
(* The int64_t of a word and of its negation, by its magnitude. *)
LEMMA SignedByMagnitude ==
  ASSUME NEW w \in Word
  PROVE  /\ Magnitude(w) \in Nat /\ Magnitude(w) <= TopBit
         /\ w < TopBit => Signed(w) = Magnitude(w) /\ Magnitude(w) < TopBit
         /\ ~(w < TopBit) => Signed(w) = -Magnitude(w) /\ Magnitude(w) > 0
         /\ w <= TopBit => Signed(Negated(w)) = -w
BY Bits DEF Word, Signed, Negated, Magnitude

(* The signed quotient and remainder from those of the magnitudes. *)
LEMMA SignedDivision ==
  ASSUME NEW a \in Word, NEW b \in Word, b # 0, NEW q \in Word, NEW r \in Word,
         Magnitude(a) = q * Magnitude(b) + r, r < Magnitude(b),
         NEW minus \in BOOLEAN, minus <=> (a < TopBit) # (b < TopBit),
         NEW sq, sq = Signed(IF minus THEN Negated(q) ELSE q),
         NEW sr, sr = Signed(IF minus THEN Negated(r) ELSE r)
  PROVE  LET sn == Signed(a)
             sd == Signed(b)
         IN  /\ ~(sn = -TopBit /\ sd = -1) => sn = sq * sd + (IF sd > 0 THEN sr ELSE -sr)
             /\ IF sd > 0 THEN -sd < sr /\ sr < sd ELSE sd < sr /\ sr < -sd
<1> DEFINE sn == Signed(a)
           sd == Signed(b)
           A == Magnitude(a)
           B == Magnitude(b)
<1>1. /\ A \in Nat /\ A <= TopBit /\ B \in Nat /\ B > 0 /\ B <= TopBit
      /\ q \in Nat /\ r \in Nat /\ TopBit \in Nat /\ TopBit > 0
  BY SignedByMagnitude, Magnitudes, Bits DEF Word
<1>2. A = q * B + r /\ r < B
  OBVIOUS
<1>3. q * B \in Nat /\ q <= q * B
  BY <1>1
<1>4. q <= A /\ q <= TopBit /\ r < TopBit
  BY <1>1, <1>2, <1>3
<1>5. (q < TopBit => Signed(q) = q) /\ Signed(r) = r
  BY <1>4 DEF Signed
<1>6. Signed(Negated(q)) = -q /\ Signed(Negated(r)) = -r
  BY <1>1, <1>4, SignedByMagnitude
<1>7. sq = (IF minus THEN -q ELSE Signed(q)) /\ sr = (IF minus THEN -r ELSE r)
  BY <1>5, <1>6
<1>8. /\ a < TopBit => sn = A /\ A < TopBit
      /\ ~(a < TopBit) => sn = -A
      /\ b < TopBit => sd = B
      /\ ~(b < TopBit) => sd = -B
  BY SignedByMagnitude
<1> HIDE DEF sn, sd, A, B
<1>9. CASE a < TopBit /\ b < TopBit
  <2>1. sn = A /\ sd = B /\ sq = q /\ sr = r
    BY <1>1, <1>4, <1>5, <1>7, <1>8, <1>9
  <2>2. sn = sq * sd + sr /\ sd > 0 /\ -sd < sr /\ sr < sd
    BY <2>1, <1>1, <1>2, <1>3
  <2> QED BY <2>2 DEF sn, sd
<1>10. CASE a < TopBit /\ ~(b < TopBit)
  <2>1. sn = A /\ sd = -B /\ sq = -q /\ sr = -r
    BY <1>7, <1>8, <1>10
  <2>2. (-q) * (-B) = q * B
    BY <1>1
  <2>3. sn = sq * sd - sr /\ ~(sd > 0) /\ sd < sr /\ sr < -sd /\ sr \in Int
    BY <2>1, <2>2, <1>1, <1>2, <1>3
  <2>4. sn = sq * sd + (-sr)
    BY <2>1, <2>2, <2>3, <1>1, <1>3
  <2> QED BY <2>3, <2>4 DEF sn, sd
<1>11. CASE ~(a < TopBit) /\ b < TopBit
  <2>1. sn = -A /\ sd = B /\ sq = -q /\ sr = -r
    BY <1>7, <1>8, <1>11
  <2>2. (-q) * B = -(q * B)
    BY <1>1
  <2>3. sn = sq * sd + sr /\ sd > 0 /\ -sd < sr /\ sr < sd
    BY <2>1, <2>2, <1>1, <1>2, <1>3
  <2> QED BY <2>3 DEF sn, sd
<1>12. CASE ~(a < TopBit) /\ ~(b < TopBit)
  <2>1. sn = -A /\ sd = -B /\ sr = r
    BY <1>7, <1>8, <1>12
  <2>2. ~(sd > 0) /\ sd < sr /\ sr < -sd
    BY <2>1, <1>1, <1>2
  <2>3. ASSUME ~(sn = -TopBit /\ sd = -1) PROVE sn = sq * sd + (-sr)
    <3>1. q < TopBit
      <4> SUFFICES ASSUME q = TopBit PROVE FALSE
        BY <1>1, <1>4
      <4>1. A = TopBit
        BY <1>1, <1>4
      <4>2. B = 1
        <5> SUFFICES ASSUME B >= 2 PROVE FALSE
          BY <1>1
        <5>1. q * B >= q * 2
          BY <1>1
        <5> QED BY <5>1, <1>1, <1>2, <1>3
      <4> QED BY <4>1, <4>2, <2>1, <2>3
    <3>2. sq = q
      BY <3>1, <1>5, <1>7, <1>12
    <3>3. q * (-B) = -(q * B)
      BY <1>1
    <3> QED BY <2>1, <3>2, <3>3, <1>1, <1>2, <1>3
  <2> QED BY <2>2, <2>3 DEF sn, sd
<1> QED BY <1>9, <1>10, <1>11, <1>12

(* At the return the division of the magnitudes is exact; the signs are    *)
(* put back.                                                               *)
LEMMA ExactAtReturn == DivisionInv => DivisionIsExact
<1> SUFFICES ASSUME DivisionInv, division.pc = "return" PROVE DivisionIsExact
  BY DEF DivisionIsExact
<1>1. Divided /\ division.den # 0 /\ DivisionTypeOK
  BY DEF DivisionInv
<1>2. division.signed \in BOOLEAN /\ division.num \in Word /\ division.den \in Word
  BY <1>1 DEF DivisionTypeOK
<1>3. CASE ~division.signed
  <2>1. Quotient = quot /\ Remainder = num
    BY <1>3 DEF Quotient, Remainder, Minus
  <2>2. Dividend(division) = division.num /\ Divisor(division) = division.den
    BY <1>3 DEF Dividend, Divisor
  <2> QED BY <2>1, <2>2, <1>1, <1>3 DEF Divided, DivisionIsExact
<1>4. CASE division.signed
  <2>1. /\ Dividend(division) = Magnitude(division.num)
        /\ Divisor(division) = Magnitude(division.den)
    BY <1>4 DEF Dividend, Divisor
  <2>2. /\ Magnitude(division.num) = quot * Magnitude(division.den) + num
        /\ num < Magnitude(division.den)
    BY <2>1, <1>1 DEF Divided
  <2>3. Minus \in BOOLEAN /\ (Minus <=> (division.num < TopBit) # (division.den < TopBit))
    BY <1>4, <1>2, Bits DEF Minus, Word
  <2>4. quot \in Word /\ num \in Word
    BY <1>1 DEF DivisionTypeOK
  <2> DEFINE sq == Signed(IF Minus THEN Negated(quot) ELSE quot)
             sr == Signed(IF Minus THEN Negated(num) ELSE num)
             nn == Signed(division.num)
             dd == Signed(division.den)
  <2>5. sq = Signed(Quotient) /\ sr = Signed(Remainder)
    BY DEF Quotient, Remainder
  <2>6. /\ ~(nn = -TopBit /\ dd = -1) => nn = sq * dd + (IF dd > 0 THEN sr ELSE -sr)
        /\ IF dd > 0 THEN -dd < sr /\ sr < dd ELSE dd < sr /\ sr < -dd
    BY <2>2, <2>3, <2>4, <1>1, <1>2, SignedDivision
  <2> QED BY <2>5, <2>6, <1>4 DEF DivisionIsExact
<1> QED BY <1>2, <1>3, <1>4

(* Types, for words of every width. *)
THEOREM DivisionTypeCorrect == DivisionSpec => []DivisionTypeOK
<1>1. DivisionInv => DivisionTypeOK
  BY DEF DivisionInv
<1> QED BY <1>1, DivisionInvariant, PTL

(* The quotient and the remainder are exact for words of every width and   *)
(* all operands, but for the two exceptions DivisionIsExact names.         *)
THEOREM DivisionExact == DivisionSpec => []DivisionIsExact
<1> QED BY ExactAtReturn, DivisionInvariant, PTL
-----------------------------------------------------------------------------
(* The library's folds. *)

(* It takes the elements of a sequence from the last to the first.         *)
LEMMA Lasts ==
  ASSUME NEW k \in Nat
  PROVE  /\ k > 0 => Max(1 .. k) = k /\ (1 .. k) \ {k} = 1 .. k - 1
         /\ \A t \in SUBSET (1 .. k) : t # {} => Max(t) \in t /\ \A x \in t : x <= Max(t)
<1>1. ASSUME NEW t \in SUBSET (1 .. k), t # {}
      PROVE  Max(t) \in t /\ \A x \in t : x <= Max(t)
  <2> DEFINE U == {k - x : x \in t}
  <2>1. U \subseteq Nat /\ U # {}
    <3>1. ASSUME NEW x \in t PROVE k - x \in Nat
      OBVIOUS
    <3>2. \E x \in t : k - x \in U
      BY <1>1
    <3> QED BY <3>1, <3>2
  <2>2. PICK u \in U : \A v \in U : u <= v
    <3> HIDE DEF U
    <3> QED BY <2>1, LeastNumber
  <2>3. PICK x \in t : u = k - x
    OBVIOUS
  <2>4. \A y \in t : k - x <= k - y
    BY <2>2, <2>3
  <2>5. \A y \in t : x >= y
    BY <2>4
  <2> QED BY <2>5 DEF Max
<1>2. ASSUME k > 0 PROVE Max(1 .. k) = k
  <2>1. Max(1 .. k) \in 1 .. k /\ k <= Max(1 .. k)
    <3>1. 1 .. k \in SUBSET (1 .. k) /\ k \in 1 .. k
      BY <1>2
    <3> QED BY <1>1, <3>1, ZenonT(40)
  <2> QED BY <2>1
<1> QED BY <1>1, <1>2

(* A fold with the step G: it[t] is what the elements at the positions t   *)
(* give.                                                                   *)
Folds(it, G, m) ==
  \A t \in SUBSET (1 .. m) :
    it[t] = IF t = {} THEN 0 ELSE G[<<it[t \ {Max(t)}], Max(t)>>]

(* Such a fold exists, so that the one the library's operators choose has  *)
(* its equations.                                                          *)
LEMMA FoldExists ==
  ASSUME NEW m \in Nat, NEW G \in [Nat \X (1 .. m) -> Nat]
  PROVE  \E it \in [SUBSET (1 .. m) -> Nat] : Folds(it, G, m)
<1> DEFINE T == {k \in Nat : k <= m => \E it \in [SUBSET (1 .. k) -> Nat] : Folds(it, G, k)}
<1>1. 0 \in T
  <2> DEFINE it == [t \in SUBSET (1 .. 0) |-> 0]
  <2>1. it \in [SUBSET (1 .. 0) -> Nat]
    OBVIOUS
  <2>2. Folds(it, G, 0)
    BY DEF Folds
  <2> HIDE DEF it
  <2> QED BY <2>1, <2>2
<1>2. ASSUME NEW k \in Nat, k \in T PROVE k + 1 \in T
  <2> SUFFICES ASSUME k + 1 <= m
               PROVE  \E it \in [SUBSET (1 .. k + 1) -> Nat] : Folds(it, G, k + 1)
    BY k + 1 \in Nat
  <2>1. PICK it \in [SUBSET (1 .. k) -> Nat] : Folds(it, G, k)
    <3>1. k <= m
      OBVIOUS
    <3> QED BY <1>2, <3>1
  <2> DEFINE jt == [t \in SUBSET (1 .. k + 1) |->
                      IF k + 1 \in t THEN G[<<it[t \ {k + 1}], k + 1>>] ELSE it[t]]
  <2>2. ASSUME NEW t \in SUBSET (1 .. k + 1)
        PROVE  /\ k + 1 \in t => t \ {k + 1} \in SUBSET (1 .. k) /\ Max(t) = k + 1
               /\ k + 1 \notin t => t \in SUBSET (1 .. k)
    <3>1. ASSUME k + 1 \in t PROVE Max(t) = k + 1
      <4>1. Max(t) \in t /\ k + 1 <= Max(t)
        BY <3>1, Lasts, k + 1 \in Nat
      <4>2. Max(t) \in 1 .. k + 1
        BY <4>1
      <4> QED BY <4>1, <4>2
    <3> QED BY <3>1
  <2>3. jt \in [SUBSET (1 .. k + 1) -> Nat]
    <3>1. ASSUME NEW t \in SUBSET (1 .. k + 1) PROVE jt[t] \in Nat
      <4>1. CASE k + 1 \in t
        <5>1. it[t \ {k + 1}] \in Nat /\ k + 1 \in 1 .. m
          BY <2>2, <4>1
        <5> QED BY <4>1, <5>1
      <4>2. CASE k + 1 \notin t
        BY <2>2, <4>2
      <4> QED BY <4>1, <4>2
    <3> QED BY <3>1
  <2>4. ASSUME NEW t \in SUBSET (1 .. k + 1)
        PROVE  jt[t] = IF t = {} THEN 0 ELSE G[<<jt[t \ {Max(t)}], Max(t)>>]
    <3>1. CASE k + 1 \in t
      <4>1. t # {} /\ Max(t) = k + 1 /\ t \ {k + 1} \in SUBSET (1 .. k)
        BY <2>2, <3>1
      <4>2. jt[t \ {k + 1}] = it[t \ {k + 1}]
        BY <4>1
      <4> QED BY <3>1, <4>1, <4>2
    <3>2. CASE k + 1 \notin t
      <4>1. t \in SUBSET (1 .. k)
        BY <2>2, <3>2
      <4>2. jt[t] = IF t = {} THEN 0 ELSE G[<<it[t \ {Max(t)}], Max(t)>>]
        BY <2>1, <3>2, <4>1 DEF Folds
      <4>3. ASSUME t # {} PROVE jt[t \ {Max(t)}] = it[t \ {Max(t)}]
        BY <3>2
      <4> HIDE DEF jt
      <4> QED BY <4>2, <4>3
    <3> QED BY <3>1, <3>2
  <2> HIDE DEF jt
  <2>5. Folds(jt, G, k + 1)
    BY <2>4 DEF Folds
  <2> QED BY <2>3, <2>5
<1> HIDE DEF T
<1>3. m \in T
  BY <1>1, <1>2, Induction
<1>4. m <= m
  OBVIOUS
<1> QED BY <1>3, <1>4, Zenon DEF T

(* The same, as far as it is known to be a number; and the values a fold   *)
(* goes through.                                                           *)
Stepwise(it, G, m) ==
  /\ it[{}] = 0
  /\ \A t \in SUBSET (1 .. m) :
       t # {} /\ it[t \ {Max(t)}] \in Nat => it[t] = G[<<it[t \ {Max(t)}], Max(t)>>]
Recurs(V, G, m) ==
  /\ V \in [0 .. m -> Nat] /\ V[0] = 0
  /\ \A k \in 1 .. m : V[k] = G[<<V[k - 1], k>>]

(* Values that recur as the fold does are its values.                      *)
LEMMA FoldIs ==
  ASSUME NEW m \in Nat, NEW G \in [Nat \X (1 .. m) -> Nat], NEW it, Stepwise(it, G, m)
  PROVE  it[1 .. m] \in Nat /\ \A V : Recurs(V, G, m) => it[1 .. m] = V[m]
<1>1. it[1 .. 0] = 0
  <2>1. 1 .. 0 = {}
    OBVIOUS
  <2> QED BY <2>1 DEF Stepwise
<1>2. ASSUME NEW k \in Nat, k + 1 <= m, it[1 .. k] \in Nat
      PROVE  it[1 .. k + 1] = G[<<it[1 .. k], k + 1>>] /\ it[1 .. k + 1] \in Nat
  <2>1. 1 .. k + 1 \in SUBSET (1 .. m) /\ 1 .. k + 1 # {}
    <3>1. k + 1 \in 1 .. k + 1
      OBVIOUS
    <3>2. \A x \in 1 .. k + 1 : x \in 1 .. m
      BY <1>2
    <3> QED BY <3>1, <3>2
  <2>2. Max(1 .. k + 1) = k + 1 /\ (1 .. k + 1) \ {k + 1} = 1 .. k
    <3>1. k + 1 \in Nat /\ k + 1 > 0 /\ (k + 1) - 1 = k
      OBVIOUS
    <3> QED BY <3>1, Lasts
  <2>3. <<it[1 .. k], k + 1>> \in Nat \X (1 .. m)
    BY <1>2
  <2>4. it[1 .. k + 1] = G[<<it[(1 .. k + 1) \ {Max(1 .. k + 1)}], Max(1 .. k + 1)>>]
    BY <1>2, <2>1, <2>2 DEF Stepwise
  <2> QED BY <2>2, <2>3, <2>4
<1>3. it[1 .. m] \in Nat
  <2> DEFINE T == {k \in Nat : k <= m => it[1 .. k] \in Nat}
  <2>1. 0 \in T
    BY <1>1
  <2>2. ASSUME NEW k \in Nat, k \in T PROVE k + 1 \in T
    <3> SUFFICES ASSUME k + 1 <= m PROVE it[1 .. k + 1] \in Nat
      BY k + 1 \in Nat
    <3>1. k <= m
      OBVIOUS
    <3> QED BY <1>2, <2>2, <3>1
  <2> HIDE DEF T
  <2>3. m \in T
    BY <2>1, <2>2, Induction
  <2>4. m <= m
    OBVIOUS
  <2> QED BY <2>3, <2>4 DEF T
<1>4. ASSUME NEW V, Recurs(V, G, m)
      PROVE  it[1 .. m] = V[m]
  <2> DEFINE T == {k \in Nat : k <= m => it[1 .. k] = V[k]}
  <2>1. 0 \in T
    BY <1>1, <1>4 DEF Recurs
  <2>2. ASSUME NEW k \in Nat, k \in T PROVE k + 1 \in T
    <3> SUFFICES ASSUME k + 1 <= m PROVE it[1 .. k + 1] = V[k + 1]
      BY k + 1 \in Nat
    <3>1. k + 1 \in 1 .. m /\ (k + 1) - 1 = k /\ k \in 0 .. m
      OBVIOUS
    <3>2. it[1 .. k] = V[k] /\ V[k] \in Nat
      BY <1>4, <2>2, <3>1 DEF Recurs
    <3>3. V[k + 1] = G[<<V[k], k + 1>>]
      BY <1>4, <3>1 DEF Recurs
    <3> QED BY <1>2, <3>2, <3>3
  <2> HIDE DEF T
  <2>3. m \in T
    BY <2>1, <2>2, Induction
  <2>4. m <= m
    OBVIOUS
  <2> QED BY <2>3, <2>4 DEF T
<1> QED BY <1>3, <1>4

LEMMA CodeZero == Code["0"] = 48
  BY CodeAssumption

(* a2d's digits, up to ten, which is no digit. *)
LEMMA DigitValues == \A c \in DOMAIN a2d : a2d[c] \in 0 .. 10
<1>1. /\ Code["0"] = 48 /\ Code["1"] = 49 /\ Code["2"] = 50 /\ Code["3"] = 51
      /\ Code["4"] = 52 /\ Code["5"] = 53 /\ Code["6"] = 54 /\ Code["7"] = 55
      /\ Code["8"] = 56 /\ Code["9"] = 57
  BY CodeAssumption
<1>2. \A c \in Digits : Code[c] \in 48 .. 57
  BY <1>1 DEF Digits
<1>3. \A c \in Digits : Code[c] - Code["0"] \in 0 .. 10
  BY <1>1, <1>2
<1> QED BY <1>3 DEF a2d

(* IntWords is a power of two above one.                                   *)
LEMMA Words == IntWords \in Nat /\ IntWords > 1 /\ 2 * (IntWords \div 2) = IntWords
<1>1. IntBits - 1 \in Nat /\ (IntBits - 1) + 1 = IntBits
  BY PrintingAssumption
<1>2. /\ Power(2)[IntBits - 1] \in Nat /\ Power(2)[IntBits - 1] > 0
      /\ Power(2)[(IntBits - 1) + 1] = 2 * Power(2)[IntBits - 1]
  BY <1>1, PowersOf, 2 \in Nat, 2 > 0
<1> QED BY <1>1, <1>2 DEF IntWords

(* What the readers fold over a sequence, and the values that takes them   *)
(* through.                                                                *)
a2iFold(it, s) ==
  it = [t \in SUBSET DOMAIN s |-> IF t = {} THEN 0
                                  ELSE LET x == Max(t)
                                       IN  (it[t \ {x}] * 10 + a2d[s[x]]) % IntWords]
atoiFold(it, s) ==
  it = [t \in SUBSET DOMAIN s |-> IF t = {} THEN 0
                                  ELSE LET x == Max(t)
                                       IN  (it[t \ {x}] * 10 + s[x] - Code["0"]) % IntWords]
ValueOf(c) == CASE IsDigit(c) -> c - Code["0"]
                [] c >= Code["a"] -> c - Code["a"] + 10
                [] OTHER -> c - Code["A"] + 10
WorthFold(it, s) ==
  it = [t \in SUBSET DOMAIN s |-> IF t = {} THEN 0
                                  ELSE LET x == Max(t)
                                       IN  it[t \ {x}] * base + ValueOf(s[x])]
HexOf(c) == IF c <= 57 THEN c - 48 ELSE c - 55
Positions(s) == [i \in DOMAIN s |-> i]
hexFold(it, s) ==
  it = [t \in SUBSET DOMAIN s |->
          IF t = {} THEN 0
          ELSE LET x == Max(t)
                   i == Positions(s)[x]
               IN  it[t \ {x}] + HexOf(s[i]) * Power(16)[Len(s) - i]]

AtoiReading(V, s) ==
  /\ V \in [0 .. Len(s) -> Nat] /\ V[0] = 0
  /\ \A k \in 1 .. Len(s) : V[k] = (V[k - 1] * 10 + s[k] - Code["0"]) % IntWords
WorthReading(V, s) ==
  /\ V \in [0 .. Len(s) -> Nat] /\ V[0] = 0
  /\ \A k \in 1 .. Len(s) : V[k] = V[k - 1] * base + ValueOf(s[k])
HexReading(V, s) ==
  /\ V \in [0 .. Len(s) -> Nat] /\ V[0] = 0
  /\ \A k \in 1 .. Len(s) : V[k] = V[k - 1] + HexOf(s[k]) * Power(16)[Len(s) - k]

(* a2i folds the digits of a width to a number.                            *)
LEMMA WidthIsNumber ==
  ASSUME NEW s \in Seq(DOMAIN a2d)
  PROVE  a2i(s) \in Nat
<1> DEFINE m == Len(s)
           it == CHOOSE it : a2iFold(it, s)
           G == [p \in Nat \X (1 .. m) |-> (p[1] * 10 + a2d[s[p[2]]]) % IntWords]
<1>1. m \in Nat /\ DOMAIN s = 1 .. m
  OBVIOUS
<1>2. \A i \in 1 .. m : a2d[s[i]] \in Nat
  BY DigitValues
<1>3. G \in [Nat \X (1 .. m) -> Nat]
  <2>1. ASSUME NEW v \in Nat, NEW i \in 1 .. m PROVE (v * 10 + a2d[s[i]]) % IntWords \in Nat
    BY <1>2, Words
  <2> QED BY <2>1
<1>4. PICK jt \in [SUBSET (1 .. m) -> Nat] : Folds(jt, G, m)
  <2> HIDE DEF G
  <2> QED BY <1>1, <1>3, FoldExists
<1>5. a2iFold(jt, s)
  <2>1. ASSUME NEW t \in SUBSET (1 .. m), t # {}
        PROVE  jt[t] = (jt[t \ {Max(t)}] * 10 + a2d[s[Max(t)]]) % IntWords
    <3>1. Max(t) \in 1 .. m /\ jt[t \ {Max(t)}] \in Nat
      BY <2>1, <1>1, Lasts
    <3> QED BY <2>1, <3>1, <1>4 DEF Folds
  <2>2. jt[{}] = 0
    BY <1>4 DEF Folds
  <2> QED BY <1>1, <2>1, <2>2 DEF a2iFold
<1>6. a2iFold(it, s)
  BY <1>5
<1>7. a2i(s) = it[1 .. m]
  BY <1>1 DEF a2i, FoldLeft, MapThenFoldSet, a2iFold
<1>8. it[{}] = 0
  BY <1>6 DEF a2iFold
<1>9. ASSUME NEW t \in SUBSET (1 .. m), t # {}, it[t \ {Max(t)}] \in Nat
      PROVE  it[t] = G[<<it[t \ {Max(t)}], Max(t)>>]
  <2>1. Max(t) \in 1 .. m
    BY <1>1, <1>9, Lasts
  <2>2. it[t] = (it[t \ {Max(t)}] * 10 + a2d[s[Max(t)]]) % IntWords
    BY <1>1, <1>6, <1>9 DEF a2iFold
  <2> HIDE DEF it, m
  <2>3. <<it[t \ {Max(t)}], Max(t)>> \in Nat \X (1 .. m)
    BY <1>9, <2>1
  <2> QED BY <2>2, <2>3
<1> HIDE DEF it
<1>10. Stepwise(it, G, m)
  BY <1>8, <1>9 DEF Stepwise
<1> HIDE DEF G, m
<1>11. it[1 .. m] \in Nat
  BY <1>1, <1>3, <1>10, FoldIs
<1> QED BY <1>7, <1>11 DEF m

AtoiOf(s) == FoldLeft(LAMBDA result, c : (result * 10 + c - Code["0"]) % IntWords, 0, s)

(* The digits of a line are worth, to atoi, what the recurrence says.      *)
LEMMA AtoiReads ==
  ASSUME NEW s \in Seq(Nat), \A i \in 1 .. Len(s) : IsDigit(s[i]),
         NEW V, AtoiReading(V, s)
  PROVE  AtoiOf(s) = V[Len(s)]
<1> DEFINE m == Len(s)
           it == CHOOSE it : atoiFold(it, s)
           G == [p \in Nat \X (1 .. m) |-> (p[1] * 10 + s[p[2]] - Code["0"]) % IntWords]
<1>1. m \in Nat /\ DOMAIN s = 1 .. m
  OBVIOUS
<1>2. \A i \in 1 .. m : s[i] - Code["0"] \in Nat
  <2>1. Code["0"] = 48 /\ Code["9"] = 57
    BY CodeAssumption
  <2>2. \A i \in 1 .. m : s[i] \in Nat
    OBVIOUS
  <2>3. \A i \in 1 .. m : s[i] \in 48 .. 57
    BY <2>1 DEF IsDigit
  <2>4. ASSUME NEW i \in 1 .. m PROVE s[i] - Code["0"] \in Nat
    <3> DEFINE y == s[i]
    <3>1. y \in 48 .. 57
      BY <2>3
    <3> HIDE DEF y
    <3>2. y - 48 \in Nat
      BY <3>1
    <3> QED BY <2>1, <3>2 DEF y
  <2> QED BY <2>4
<1>3. G \in [Nat \X (1 .. m) -> Nat]
  <2>1. ASSUME NEW v \in Nat, NEW i \in 1 .. m PROVE (v * 10 + s[i] - Code["0"]) % IntWords \in Nat
    BY <1>2, Words, CodeZero
  <2> QED BY <2>1
<1>4. PICK jt \in [SUBSET (1 .. m) -> Nat] : Folds(jt, G, m)
  <2> HIDE DEF G
  <2> QED BY <1>1, <1>3, FoldExists
<1>5. atoiFold(jt, s)
  <2>1. ASSUME NEW t \in SUBSET (1 .. m), t # {}
        PROVE  jt[t] = (jt[t \ {Max(t)}] * 10 + s[Max(t)] - Code["0"]) % IntWords
    <3>1. Max(t) \in 1 .. m /\ jt[t \ {Max(t)}] \in Nat
      BY <2>1, <1>1, Lasts
    <3> QED BY <2>1, <3>1, <1>4 DEF Folds
  <2>2. jt[{}] = 0
    BY <1>4 DEF Folds
  <2> QED BY <1>1, <2>1, <2>2 DEF atoiFold
<1>6. atoiFold(it, s)
  BY <1>5
<1>7. AtoiOf(s) = it[1 .. m]
  BY <1>1 DEF AtoiOf, FoldLeft, MapThenFoldSet, atoiFold
<1>8. it[{}] = 0
  BY <1>6 DEF atoiFold
<1>9. ASSUME NEW t \in SUBSET (1 .. m), t # {}, it[t \ {Max(t)}] \in Nat
      PROVE  it[t] = G[<<it[t \ {Max(t)}], Max(t)>>]
  <2>1. Max(t) \in 1 .. m
    BY <1>1, <1>9, Lasts
  <2>2. it[t] = (it[t \ {Max(t)}] * 10 + s[Max(t)] - Code["0"]) % IntWords
    BY <1>1, <1>6, <1>9 DEF atoiFold
  <2> HIDE DEF it, m
  <2>3. <<it[t \ {Max(t)}], Max(t)>> \in Nat \X (1 .. m)
    BY <1>9, <2>1
  <2> QED BY <2>2, <2>3
<1> HIDE DEF it
<1>10. Stepwise(it, G, m)
  BY <1>8, <1>9 DEF Stepwise
<1>11. Recurs(V, G, m)
  <2>1. /\ V \in [0 .. m -> Nat] /\ V[0] = 0
        /\ \A k \in 1 .. m : V[k] = (V[k - 1] * 10 + s[k] - Code["0"]) % IntWords
    BY DEF AtoiReading
  <2>2. ASSUME NEW k \in 1 .. m PROVE V[k - 1] \in Nat
    <3>1. k - 1 \in 0 .. m
      OBVIOUS
    <3> QED BY <2>1, <3>1
  <2>3. ASSUME NEW k \in 1 .. m PROVE V[k] = G[<<V[k - 1], k>>]
    <3>1. V[k] = (V[k - 1] * 10 + s[k] - Code["0"]) % IntWords
      BY <2>1
    <3> QED BY <2>2, <3>1
  <2> QED BY <2>1, <2>3 DEF Recurs
<1> HIDE DEF G, m
<1>12. it[1 .. m] = V[m]
  BY <1>1, <1>3, <1>10, <1>11, FoldIs, ZenonT(40)
<1> QED BY <1>7, <1>12 DEF m

LEMMA BaseIsNumber == base \in {10, 16}
  BY DEF base

(* So they are to the definition of a number's worth...                    *)
LEMMA WorthReads ==
  ASSUME NEW s \in Seq(Nat), \A i \in 1 .. Len(s) : ValueOf(s[i]) \in Nat,
         NEW V, WorthReading(V, s)
  PROVE  Worth(s) = V[Len(s)]
<1> DEFINE m == Len(s)
           it == CHOOSE it : WorthFold(it, s)
           G == [p \in Nat \X (1 .. m) |-> p[1] * base + ValueOf(s[p[2]])]
<1>1. m \in Nat /\ DOMAIN s = 1 .. m
  OBVIOUS
<1>2. \A i \in 1 .. m : ValueOf(s[i]) \in Nat
  OBVIOUS
<1>3. G \in [Nat \X (1 .. m) -> Nat]
  <2>1. ASSUME NEW v \in Nat, NEW i \in 1 .. m PROVE v * base + ValueOf(s[i]) \in Nat
    BY <1>2, BaseIsNumber
  <2> QED BY <2>1
<1>4. PICK jt \in [SUBSET (1 .. m) -> Nat] : Folds(jt, G, m)
  <2> HIDE DEF G
  <2> QED BY <1>1, <1>3, FoldExists
<1>5. WorthFold(jt, s)
  <2>1. ASSUME NEW t \in SUBSET (1 .. m), t # {}
        PROVE  jt[t] = jt[t \ {Max(t)}] * base + ValueOf(s[Max(t)])
    <3>1. Max(t) \in 1 .. m /\ jt[t \ {Max(t)}] \in Nat
      BY <2>1, <1>1, Lasts
    <3> QED BY <2>1, <3>1, <1>4 DEF Folds
  <2>2. jt[{}] = 0
    BY <1>4 DEF Folds
  <2> QED BY <1>1, <2>1, <2>2 DEF WorthFold
<1>6. WorthFold(it, s)
  BY <1>5
<1>7. Worth(s) = it[1 .. m]
  BY <1>1 DEF Worth, FoldLeft, MapThenFoldSet, WorthFold, ValueOf
<1>8. it[{}] = 0
  BY <1>6 DEF WorthFold
<1>9. ASSUME NEW t \in SUBSET (1 .. m), t # {}, it[t \ {Max(t)}] \in Nat
      PROVE  it[t] = G[<<it[t \ {Max(t)}], Max(t)>>]
  <2>1. Max(t) \in 1 .. m
    BY <1>1, <1>9, Lasts
  <2>2. it[t] = it[t \ {Max(t)}] * base + ValueOf(s[Max(t)])
    BY <1>1, <1>6, <1>9 DEF WorthFold
  <2> HIDE DEF it, m
  <2>3. <<it[t \ {Max(t)}], Max(t)>> \in Nat \X (1 .. m)
    BY <1>9, <2>1
  <2> QED BY <2>2, <2>3
<1> HIDE DEF it
<1>10. Stepwise(it, G, m)
  BY <1>8, <1>9 DEF Stepwise
<1>11. Recurs(V, G, m)
  <2>1. /\ V \in [0 .. m -> Nat] /\ V[0] = 0
        /\ \A k \in 1 .. m : V[k] = V[k - 1] * base + ValueOf(s[k])
    BY DEF WorthReading
  <2>2. ASSUME NEW k \in 1 .. m PROVE V[k - 1] \in Nat
    <3>1. k - 1 \in 0 .. m
      OBVIOUS
    <3> QED BY <2>1, <3>1
  <2>3. ASSUME NEW k \in 1 .. m PROVE V[k] = G[<<V[k - 1], k>>]
    <3>1. V[k] = V[k - 1] * base + ValueOf(s[k])
      BY <2>1
    <3> QED BY <2>2, <3>1
  <2> QED BY <2>1, <2>3 DEF Recurs
<1> HIDE DEF G, m
<1>12. it[1 .. m] = V[m]
  BY <1>1, <1>3, <1>10, <1>11, FoldIs, ZenonT(40)
<1> QED BY <1>7, <1>12 DEF m

(* ...and to hex2int, from the weight of each position.                    *)
LEMMA HexReads ==
  ASSUME NEW s \in Seq(Nat), \A i \in 1 .. Len(s) : HexOf(s[i]) \in Nat,
         NEW V, HexReading(V, s)
  PROVE  hex2int(s) = V[Len(s)] % IntWords
<1> DEFINE m == Len(s)
           it == CHOOSE it : hexFold(it, s)
           G == [p \in Nat \X (1 .. m) |-> p[1] + HexOf(s[p[2]]) * Power(16)[m - p[2]]]
<1>1. m \in Nat /\ DOMAIN s = 1 .. m /\ \A i \in 1 .. m : Positions(s)[i] = i
  BY DEF Positions
<1>21. \A t \in SUBSET (1 .. m) : t # {} => Positions(s)[Max(t)] = Max(t)
  BY <1>1, Lasts
<1>2. \A i \in 1 .. m : HexOf(s[i]) * Power(16)[m - i] \in Nat
  <2>1. ASSUME NEW i \in 1 .. m PROVE Power(16)[m - i] \in Nat
    <3>1. m - i \in Nat
      BY <1>1
    <3> QED BY <3>1, PowersOf, 16 \in Nat, 16 > 0
  <2> QED BY <2>1
<1>3. G \in [Nat \X (1 .. m) -> Nat]
  <2>1. ASSUME NEW v \in Nat, NEW i \in 1 .. m PROVE v + HexOf(s[i]) * Power(16)[m - i] \in Nat
    BY <1>2
  <2> QED BY <2>1
<1>4. PICK jt \in [SUBSET (1 .. m) -> Nat] : Folds(jt, G, m)
  <2> HIDE DEF G
  <2> QED BY <1>1, <1>3, FoldExists
<1>5. hexFold(jt, s)
  <2>1. ASSUME NEW t \in SUBSET (1 .. m), t # {}
        PROVE  jt[t] = jt[t \ {Max(t)}] + HexOf(s[Max(t)]) * Power(16)[m - Max(t)]
    <3>1. Max(t) \in 1 .. m /\ jt[t \ {Max(t)}] \in Nat
      BY <2>1, <1>1, Lasts
    <3> QED BY <2>1, <3>1, <1>4 DEF Folds
  <2>2. jt[{}] = 0
    BY <1>4 DEF Folds
  <2>3. ASSUME NEW t \in SUBSET (1 .. m), t # {}
        PROVE  jt[t] = jt[t \ {Max(t)}]
                 + HexOf(s[Positions(s)[Max(t)]]) * Power(16)[Len(s) - Positions(s)[Max(t)]]
    <3>1. Positions(s)[Max(t)] = Max(t)
      BY <1>21, <2>3
    <3> QED BY <2>1, <2>3, <3>1
  <2> QED BY <1>1, <2>2, <2>3 DEF hexFold
<1>6. hexFold(it, s)
  BY <1>5
<1>7. hex2int(s) = it[1 .. m] % IntWords
  BY <1>1, DOMAIN [i \in DOMAIN s |-> i] = DOMAIN s
     DEF hex2int, FoldLeftDomain, FoldLeft, MapThenFoldSet, hexFold, HexOf, Positions
<1>8. it[{}] = 0
  BY <1>6 DEF hexFold
<1>9. ASSUME NEW t \in SUBSET (1 .. m), t # {}, it[t \ {Max(t)}] \in Nat
      PROVE  it[t] = G[<<it[t \ {Max(t)}], Max(t)>>]
  <2>1. Max(t) \in 1 .. m
    BY <1>1, <1>9, Lasts
  <2>2. it[t] = it[t \ {Max(t)}] + HexOf(s[Max(t)]) * Power(16)[m - Max(t)]
    BY <1>1, <1>6, <1>9, <1>21, ZenonT(40) DEF hexFold
  <2> HIDE DEF it, m
  <2>3. <<it[t \ {Max(t)}], Max(t)>> \in Nat \X (1 .. m)
    BY <1>9, <2>1
  <2> QED BY <2>2, <2>3
<1> HIDE DEF it
<1>10. Stepwise(it, G, m)
  BY <1>8, <1>9 DEF Stepwise
<1>11. Recurs(V, G, m)
  <2>1. /\ V \in [0 .. m -> Nat] /\ V[0] = 0
        /\ \A k \in 1 .. m : V[k] = V[k - 1] + HexOf(s[k]) * Power(16)[m - k]
    BY DEF HexReading
  <2>2. ASSUME NEW k \in 1 .. m PROVE V[k - 1] \in Nat
    <3>1. k - 1 \in 0 .. m
      OBVIOUS
    <3> QED BY <2>1, <3>1
  <2>3. ASSUME NEW k \in 1 .. m PROVE V[k] = G[<<V[k - 1], k>>]
    <3>1. V[k] = V[k - 1] + HexOf(s[k]) * Power(16)[m - k]
      BY <2>1
    <3> QED BY <2>2, <3>1
  <2> QED BY <2>1, <2>3 DEF Recurs
<1> HIDE DEF G, m
<1>12. it[1 .. m] = V[m]
  BY <1>1, <1>3, <1>10, <1>11, FoldIs, ZenonT(40)
<1> QED BY <1>7, <1>12 DEF m
-----------------------------------------------------------------------------
(* Reading a format.                                                       *)

(* The least element of a set of numbers is one of them, and no greater    *)
(* than any.                                                               *)
LEMMA MinIs ==
  ASSUME NEW I \in SUBSET Nat, I # {}
  PROVE  Min(I) \in I /\ \A i \in I : Min(I) <= i
<1>1. \E i \in I : \A k \in I : i <= k
  BY LeastNumber
<1> QED BY <1>1 DEF Min

(* A longest beginning that is one of the elements of T.                   *)
Beginning(t, s, T) ==
  \E j \in 0 .. Len(s) :
    /\ t = SubSeq(s, 1, j) /\ \A i \in 1 .. j : s[i] \in T
    /\ j < Len(s) => s[j + 1] \notin T

(* What Leading(s, Test) finds is such a beginning.                        *)
LEMMA BeginningIs ==
  ASSUME NEW S, NEW s \in Seq(S), NEW T
  PROVE  LET I == {i \in 1 .. Len(s) : ~(s[i] \in T)}
             i == IF I # {} THEN Min(I) ELSE 0
         IN  Beginning(IF i = 0 THEN s ELSE SubSeq(s, 1, i - 1), s, T)
<1> DEFINE I == {i \in 1 .. Len(s) : ~(s[i] \in T)}
<1>1. CASE I = {}
  <2>1. s = SubSeq(s, 1, Len(s)) /\ Len(s) \in 0 .. Len(s)
    OBVIOUS
  <2>2. \A i \in 1 .. Len(s) : s[i] \in T
    BY <1>1
  <2> QED BY <1>1, <2>1, <2>2 DEF Beginning
<1>2. CASE I # {}
  <2>1. Min(I) \in I /\ \A i \in I : Min(I) <= i
    <3>1. I \in SUBSET Nat
      OBVIOUS
    <3> HIDE DEF I
    <3> QED BY <1>2, <3>1, MinIs
  <2> DEFINE j == Min(I) - 1
  <2>2. Min(I) # 0 /\ j \in 0 .. Len(s) /\ j + 1 = Min(I)
    BY <2>1
  <2>3. s[j + 1] \notin T
    BY <2>1, <2>2
  <2>4. ASSUME NEW i \in 1 .. j PROVE s[i] \in T
    <3>1. i \in 1 .. Len(s) /\ i \notin I
      BY <2>1, <2>2
    <3> QED BY <3>1
  <2> QED BY <1>2, <2>2, <2>3, <2>4 DEF Beginning
<1> QED BY <1>1, <1>2

(* The first % of a format is where Percent says.                          *)
LEMMA PercentIs ==
  ASSUME NEW f \in Seq(Characters), NEW j \in 1 .. Len(f), f[j] = "%",
         \A i \in 1 .. j - 1 : f[i] # "%"
  PROVE  Percent(f) = j
<1> DEFINE I == {i \in 1 .. Len(f) : f[i] = "%"}
<1>1. j \in I /\ I \in SUBSET Nat
  OBVIOUS
<1>2. \A i \in I : i \in 1 .. Len(f) /\ f[i] = "%"
  OBVIOUS
<1>3. Percent(f) = Min(I)
  BY <1>1 DEF Percent, SelectInSeq
<1> HIDE DEF I
<1>4. Min(I) \in I /\ Min(I) <= j
  BY <1>1, MinIs
<1>5. Min(I) \in 1 .. Len(f) /\ f[Min(I)] = "%"
  BY <1>2, <1>4
<1>6. Min(I) \notin 1 .. j - 1
  BY <1>5
<1> QED BY <1>3, <1>4, <1>5, <1>6

LEMMA SameSequence ==
  ASSUME NEW S, NEW a \in Seq(S), NEW b \in Seq(S), Len(a) = Len(b),
         \A i \in 1 .. Len(a) : a[i] = b[i]
  PROVE  a = b
  OBVIOUS

LEMMA SequenceOfMore ==
  ASSUME NEW S, NEW T, S \subseteq T, NEW a \in Seq(S)
  PROVE  a \in Seq(T)
<1>1. \A i \in 1 .. Len(a) : a[i] \in T
  OBVIOUS
<1>2. a = [i \in 1 .. Len(a) |-> a[i]] /\ Len(a) \in Nat
  OBVIOUS
<1> QED BY <1>1, <1>2

LEMMA AppendAfter ==
  ASSUME NEW S, NEW a \in Seq(S), NEW b \in Seq(S), NEW x \in S
  PROVE  /\ Append(a \o b, x) = a \o Append(b, x)
         /\ a \o Append(b, x) \in Seq(S) /\ Append(b, x) \in Seq(S)
         /\ Len(Append(b, x)) = Len(b) + 1
<1> DEFINE y == Append(a \o b, x)
           z == a \o Append(b, x)
<1>1. y \in Seq(S) /\ z \in Seq(S) /\ Len(y) = Len(z) /\ Append(b, x) \in Seq(S)
  OBVIOUS
<1>2. \A i \in 1 .. Len(y) : y[i] = z[i]
  OBVIOUS
<1>3. y = z
  <2> HIDE DEF y, z
  <2> QED BY <1>1, <1>2, SameSequence
<1> QED BY <1>1, <1>3

(* What From(s, i) leaves of s.                                            *)
LEMMA FromIs ==
  ASSUME NEW S, NEW s \in Seq(S), NEW i \in Nat \ {0}
  PROVE  /\ From(s, i) \in Seq(S)
         /\ Len(From(s, i)) = IF i <= Len(s) THEN Len(s) - i + 1 ELSE 0
         /\ \A k \in 1 .. Len(From(s, i)) : From(s, i)[k] = s[i + k - 1]
  BY DEF From

(* The parts of a conversion are of their types, whatever the format.      *)
LEMMA ConversionIs ==
  ASSUME NEW s \in Seq(Characters)
  PROVE  /\ Conversion(s).lz \in BOOLEAN /\ Conversion(s).w \in Nat
         /\ Conversion(s).conv \in Characters \union {"NUL"}
         /\ Conversion(s).rest \in Seq(Characters)
<1> DEFINE lz == CharAt(s, 1) = "0"
           t == IF lz THEN From(s, 2) ELSE s
           width == IF CharAt(t, 1) \in Digits THEN Leading(t, LAMBDA c : c \in DOMAIN a2d)
                    ELSE <<>>
<1>1. t \in Seq(Characters)
  BY FromIs, 2 \in Nat \ {0}
<1>2. width \in Seq(DOMAIN a2d)
  <2> HIDE DEF t
  <2>1. CASE CharAt(t, 1) \in Digits
    <3>1. Beginning(width, t, DOMAIN a2d)
      <4> DEFINE I == {i \in 1 .. Len(t) : ~(t[i] \in DOMAIN a2d)}
                 i == IF I # {} THEN Min(I) ELSE 0
      <4>1. width = IF i = 0 THEN t ELSE SubSeq(t, 1, i - 1)
        BY <2>1 DEF Leading, SelectInSeq
      <4>2. Beginning(IF i = 0 THEN t ELSE SubSeq(t, 1, i - 1), t, DOMAIN a2d)
        BY <1>1, BeginningIs
      <4> QED BY <4>1, <4>2
    <3>2. PICK j \in 0 .. Len(t) : width = SubSeq(t, 1, j) /\ \A i \in 1 .. j : t[i] \in DOMAIN a2d
      BY <3>1 DEF Beginning
    <3> HIDE DEF width
    <3>3. Len(width) = j /\ \A i \in 1 .. j : width[i] = t[i]
      BY <1>1, <3>2
    <3>4. width \in Seq(Characters)
      BY <1>1, <3>2
    <3> QED BY <3>2, <3>3, <3>4
  <2>2. CASE CharAt(t, 1) \notin Digits
    BY <2>2
  <2> QED BY <2>1, <2>2
<1>3. Conversion(s) = [lz |-> lz, w |-> a2i(width), conv |-> CharAt(t, Len(width) + 1),
                       rest |-> From(t, Len(width) + 2)]
  BY DEF Conversion
<1> HIDE DEF t, width
<1>4. a2i(width) \in Nat
  BY <1>2, WidthIsNumber
<1>5. Len(width) + 1 \in Nat \ {0} /\ Len(width) + 2 \in Nat \ {0}
  BY <1>2
<1>6. From(t, Len(width) + 2) \in Seq(Characters)
  BY <1>1, <1>5, FromIs
<1>7. CharAt(t, Len(width) + 1) \in Characters \union {"NUL"}
  BY <1>1, <1>5 DEF CharAt
<1> QED BY <1>3, <1>4, <1>6, <1>7
-----------------------------------------------------------------------------
(* Digits: those ds spell v in the base of the conversion c.               *)
BaseOf(c) == IF c \in {"x", "X"} THEN 16 ELSE 10
DigitOf(c, x) == IF x < 10 THEN 48 + x ELSE (IF c = "X" THEN 65 ELSE 97) + x - 10
Spelling(c, ds, x, V) ==
  /\ x \in [1 .. Len(ds) -> 0 .. BaseOf(c) - 1]
  /\ V \in [0 .. Len(ds) -> Nat] /\ V[0] = 0
  /\ \A k \in 1 .. Len(ds) : ds[k] = DigitOf(c, x[k]) /\ V[k] = V[k - 1] * BaseOf(c) + x[k]
Spells(c, ds, v) ==
  ds \in Seq(Nat) /\ \E x, V : Spelling(c, ds, x, V) /\ V[Len(ds)] = v

LEMMA BaseIs ==
  ASSUME NEW c
  PROVE  /\ BaseOf(c) \in {10, 16} /\ BaseOf(c) \in Nat
         /\ \A x \in 0 .. BaseOf(c) - 1 : DigitOf(c, x) \in Nat /\ DigitOf(c, x) <= 112
  BY DEF BaseOf, DigitOf

(* No digits spell 0, one more digit after those of v spells v times the   *)
(* base and it, and zeros before digits change nothing.                    *)
LEMMA SpellsNothing == \A c : Spells(c, <<>>, 0)
<1> SUFFICES ASSUME NEW c PROVE Spells(c, <<>>, 0)
  OBVIOUS
<1> DEFINE x == [k \in 1 .. 0 |-> 0]
           V == [k \in 0 .. 0 |-> 0]
<1>1. x \in [1 .. 0 -> 0 .. BaseOf(c) - 1] /\ V \in [0 .. 0 -> Nat] /\ V[0] = 0
  OBVIOUS
<1>2. <<>> \in Seq(Nat) /\ Len(<<>>) = 0 /\ 1 .. 0 = {}
  OBVIOUS
<1> HIDE DEF x, V
<1>3. Spelling(c, <<>>, x, V) /\ V[Len(<<>>)] = 0
  BY <1>1, <1>2 DEF Spelling
<1> QED BY <1>2, <1>3 DEF Spells

LEMMA SpellsMore ==
  ASSUME NEW c, NEW ds, NEW v \in Nat, Spells(c, ds, v), NEW y \in 0 .. BaseOf(c) - 1
  PROVE  Spells(c, Append(ds, DigitOf(c, y)), v * BaseOf(c) + y)
<1>1. ds \in Seq(Nat)
  BY DEF Spells
<1>2. PICK x, V : Spelling(c, ds, x, V) /\ V[Len(ds)] = v
  BY DEF Spells
<1> DEFINE m == Len(ds)
           es == Append(ds, DigitOf(c, y))
           xx == [k \in 1 .. m + 1 |-> IF k <= m THEN x[k] ELSE y]
           W == [k \in 0 .. m + 1 |-> IF k <= m THEN V[k] ELSE v * BaseOf(c) + y]
<1>3. m \in Nat /\ y \in Nat
  BY <1>1, BaseIs
<1>4. /\ es \in Seq(Nat) /\ Len(es) = m + 1 /\ es[m + 1] = DigitOf(c, y)
      /\ \A k \in 1 .. m : es[k] = ds[k]
  BY <1>1, BaseIs
<1>5. /\ x \in [1 .. m -> 0 .. BaseOf(c) - 1] /\ V \in [0 .. m -> Nat] /\ V[0] = 0 /\ V[m] = v
      /\ \A k \in 1 .. m : ds[k] = DigitOf(c, x[k]) /\ V[k] = V[k - 1] * BaseOf(c) + x[k]
  BY <1>2 DEF Spelling
<1> HIDE DEF m, es
<1>6. xx \in [1 .. m + 1 -> 0 .. BaseOf(c) - 1]
  BY <1>3, <1>5
<1>7. W \in [0 .. m + 1 -> Nat] /\ W[0] = 0 /\ W[m + 1] = v * BaseOf(c) + y
  <2>1. v * BaseOf(c) + y \in Nat
    BY <1>3, BaseIs
  <2> QED BY <1>3, <1>5, <2>1
<1>8. ASSUME NEW k \in 1 .. m + 1
      PROVE  es[k] = DigitOf(c, xx[k]) /\ W[k] = W[k - 1] * BaseOf(c) + xx[k]
  <2>1. CASE k <= m
    <3>1. k \in 1 .. m /\ k - 1 \in 0 .. m + 1 /\ k - 1 <= m
      BY <1>3, <2>1
    <3>2. xx[k] = x[k] /\ W[k] = V[k] /\ W[k - 1] = V[k - 1]
      BY <1>3, <2>1, <3>1
    <3> QED BY <1>4, <1>5, <3>1, <3>2
  <2>2. CASE ~(k <= m)
    <3>1. k = m + 1 /\ k - 1 = m /\ m <= m /\ m \in 0 .. m + 1
      BY <1>3, <2>2
    <3>2. xx[k] = y /\ W[k] = v * BaseOf(c) + y /\ W[k - 1] = v
      BY <1>3, <1>5, <2>2, <3>1
    <3> QED BY <1>4, <3>1, <3>2
  <2> QED BY <2>1, <2>2
<1> HIDE DEF xx, W
<1>9. Spelling(c, es, xx, W)
  BY <1>4, <1>6, <1>7, <1>8 DEF Spelling
<1>10. Spells(c, es, v * BaseOf(c) + y)
  BY <1>4, <1>7, <1>9 DEF Spells
<1> QED BY <1>10 DEF es

LEMMA SpellsPadded ==
  ASSUME NEW c, NEW ds, NEW v, Spells(c, ds, v), NEW p \in Nat
  PROVE  Spells(c, [i \in 1 .. p |-> 48] \o ds, v)
<1>1. ds \in Seq(Nat)
  BY DEF Spells
<1>2. PICK x, V : Spelling(c, ds, x, V) /\ V[Len(ds)] = v
  BY DEF Spells
<1> DEFINE m == Len(ds)
           zs == [i \in 1 .. p |-> 48]
           es == zs \o ds
           xx == [k \in 1 .. p + m |-> IF k <= p THEN 0 ELSE x[k - p]]
           W == [k \in 0 .. p + m |-> IF k <= p THEN 0 ELSE V[k - p]]
<1>3. m \in Nat
  BY <1>1
<1>4. zs \in Seq(Nat) /\ Len(zs) = p
  OBVIOUS
<1>5. /\ es \in Seq(Nat) /\ Len(es) = p + m
      /\ \A k \in 1 .. p + m : es[k] = IF k <= p THEN 48 ELSE ds[k - p]
  <2>1. \A k \in 1 .. p : zs[k] = 48
    OBVIOUS
  <2> HIDE DEF zs
  <2> QED BY <1>1, <1>4, <2>1, SMTT(30)
<1>6. /\ x \in [1 .. m -> 0 .. BaseOf(c) - 1] /\ V \in [0 .. m -> Nat] /\ V[0] = 0 /\ V[m] = v
      /\ \A k \in 1 .. m : ds[k] = DigitOf(c, x[k]) /\ V[k] = V[k - 1] * BaseOf(c) + x[k]
  BY <1>2 DEF Spelling
<1> HIDE DEF m, es
<1>7. xx \in [1 .. p + m -> 0 .. BaseOf(c) - 1]
  <2>1. ASSUME NEW k \in 1 .. p + m PROVE xx[k] \in 0 .. BaseOf(c) - 1
    <3>1. CASE k <= p
      BY <3>1, BaseIs
    <3>2. CASE ~(k <= p)
      <4>1. k - p \in 1 .. m
        BY <1>3, <3>2
      <4> QED BY <1>6, <3>2, <4>1
    <3> QED BY <3>1, <3>2
  <2> QED BY <2>1
<1>8. W \in [0 .. p + m -> Nat] /\ W[0] = 0 /\ W[p + m] = v
  <2>1. ASSUME NEW k \in 0 .. p + m PROVE W[k] \in Nat
    <3>1. CASE k <= p
      BY <3>1
    <3>2. CASE ~(k <= p)
      <4>1. k - p \in 0 .. m
        BY <1>3, <3>2
      <4> QED BY <1>6, <3>2, <4>1
    <3> QED BY <3>1, <3>2
  <2>2. W[p + m] = v
    <3>1. CASE m = 0
      BY <1>3, <1>6, <3>1
    <3>2. CASE m # 0
      <4>1. ~(p + m <= p) /\ (p + m) - p = m /\ p + m \in 0 .. p + m
        BY <1>3, <3>2
      <4> QED BY <1>6, <4>1
    <3> QED BY <3>1, <3>2
  <2>3. W[0] = 0
    BY <1>3
  <2> HIDE DEF W
  <2>4. W \in [0 .. p + m -> Nat]
    BY <2>1 DEF W
  <2> QED BY <2>2, <2>3, <2>4
<1>9. ASSUME NEW k \in 1 .. p + m
      PROVE  es[k] = DigitOf(c, xx[k]) /\ W[k] = W[k - 1] * BaseOf(c) + xx[k]
  <2>1. CASE k <= p
    <3>1. k - 1 \in 0 .. p + m /\ k - 1 <= p
      BY <1>3, <2>1
    <3>2. xx[k] = 0 /\ W[k] = 0 /\ W[k - 1] = 0 /\ es[k] = 48
      BY <1>3, <1>5, <2>1, <3>1
    <3>3. DigitOf(c, 0) = 48 /\ 0 = 0 * BaseOf(c) + 0
      BY BaseIs DEF DigitOf
    <3> QED BY <3>2, <3>3
  <2>2. CASE ~(k <= p)
    <3>1. k - p \in 1 .. m /\ k - 1 \in 0 .. p + m /\ (k - 1) - p = (k - p) - 1
      BY <1>3, <2>2
    <3>2. xx[k] = x[k - p] /\ W[k] = V[k - p] /\ es[k] = ds[k - p]
      BY <1>3, <1>5, <2>2
    <3>3. W[k - 1] = V[(k - p) - 1]
      <4>1. CASE k - 1 <= p
        <5>1. (k - p) - 1 = 0
          BY <2>2, <3>1, <4>1
        <5> QED BY <1>6, <3>1, <4>1, <5>1
      <4>2. CASE ~(k - 1 <= p)
        BY <3>1, <4>2
      <4> QED BY <4>1, <4>2
    <3> HIDE DEF xx, W
    <3> QED BY <1>6, <3>1, <3>2, <3>3
  <2> QED BY <2>1, <2>2
<1> HIDE DEF xx, W
<1>10. Spelling(c, es, xx, W)
  BY <1>5, <1>7, <1>8, <1>9 DEF Spelling
<1>11. Spells(c, es, v)
  BY <1>5, <1>8, <1>10 DEF Spells
<1> QED BY <1>11 DEF es

(* What codes digits have.                                                 *)
LEMMA DigitIs ==
  ASSUME NEW c, NEW y \in 0 .. BaseOf(c) - 1
  PROVE  /\ y \in Nat /\ y < 16
         /\ y < 10 => DigitOf(c, y) = 48 + y
         /\ ~(y < 10) => BaseOf(c) = 16 /\ DigitOf(c, y) = IF c = "X" THEN 55 + y ELSE 87 + y
<1>1. BaseOf(c) \in {10, 16}
  BY BaseIs
<1>2. y \in Nat /\ y < 16
  BY <1>1
<1>3. ASSUME ~(y < 10)
      PROVE  BaseOf(c) = 16 /\ DigitOf(c, y) = IF c = "X" THEN 55 + y ELSE 87 + y
  <2>1. CASE c = "X"
    BY <1>1, <1>2, <1>3, <2>1 DEF DigitOf
  <2>2. CASE c # "X"
    BY <1>1, <1>2, <1>3, <2>2 DEF DigitOf
  <2> QED BY <2>1, <2>2
<1> QED BY <1>2, <1>3 DEF DigitOf

(* Digits spell a number and are digits of the base.                       *)
LEMMA Spelled ==
  ASSUME NEW c, NEW ds, NEW v, Spells(c, ds, v)
  PROVE  /\ ds \in Seq(Nat) /\ v \in Nat
         /\ \A k \in 1 .. Len(ds) :
              \/ ds[k] \in 48 .. 57
              \/ BaseOf(c) = 16 /\ ds[k] \in (IF c = "X" THEN 65 .. 70 ELSE 97 .. 102)
<1>1. ds \in Seq(Nat)
  BY DEF Spells
<1>2. PICK x, V : Spelling(c, ds, x, V) /\ V[Len(ds)] = v
  BY DEF Spells
<1>3. v \in Nat
  <2>1. Len(ds) \in 0 .. Len(ds)
    BY <1>1
  <2> QED BY <1>2, <2>1 DEF Spelling
<1>4. ASSUME NEW k \in 1 .. Len(ds)
      PROVE  \/ ds[k] \in 48 .. 57
             \/ BaseOf(c) = 16 /\ ds[k] \in (IF c = "X" THEN 65 .. 70 ELSE 97 .. 102)
  <2>1. x[k] \in 0 .. BaseOf(c) - 1 /\ ds[k] = DigitOf(c, x[k])
    BY <1>2 DEF Spelling
  <2> DEFINE y == x[k]
             b == ds[k]
  <2>2. /\ y \in Nat /\ y < 16
        /\ y < 10 => b = 48 + y
        /\ ~(y < 10) => BaseOf(c) = 16 /\ b = IF c = "X" THEN 55 + y ELSE 87 + y
    BY <2>1, DigitIs
  <2> HIDE DEF y, b
  <2>3. CASE y < 10
    <3>1. b \in 48 .. 57
      BY <2>2, <2>3
    <3> QED BY <3>1 DEF b
  <2>4. CASE ~(y < 10) /\ c = "X"
    <3>1. b \in 65 .. 70 /\ BaseOf(c) = 16
      BY <2>2, <2>4
    <3> QED BY <2>4, <3>1 DEF b
  <2>5. CASE ~(y < 10) /\ c # "X"
    <3>1. b \in 97 .. 102 /\ BaseOf(c) = 16
      BY <2>2, <2>5
    <3> QED BY <2>5, <3>1 DEF b
  <2> QED BY <2>3, <2>4, <2>5
<1> QED BY <1>1, <1>3, <1>4

(* Digits are worth what they spell.                                       *)
LEMMA WorthOfSpelled ==
  ASSUME NEW ds, NEW v, Spells(printing.conv, ds, v)
  PROVE  Worth(ds) = v
<1>1. ds \in Seq(Nat)
  BY DEF Spells
<1>2. PICK x, V : Spelling(printing.conv, ds, x, V) /\ V[Len(ds)] = v
  BY DEF Spells
<1>3. base = BaseOf(printing.conv)
  BY DEF base, BaseOf
<1>4. Code["0"] = 48 /\ Code["9"] = 57 /\ Code["a"] = 97 /\ Code["A"] = 65
  BY CodeAssumption
<1>5. ASSUME NEW k \in 1 .. Len(ds) PROVE ValueOf(ds[k]) = x[k] /\ x[k] \in Nat
  <2>1. /\ x[k] \in 0 .. BaseOf(printing.conv) - 1
        /\ ds[k] = DigitOf(printing.conv, x[k])
    BY <1>2 DEF Spelling
  <2> DEFINE y == x[k]
             b == ds[k]
  <2>2. /\ y \in Nat /\ y < 16
        /\ y < 10 => b = 48 + y
        /\ ~(y < 10) => b = IF printing.conv = "X" THEN 55 + y ELSE 87 + y
    BY <2>1, DigitIs
  <2> HIDE DEF y, b
  <2>3. CASE y < 10
    <3>1. IsDigit(b)
      BY <1>4, <2>2, <2>3 DEF IsDigit
    <3> QED BY <1>4, <2>2, <2>3, <3>1 DEF ValueOf, y, b
  <2>4. CASE ~(y < 10) /\ printing.conv = "X"
    <3>1. ~IsDigit(b) /\ ~(b >= Code["a"])
      BY <1>4, <2>2, <2>4 DEF IsDigit
    <3> QED BY <1>4, <2>2, <2>4, <3>1 DEF ValueOf, y, b
  <2>5. CASE ~(y < 10) /\ printing.conv # "X"
    <3>1. ~IsDigit(b) /\ b >= Code["a"]
      BY <1>4, <2>2, <2>5 DEF IsDigit
    <3> QED BY <1>4, <2>2, <2>5, <3>1 DEF ValueOf, y, b
  <2> QED BY <2>3, <2>4, <2>5
<1>6. WorthReading(V, ds)
  BY <1>2, <1>3, <1>5 DEF WorthReading, Spelling
<1>7. \A k \in 1 .. Len(ds) : ValueOf(ds[k]) \in Nat
  BY <1>5
<1> QED BY <1>1, <1>2, <1>6, <1>7, WorthReads

(* hex2int reads upper-case hexadecimal digits as what they spell, if an   *)
(* int has room for them.                                                  *)
LEMMA HexOfSpelled ==
  ASSUME NEW ds, NEW v, Spells("X", ds, v), v < IntWords
  PROVE  hex2int(ds) = v
<1>1. ds \in Seq(Nat)
  BY DEF Spells
<1>2. PICK x, V : Spelling("X", ds, x, V) /\ V[Len(ds)] = v
  BY DEF Spells
<1> DEFINE m == Len(ds)
           P == Power(16)
           H == [k \in 0 .. m |-> V[k] * P[m - k]]
<1>3. m \in Nat
  BY <1>1
<1>4. \A k \in 0 .. m : m - k \in Nat /\ P[m - k] \in Nat
  BY <1>3, PowersOf, 16 \in Nat, 16 > 0
<1>5. \A k \in 1 .. m : P[m - (k - 1)] = 16 * P[m - k]
  <2>1. ASSUME NEW k \in 1 .. m PROVE m - k \in Nat /\ m - (k - 1) = (m - k) + 1
    BY <1>3
  <2> QED BY <2>1, PowersOf, 16 \in Nat, 16 > 0
<1>6. P[0] = 1
  BY PowersOf, 16 \in Nat, 16 > 0
<1>7. /\ V \in [0 .. m -> Nat] /\ V[0] = 0 /\ V[m] = v
      /\ \A k \in 1 .. m : V[k] = V[k - 1] * 16 + x[k]
  BY <1>2 DEF Spelling, BaseOf
<1>8. ASSUME NEW k \in 1 .. m PROVE HexOf(ds[k]) = x[k] /\ x[k] \in Nat
  <2>1. x[k] \in 0 .. BaseOf("X") - 1 /\ ds[k] = DigitOf("X", x[k])
    BY <1>2 DEF Spelling
  <2>2. CASE x[k] < 10
    BY <2>1, <2>2, DigitIs DEF HexOf
  <2>3. CASE ~(x[k] < 10)
    BY <2>1, <2>3, DigitIs DEF HexOf
  <2> QED BY <2>2, <2>3
<1> HIDE DEF m, P
<1>9. H \in [0 .. m -> Nat] /\ H[0] = 0 /\ H[m] = v
  <2>1. ASSUME NEW k \in 0 .. m PROVE V[k] * P[m - k] \in Nat
    BY <1>4, <1>7
  <2>2. 0 \in 0 .. m /\ m \in 0 .. m /\ m - m = 0
    BY <1>3
  <2>3. v * 1 = v /\ \A y \in Nat : 0 * y = 0
    <3>1. v \in Nat
      BY <1>7, <2>2
    <3> QED BY <3>1
  <2> QED BY <1>4, <1>6, <1>7, <2>1, <2>2, <2>3
<1>10. ASSUME NEW k \in 1 .. m PROVE H[k] = H[k - 1] + HexOf(ds[k]) * P[m - k]
  <2>1. k \in 0 .. m /\ k - 1 \in 0 .. m
    BY <1>3
  <2>2. H[k] = (V[k - 1] * 16 + x[k]) * P[m - k] /\ H[k - 1] = V[k - 1] * (16 * P[m - k])
    BY <1>5, <1>7, <2>1
  <2>3. \A a, b, e \in Nat : (a * 16 + b) * e = a * (16 * e) + b * e
    OBVIOUS
  <2>4. V[k - 1] \in Nat /\ P[m - k] \in Nat
    BY <1>4, <1>7, <2>1
  <2> HIDE DEF H
  <2> QED BY <1>8, <2>2, <2>3, <2>4
<1> HIDE DEF H
<1>11. HexReading(H, ds)
  BY <1>9, <1>10 DEF HexReading, m, P
<1>12. \A k \in 1 .. Len(ds) : HexOf(ds[k]) \in Nat
  BY <1>8 DEF m
<1>13. hex2int(ds) = v % IntWords
  BY <1>1, <1>9, <1>11, <1>12, HexReads DEF m
<1>14. v \in Nat
  BY <1>3, <1>7, m \in 0 .. m
<1> QED BY <1>13, <1>14, Words

(* atoi reads decimal digits as what they spell, if that is an int.        *)
LEMMA AtoiOfSpelled ==
  ASSUME NEW c, BaseOf(c) = 10, NEW ds, NEW v, Spells(c, ds, v), v < IntWords
  PROVE  AtoiOf(ds) = v
<1>1. ds \in Seq(Nat)
  BY DEF Spells
<1>2. PICK x, V : Spelling(c, ds, x, V) /\ V[Len(ds)] = v
  BY DEF Spells
<1> DEFINE m == Len(ds)
<1>3. m \in Nat
  BY <1>1
<1>4. /\ V \in [0 .. m -> Nat] /\ V[0] = 0 /\ V[m] = v
      /\ \A k \in 1 .. m : /\ x[k] \in 0 .. BaseOf(c) - 1 /\ ds[k] = DigitOf(c, x[k])
                           /\ V[k] = V[k - 1] * BaseOf(c) + x[k]
  BY <1>2 DEF Spelling
<1> HIDE DEF m
<1>5. \A k \in 1 .. m : x[k] \in 0 .. 9 /\ ds[k] = 48 + x[k] /\ V[k] = V[k - 1] * 10 + x[k]
  <2>1. ASSUME NEW k \in 1 .. m PROVE x[k] \in 0 .. 9 /\ ds[k] = 48 + x[k]
    <3>1. x[k] \in 0 .. BaseOf(c) - 1 /\ ds[k] = DigitOf(c, x[k])
      BY <1>4
    <3>2. x[k] \in 0 .. 9
      BY <3>1
    <3>3. ds[k] = 48 + x[k]
      BY <3>1, <3>2, DigitIs
    <3> QED BY <3>2, <3>3
  <2> QED BY <1>4, <2>1
<1>6. \A k \in 0 .. m : V[k] <= v
  <2> DEFINE T == {j \in Nat : j <= m => V[m - j] <= v}
  <2>1. 0 \in T
    BY <1>3, <1>4, m - 0 = m, m \in 0 .. m
  <2>2. ASSUME NEW j \in Nat, j \in T PROVE j + 1 \in T
    <3> SUFFICES ASSUME j + 1 <= m PROVE V[m - (j + 1)] <= v
      BY j + 1 \in Nat
    <3>1. m - j \in 1 .. m /\ m - (j + 1) = (m - j) - 1 /\ (m - j) - 1 \in 0 .. m
      BY <1>3
    <3>2. V[m - j] <= v
      BY <1>3, <2>2
    <3>3. /\ V[m - j] = V[(m - j) - 1] * 10 + x[m - j]
          /\ V[(m - j) - 1] \in Nat /\ x[m - j] \in 0 .. 9 /\ v \in Nat
      BY <1>3, <1>4, <1>5, <3>1, m \in 0 .. m
    <3> QED BY <3>1, <3>2, <3>3
  <2> HIDE DEF T
  <2>3. \A j \in Nat : j \in T
    BY <2>1, <2>2, Induction
  <2>4. ASSUME NEW k \in 0 .. m PROVE V[k] <= v
    <3>1. m - k \in Nat /\ m - k <= m /\ m - (m - k) = k
      BY <1>3
    <3> QED BY <2>3, <3>1 DEF T
  <2> QED BY <2>4
<1>7. ASSUME NEW k \in 1 .. m PROVE V[k] = (V[k - 1] * 10 + ds[k] - Code["0"]) % IntWords
  <2>1. k \in 0 .. m /\ k - 1 \in 0 .. m
    BY <1>3
  <2>2. V[k - 1] * 10 + ds[k] - 48 = V[k]
    <3>1. V[k] = V[k - 1] * 10 + x[k] /\ ds[k] = 48 + x[k] /\ x[k] \in 0 .. 9
      BY <1>5
    <3>2. V[k - 1] \in Nat
      BY <1>4, <2>1
    <3> QED BY <3>1, <3>2
  <2>3. V[k] \in Nat /\ V[k] < IntWords
    BY <1>3, <1>4, <1>6, <2>1, Words, m \in 0 .. m
  <2>4. V[k] % IntWords = V[k]
    BY <2>3, Words
  <2> QED BY <2>2, <2>4, CodeZero
<1>8. AtoiReading(V, ds)
  BY <1>4, <1>7 DEF AtoiReading, m
<1>9. ASSUME NEW k \in 1 .. Len(ds) PROVE IsDigit(ds[k])
  <2>1. Code["0"] = 48 /\ Code["9"] = 57
    BY CodeAssumption
  <2>2. ds[k] = 48 + x[k] /\ x[k] \in 0 .. 9
    BY <1>4, <1>5 DEF m
  <2> DEFINE y == x[k]
             b == ds[k]
  <2>3. y \in 0 .. 9 /\ b = 48 + y
    BY <2>2
  <2> HIDE DEF y, b
  <2>4. b \in 48 .. 57
    BY <2>3
  <2> QED BY <2>1, <2>4 DEF IsDigit, b
<1> QED BY <1>1, <1>4, <1>8, <1>9, AtoiReads DEF m

(* atoi skips the spaces before digits.                                    *)
LEMMA AtoiSkips ==
  ASSUME NEW f \in Seq(Nat), NEW q \in 0 .. Len(f) - 1, \A i \in 1 .. q : f[i] = 32,
         \A i \in q + 1 .. Len(f) : f[i] \in 48 .. 57
  PROVE  atoi(f) = AtoiOf(From(f, q + 1))
<1>1. Code[" "] = 32 /\ Code["0"] = 48 /\ Code["9"] = 57
  BY CodeAssumption
<1> DEFINE spaces == Leading(f, LAMBDA c : c = Code[" "])
           g == From(f, Len(spaces) + 1)
           digits == Leading(g, IsDigit)
<1>2. Len(spaces) = q
  <2> DEFINE I == {i \in 1 .. Len(f) : ~(f[i] \in {32})}
             i == IF I # {} THEN Min(I) ELSE 0
  <2>1. I = {k \in 1 .. Len(f) : ~(f[k] = Code[" "])}
    BY <1>1
  <2>2. spaces = IF i = 0 THEN f ELSE SubSeq(f, 1, i - 1)
    BY <2>1 DEF Leading, SelectInSeq
  <2>3. Beginning(IF i = 0 THEN f ELSE SubSeq(f, 1, i - 1), f, {32})
    BY BeginningIs
  <2> HIDE DEF i
  <2>4. PICK j \in 0 .. Len(f) : /\ spaces = SubSeq(f, 1, j) /\ \A k \in 1 .. j : f[k] \in {32}
                                 /\ j < Len(f) => f[j + 1] \notin {32}
    BY <2>2, <2>3 DEF Beginning
  <2> HIDE DEF spaces
  <2>5. ~(j < q)
    <3> SUFFICES ASSUME j < q PROVE FALSE
      OBVIOUS
    <3>1. j + 1 \in 1 .. q /\ j < Len(f)
      OBVIOUS
    <3> QED BY <2>4, <3>1
  <2>6. ~(q < j)
    <3> SUFFICES ASSUME q < j PROVE FALSE
      OBVIOUS
    <3>1. q + 1 \in 1 .. j /\ q + 1 \in q + 1 .. Len(f)
      OBVIOUS
    <3>2. f[q + 1] = 32 /\ f[q + 1] \in 48 .. 57
      BY <2>4, <3>1
    <3> QED BY <3>2
  <2> QED BY <2>4, <2>5, <2>6
<1> HIDE DEF spaces
<1>3. q + 1 \in Nat \ {0} /\ g = From(f, q + 1)
  BY <1>2
<1>4. /\ g \in Seq(Nat) /\ Len(g) = Len(f) - q
      /\ \A k \in 1 .. Len(g) : g[k] = f[q + k]
  <2>1. /\ From(f, q + 1) \in Seq(Nat)
        /\ Len(From(f, q + 1)) = Len(f) - (q + 1) + 1
        /\ \A k \in 1 .. Len(From(f, q + 1)) : From(f, q + 1)[k] = f[q + 1 + k - 1]
    BY <1>3, FromIs
  <2> QED BY <1>3, <2>1
<1> HIDE DEF g
<1>5. digits = g
  <2> DEFINE I == {i \in 1 .. Len(g) : ~(g[i] \in 48 .. 57)}
             i == IF I # {} THEN Min(I) ELSE 0
  <2>1. I = {k \in 1 .. Len(g) : ~IsDigit(g[k])}
    BY <1>1 DEF IsDigit
  <2>2. digits = IF i = 0 THEN g ELSE SubSeq(g, 1, i - 1)
    BY <2>1 DEF Leading, SelectInSeq
  <2>3. I = {}
    <3>1. ASSUME NEW k \in 1 .. Len(g) PROVE g[k] \in 48 .. 57
      <4>1. q + k \in q + 1 .. Len(f)
        BY <1>4
      <4> QED BY <1>4, <4>1
    <3> QED BY <3>1
  <2> QED BY <2>2, <2>3
<1>6. atoi(f) = AtoiOf(digits)
  BY DEF atoi, AtoiOf, digits, g, spaces
<1> QED BY <1>3, <1>5, <1>6
-----------------------------------------------------------------------------
(* The field of a number: padding, a sign and digits.                      *)
Negative(c, v) == c = "d" /\ SignedInt(v) < 0
Sign(c, v) == IF Negative(c, v) THEN <<45>> ELSE <<>>
Mag(c, v) == IF Negative(c, v) THEN IntWords - v ELSE v
Number(s, c, v) ==
  \E ds : /\ s = Sign(c, v) \o ds
          /\ Spells(c, ds, Mag(c, v)) /\ ds # <<>> /\ (ds[1] = 48 => Len(ds) = 1)
PadsOf(s, w) == IF Len(s) < w THEN w - Len(s) ELSE 0
Filler(lz) == IF lz THEN 48 ELSE 32
Padded(s, w, lz) == [i \in 1 .. PadsOf(s, w) |-> Filler(lz)] \o s
NumberField(f, c, v, lz, w) == \E s : Number(s, c, v) /\ f = Padded(s, w, lz)

(* The magnitude is an int; with a minus it is at most half the words.     *)
LEMMA MagIs ==
  ASSUME NEW c, NEW v \in Ints
  PROVE  /\ Mag(c, v) \in Ints /\ Sign(c, v) \in Seq(Nat)
         /\ Negative(c, v) => /\ Sign(c, v) = <<45>> /\ Mag(c, v) = -SignedInt(v)
                              /\ Mag(c, v) <= IntWords \div 2
         /\ ~Negative(c, v) => Sign(c, v) = <<>> /\ Mag(c, v) = v
<1>1. v \in Nat /\ v < IntWords
  BY Words DEF Ints
<1>2. CASE Negative(c, v)
  <2>1. SignedInt(v) = v - IntWords /\ ~(v < IntWords \div 2)
    BY <1>1, <1>2, Words DEF Negative, SignedInt
  <2> QED BY <1>1, <1>2, <2>1, Words DEF Mag, Sign, Ints
<1>3. CASE ~Negative(c, v)
  BY <1>3 DEF Mag, Sign
<1> QED BY <1>2, <1>3

(* A padded number: its padding, itself, and its length.                   *)
LEMMA PaddedIs ==
  ASSUME NEW s \in Seq(Nat), NEW w \in Nat, NEW lz \in BOOLEAN
  PROVE  LET f == Padded(s, w, lz)
             p == PadsOf(s, w)
         IN  /\ p \in Nat /\ f \in Seq(Nat) /\ Len(f) = p + Len(s)
             /\ \A i \in 1 .. p : f[i] = Filler(lz)
             /\ \A i \in 1 .. Len(s) : f[p + i] = s[i]
             /\ Len(f) >= w /\ (p > 0 => Len(f) = w)
             /\ From(f, p + 1) = s
<1> DEFINE f == Padded(s, w, lz)
           p == PadsOf(s, w)
           g == [i \in 1 .. p |-> Filler(lz)]
<1>1. p \in Nat /\ p + Len(s) >= w /\ (p > 0 => p + Len(s) = w)
  BY DEF PadsOf
<1>2. f = g \o s
  BY DEF Padded
<1>3. Filler(lz) \in Nat
  BY DEF Filler
<1> HIDE DEF p, f
<1>4. g \in Seq(Nat) /\ Len(g) = p /\ \A i \in 1 .. p : g[i] = Filler(lz)
  BY <1>1, <1>3
<1> HIDE DEF g
<1>5. /\ f \in Seq(Nat) /\ Len(f) = p + Len(s)
      /\ \A i \in 1 .. p : f[i] = Filler(lz)
      /\ \A i \in 1 .. Len(s) : f[p + i] = s[i]
  BY <1>1, <1>2, <1>4, SMTT(30)
<1>6. From(f, p + 1) = s
  <2>1. p + 1 \in Nat \ {0}
    BY <1>1
  <2>2. /\ From(f, p + 1) \in Seq(Nat) /\ Len(From(f, p + 1)) = Len(s)
        /\ \A k \in 1 .. Len(s) : From(f, p + 1)[k] = f[p + k]
    <3>1. /\ From(f, p + 1) \in Seq(Nat)
          /\ Len(From(f, p + 1)) = IF p + 1 <= Len(f) THEN Len(f) - (p + 1) + 1 ELSE 0
          /\ \A k \in 1 .. Len(From(f, p + 1)) : From(f, p + 1)[k] = f[(p + 1) + k - 1]
      BY <1>5, <2>1, FromIs, ZenonT(40)
    <3>2. Len(From(f, p + 1)) = Len(s)
      BY <1>1, <1>5, <3>1
    <3>3. \A k \in 1 .. Len(s) : (p + 1) + k - 1 = p + k
      BY <1>1
    <3> QED BY <3>1, <3>2, <3>3
  <2>3. \A k \in 1 .. Len(s) : From(f, p + 1)[k] = s[k]
    BY <1>5, <2>2
  <2> QED BY <2>2, <2>3, SameSequence
<1> QED BY <1>1, <1>5, <1>6 DEF f, p

(* What the conversion of a number prints is that number, and read back is *)
(* that number.                                                            *)
LEMMA FieldIsRight ==
  ASSUME printing.conv \in Numeric, NEW v \in Ints, printing.arg = <<v>>,
         printing.lz \in BOOLEAN, printing.w \in Nat,
         NEW f, NumberField(f, printing.conv, v, printing.lz, printing.w)
  PROVE  IsRight(f) /\ ReadsBack(f)
<1> DEFINE c == printing.conv
<1>1. PICK s : Number(s, c, v) /\ f = Padded(s, printing.w, printing.lz)
  BY DEF NumberField
<1>2. PICK ds : /\ s = Sign(c, v) \o ds
                /\ Spells(c, ds, Mag(c, v)) /\ ds # <<>> /\ (ds[1] = 48 => Len(ds) = 1)
  BY <1>1 DEF Number
<1> DEFINE p == PadsOf(s, printing.w)
<1>3. /\ Code["0"] = 48 /\ Code["9"] = 57 /\ Code[" "] = 32 /\ Code["-"] = 45
      /\ Code["a"] = 97 /\ Code["A"] = 65
  BY CodeAssumption
<1>4. v \in Nat /\ v < IntWords /\ printing.arg[1] = v
  BY Words DEF Ints
<1>5. /\ Mag(c, v) \in Ints /\ Sign(c, v) \in Seq(Nat)
      /\ Negative(c, v) => Sign(c, v) = <<45>> /\ Mag(c, v) = -SignedInt(v)
      /\ ~Negative(c, v) => Sign(c, v) = <<>> /\ Mag(c, v) = v
  BY MagIs
<1>6. /\ ds \in Seq(Nat)
      /\ \A k \in 1 .. Len(ds) :
           \/ ds[k] \in 48 .. 57
           \/ BaseOf(c) = 16 /\ ds[k] \in (IF c = "X" THEN 65 .. 70 ELSE 97 .. 102)
  BY <1>2, Spelled
<1>7. s \in Seq(Nat)
  BY <1>2, <1>5, <1>6
<1>8. /\ p \in Nat /\ f \in Seq(Nat) /\ Len(f) = p + Len(s)
      /\ \A i \in 1 .. p : f[i] = Filler(printing.lz)
      /\ \A i \in 1 .. Len(s) : f[p + i] = s[i]
      /\ Len(f) >= printing.w /\ (p > 0 => Len(f) = printing.w)
      /\ From(f, p + 1) = s
  BY <1>1, <1>7, PaddedIs
<1> HIDE DEF p
<1>9. Argument = IF c = "d" THEN SignedInt(v) ELSE v
  BY <1>4 DEF Argument
<1>10. SignedInt(v) \in Int /\ (SignedInt(v) >= 0 => SignedInt(v) = v)
  BY <1>4, Words DEF SignedInt
<1>11. Negative(c, v) <=> Argument < 0
  BY <1>4, <1>9, <1>10 DEF Negative
<1>12. Len(ds) \in Nat \ {0} /\ 1 \in 1 .. Len(ds)
  BY <1>2, <1>6
<1>13. base = BaseOf(c)
  BY DEF base, BaseOf
<1>14. \A k \in 1 .. Len(ds) : ds[k] # 45
  <2>1. ASSUME NEW k \in 1 .. Len(ds) PROVE ds[k] # 45
    <3>1. ds[k] \in 48 .. 57 \/ ds[k] \in 65 .. 70 \/ ds[k] \in 97 .. 102
      BY <1>6
    <3>2. CASE ds[k] \in 48 .. 57
      BY <3>2
    <3>3. CASE ds[k] \in 65 .. 70
      BY <3>3
    <3>4. CASE ds[k] \in 97 .. 102
      BY <3>4
    <3> QED BY <3>1, <3>2, <3>3, <3>4
  <2> QED BY <2>1
<1>17. <<>> \o ds = ds
  BY <1>6
<1>15. IsRight(f)
  <2> DEFINE minus == s # <<>> /\ s[1] = Code["-"]
             digits == IF minus THEN Tail(s) ELSE s
  <2>1. (minus <=> Argument < 0) /\ digits = ds
    <3>1. CASE Negative(c, v)
      <4>1. s = <<45>> \o ds
        BY <1>2, <1>5, <3>1
      <4>2. s # <<>> /\ s[1] = 45 /\ Tail(s) = ds
        BY <1>6, <4>1
      <4> QED BY <1>3, <1>11, <3>1, <4>2
    <3>2. CASE ~Negative(c, v)
      <4>1. s = ds
        BY <1>2, <1>5, <1>17, <3>2
      <4>2. s[1] # 45
        BY <1>12, <1>14, <4>1
      <4>3. ~minus /\ digits = ds
        BY <1>3, <4>1, <4>2
      <4> QED BY <1>11, <3>2, <4>3
    <3> QED BY <3>1, <3>2
  <2>2. Mag(c, v) = IF minus THEN -Argument ELSE Argument
    <3>1. CASE Negative(c, v)
      BY <1>5, <1>9, <1>11, <2>1, <3>1 DEF Negative
    <3>2. CASE ~Negative(c, v)
      <4>1. Argument = v
        BY <1>4, <1>9, <1>10, <3>2 DEF Negative
      <4> QED BY <1>5, <1>11, <2>1, <3>2, <4>1
    <3> QED BY <3>1, <3>2
  <2> HIDE DEF minus, digits
  <2>3. Worth(digits) = IF minus THEN -Argument ELSE Argument
    BY <1>2, <2>1, <2>2, WorthOfSpelled
  <2>4. \A i \in DOMAIN digits : IsDigit(digits[i]) \/ (base = 16 /\ IsLetter(digits[i]))
    <3>1. ASSUME NEW i \in 1 .. Len(ds)
          PROVE  IsDigit(ds[i]) \/ (base = 16 /\ IsLetter(ds[i]))
      <4>1. CASE ds[i] \in 48 .. 57
        BY <1>3, <4>1 DEF IsDigit
      <4>2. CASE BaseOf(c) = 16 /\ ds[i] \in (IF c = "X" THEN 65 .. 70 ELSE 97 .. 102)
        <5>1. CASE c = "X"
          <6>1. ds[i] \in 65 .. 70
            BY <4>2, <5>1
          <6> DEFINE first == Code[IF printing.conv = "X" THEN "A" ELSE "a"]
          <6>2. first = 65
            BY <1>3, <5>1
          <6>3. ds[i] \in first .. first + 5
            <7> HIDE DEF first
            <7> QED BY <6>1, <6>2
          <6>4. IsLetter(ds[i])
            BY <6>3 DEF IsLetter
          <6> QED BY <1>13, <4>2, <6>4
        <5>2. CASE c # "X"
          <6>1. ds[i] \in 97 .. 102
            BY <4>2, <5>2
          <6> DEFINE first == Code[IF printing.conv = "X" THEN "A" ELSE "a"]
          <6>2. first = 97
            BY <1>3, <5>2
          <6>3. ds[i] \in first .. first + 5
            <7> HIDE DEF first
            <7> QED BY <6>1, <6>2
          <6>4. IsLetter(ds[i])
            BY <6>3 DEF IsLetter
          <6> QED BY <1>13, <4>2, <6>4
        <5> QED BY <5>1, <5>2
      <4> QED BY <1>6, <4>1, <4>2
    <3>2. DOMAIN digits = 1 .. Len(ds)
      BY <1>6, <2>1
    <3> QED BY <2>1, <3>1, <3>2
  <2>5. digits # <<>> /\ (digits[1] = Code["0"] => Len(digits) = 1)
    BY <1>2, <1>3, <2>1
  <2>6. \A i \in 1 .. p : f[i] = Code[IF printing.lz THEN "0" ELSE " "]
    <3>1. Filler(printing.lz) = Code[IF printing.lz THEN "0" ELSE " "]
      <4>1. CASE printing.lz
        BY <1>3, <4>1 DEF Filler
      <4>2. CASE ~printing.lz
        BY <1>3, <4>2 DEF Filler
      <4> QED BY <4>1, <4>2
    <3> QED BY <1>8, <3>1
  <2>7. p \in 0 .. Len(f)
    BY <1>7, <1>8
  <2> QED BY <1>8, <2>1, <2>3, <2>4, <2>5, <2>6, <2>7 DEF IsRight, minus, digits
<1>16. ReadsBack(f)
  <2>1. ASSUME ~Negative(c, v)
        PROVE  s = ds /\ Mag(c, v) = v /\ Argument = v
    <3>1. Argument = v
      BY <1>4, <1>9, <1>10, <2>1 DEF Negative
    <3> QED BY <1>2, <1>5, <1>6, <2>1, <3>1, SMTT(30)
  <2>2. ASSUME ~Negative(c, v), printing.lz \/ p = 0
        PROVE  Spells(c, f, v)
    <3>1. Spells(c, ds, v) /\ s = ds
      BY <1>2, <2>1, <2>2
    <3>2. f = [i \in 1 .. p |-> Filler(printing.lz)] \o ds
      BY <1>1, <3>1 DEF Padded, p
    <3>3. CASE printing.lz
      <4>1. Filler(printing.lz) = 48
        BY <3>3 DEF Filler
      <4> QED BY <1>8, <3>1, <3>2, <4>1, SpellsPadded
    <3>4. CASE p = 0
      <4>1. f = ds
        <5>1. From(f, 1) = s
          BY <1>8, <3>4
        <5>2. From(f, 1) = f
          BY <1>8 DEF From
        <5> QED BY <3>1, <5>1, <5>2
      <4> QED BY <3>1, <4>1
    <3> QED BY <2>2, <3>3, <3>4
  <2>3. ASSUME c = "X", Code[" "] \notin ToSet(f)
        PROVE  hex2int(f) = Argument
    <3>1. ~Negative(c, v)
      BY <2>3 DEF Negative
    <3>2. printing.lz \/ p = 0
      <4> SUFFICES ASSUME ~printing.lz, p # 0 PROVE FALSE
        OBVIOUS
      <4>1. 1 \in 1 .. p /\ 1 \in DOMAIN f
        BY <1>7, <1>8
      <4>2. f[1] = 32
        BY <1>8, <4>1 DEF Filler
      <4>3. f[1] = Code[" "]
        BY <1>3, <4>2
      <4>4. f[1] \notin ToSet(f)
        BY <2>3, <4>3
      <4> QED BY <4>1, <4>4 DEF ToSet
    <3>3. Spells("X", f, v)
      BY <2>2, <2>3, <3>1, <3>2
    <3> QED BY <1>4, <2>1, <3>1, <3>3, HexOfSpelled
  <2>4. ASSUME c \in {"u", "d"}, Argument >= 0
        PROVE  atoi(f) = Argument
    <3>1. ~Negative(c, v) /\ BaseOf(c) = 10
      BY <1>4, <1>9, <1>10, <1>11, <2>4 DEF BaseOf
    <3>2. s = ds /\ Argument = v /\ Spells(c, ds, v)
      BY <1>2, <2>1, <3>1
    <3>3. \A k \in 1 .. Len(ds) : ds[k] \in 48 .. 57
      BY <1>6, <3>1
    <3> DEFINE q == IF printing.lz THEN 0 ELSE p
    <3>4. q \in Nat /\ q + 1 \in Nat \ {0} /\ q <= p
      BY <1>8
    <3>5. q \in 0 .. Len(f) - 1
      BY <1>8, <1>12, <3>2, <3>4
    <3>6. \A i \in 1 .. q : f[i] = 32
      BY <1>8 DEF Filler
    <3>7. ASSUME NEW i \in q + 1 .. Len(f) PROVE f[i] \in 48 .. 57
      <4>1. CASE i <= p
        <5>1. printing.lz /\ i \in 1 .. p
          BY <1>8, <3>4, <3>7, <4>1
        <5> QED BY <1>8, <5>1 DEF Filler
      <4>2. CASE ~(i <= p)
        <5>1. i - p \in 1 .. Len(ds) /\ p + (i - p) = i
          BY <1>6, <1>8, <3>2, <3>4, <3>7, <4>2
        <5>2. f[i] = ds[i - p]
          BY <1>8, <3>2, <5>1
        <5> QED BY <3>3, <5>1, <5>2
      <4> QED BY <4>1, <4>2
    <3>8. atoi(f) = AtoiOf(From(f, q + 1))
      <4> HIDE DEF q
      <4> QED BY <1>8, <3>5, <3>6, <3>7, AtoiSkips
    <3>9. Spells(c, From(f, q + 1), v)
      <4>1. CASE printing.lz
        <5>1. From(f, q + 1) = f
          BY <1>8, <4>1 DEF From
        <5> QED BY <2>2, <3>1, <4>1, <5>1
      <4>2. CASE ~printing.lz
        BY <1>8, <3>2, <4>2
      <4> QED BY <4>1, <4>2
    <3> HIDE DEF q
    <3> QED BY <1>4, <3>1, <3>2, <3>8, <3>9, AtoiOfSpelled
  <2> QED BY <2>3, <2>4 DEF ReadsBack
<1> QED BY <1>15, <1>16
-----------------------------------------------------------------------------
(* The arithmetic of ui2a.                                                 *)

LEMMA Dividing ==
  ASSUME NEW a \in Nat, NEW b \in Nat, b > 0
  PROVE  /\ a \div b \in Nat /\ a % b \in 0 .. b - 1
         /\ a = b * (a \div b) + (a % b)
  OBVIOUS

(* A quotient is at least e exactly if the dividend is at least e times    *)
(* the divisor.                                                            *)
LEMMA DividingBounds ==
  ASSUME NEW a \in Nat, NEW b \in Nat, b > 0, NEW e \in Nat
  PROVE  (a \div b >= e => e * b <= a) /\ (a \div b < e => a < e * b)
<1> DEFINE q == a \div b
           r == a % b
<1>1. q \in Nat /\ r \in 0 .. b - 1 /\ a = b * q + r
  BY Dividing
<1> HIDE DEF q, r
<1>2. ASSUME q >= e PROVE e * b <= a
  <2>1. PICK j \in Nat : q = e + j
    <3>1. q - e \in Nat /\ q = e + (q - e)
      BY <1>1, <1>2
    <3> QED BY <3>1
  <2>2. b * q = e * b + b * j
    BY <2>1
  <2>3. b * j \in Nat /\ e * b \in Nat
    BY <2>1
  <2> QED BY <1>1, <2>2, <2>3
<1>3. ASSUME q < e PROVE a < e * b
  <2>1. PICK j \in Nat : e = q + 1 + j
    <3>1. e - q - 1 \in Nat /\ e = q + 1 + (e - q - 1)
      BY <1>1, <1>3
    <3> QED BY <3>1
  <2>2. e * b = b * q + b + b * j
    BY <1>1, <2>1
  <2>3. b * j \in Nat /\ b * q \in Nat
    BY <1>1, <2>1
  <2> QED BY <1>1, <2>2, <2>3
<1> QED BY <1>2, <1>3 DEF q

(* The powers of ten grow, and are no greater than those of sixteen.       *)
LEMMA PowersGrow ==
  /\ \A i, j \in Nat : i <= j => Power(10)[i] <= Power(10)[j]
  /\ \A k \in Nat : Power(10)[k] <= Power(16)[k]
<1>1. ASSUME NEW i \in Nat, NEW j \in Nat, i <= j PROVE Power(10)[i] <= Power(10)[j]
  <2> DEFINE T == {k \in Nat : Power(10)[i] <= Power(10)[i + k]}
  <2>1. 0 \in T
    <3>1. Power(10)[i] \in Nat /\ i + 0 = i
      BY PowersOf, 10 \in Nat, 10 > 0
    <3> QED BY <3>1
  <2>2. ASSUME NEW k \in Nat, k \in T PROVE k + 1 \in T
    <3>1. /\ Power(10)[i] \in Nat /\ Power(10)[i + k] \in Nat
          /\ Power(10)[(i + k) + 1] = 10 * Power(10)[i + k]
      <4> DEFINE m == i + k
      <4>1. m \in Nat
        OBVIOUS
      <4> HIDE DEF m
      <4>2. /\ Power(10)[i] \in Nat /\ Power(10)[m] \in Nat
            /\ Power(10)[m + 1] = 10 * Power(10)[m]
        BY <4>1, PowersOf, 10 \in Nat, 10 > 0
      <4> QED BY <4>2 DEF m
    <3>2. Power(10)[i] <= Power(10)[i + k]
      BY <2>2
    <3>3. i + (k + 1) = (i + k) + 1
      OBVIOUS
    <3> QED BY <3>1, <3>2, <3>3
  <2> HIDE DEF T
  <2>3. j - i \in T
    BY <1>1, <2>1, <2>2, Induction, j - i \in Nat
  <2>4. i + (j - i) = j
    OBVIOUS
  <2> QED BY <2>3, <2>4 DEF T
<1>2. \A k \in Nat : Power(10)[k] <= Power(16)[k]
  <2> DEFINE T == {k \in Nat : Power(10)[k] <= Power(16)[k]}
  <2>1. 0 \in T
    <3>1. Power(10)[0] = 1 /\ Power(16)[0] = 1
      BY PowersOf, 10 \in Nat, 10 > 0, 16 \in Nat, 16 > 0
    <3> QED BY <3>1
  <2>2. ASSUME NEW k \in Nat, k \in T PROVE k + 1 \in T
    <3>1. /\ Power(10)[k] \in Nat /\ Power(16)[k] \in Nat
          /\ Power(10)[k + 1] = 10 * Power(10)[k] /\ Power(16)[k + 1] = 16 * Power(16)[k]
      BY PowersOf, 10 \in Nat, 10 > 0, 16 \in Nat, 16 > 0
    <3> QED BY <2>2, <3>1
  <2> HIDE DEF T
  <2>3. \A k \in Nat : k \in T
    BY <2>1, <2>2, Induction
  <2> QED BY <2>3 DEF T
<1> QED BY <1>1, <1>2

(* A number below a power of ten has no more digits than that.             *)
LEMMA DigitsFit ==
  ASSUME NEW b \in {10, 16}, NEW k \in Nat, NEW m \in Nat, NEW v \in Nat,
         Power(b)[k] <= v, v < Power(10)[m]
  PROVE  k < m
<1>1. Power(10)[k] \in Nat /\ Power(16)[k] \in Nat /\ Power(10)[m] \in Nat
  BY PowersOf, 10 \in Nat, 10 > 0, 16 \in Nat, 16 > 0
<1>2. Power(10)[k] <= Power(b)[k]
  <2>1. CASE b = 10
    BY <1>1, <2>1
  <2>2. CASE b = 16
    BY <2>2, PowersGrow
  <2> QED BY <2>1, <2>2
<1>3. Power(b)[k] \in Nat
  BY <1>1
<1>4. Power(10)[k] < Power(10)[m]
  BY <1>1, <1>2, <1>3
<1> SUFFICES ASSUME m <= k PROVE FALSE
  OBVIOUS
<1>5. Power(10)[m] <= Power(10)[k]
  BY PowersGrow
<1> QED BY <1>1, <1>4, <1>5

LEMMA BasePowers ==
  ASSUME NEW c, NEW b, b = BaseOf(c)
  PROVE  /\ b \in {10, 16} /\ Power(b)[0] = 1
         /\ \A k \in Nat : /\ Power(b)[k] \in Nat /\ Power(b)[k] > 0
                           /\ Power(b)[k + 1] = b * Power(b)[k]
<1>1. b \in {10, 16}
  BY BaseIs
<1>2. b \in Nat /\ b > 0
  BY <1>1
<1> QED BY <1>1, <1>2, PowersOf

(* A number of k + 1 digits and its sign fit in bf with the final 0.       *)
LEMMA SpaceForDigits ==
  ASSUME NEW c, NEW v \in Ints, NEW k \in Nat,
         k = 0 \/ Power(BaseOf(c))[k] <= Mag(c, v)
  PROVE  k + 1 + Len(Sign(c, v)) < BufferSize
<1>1. /\ Mag(c, v) \in Ints
      /\ Negative(c, v) => Sign(c, v) = <<45>> /\ Mag(c, v) <= IntWords \div 2
      /\ ~Negative(c, v) => Sign(c, v) = <<>>
  BY MagIs
<1>2. Len(Sign(c, v)) = IF Negative(c, v) THEN 1 ELSE 0
  BY <1>1
<1>3. /\ BufferSize \in Nat /\ BufferSize > 2
      /\ IntWords <= Power(10)[BufferSize - 1]
      /\ IntWords \div 2 < Power(10)[BufferSize - 2]
  BY PrintingAssumption
<1>4. BufferSize - 1 \in Nat /\ BufferSize - 2 \in Nat
  BY <1>3
<1>5. Power(10)[BufferSize - 1] \in Nat /\ Power(10)[BufferSize - 2] \in Nat
  BY <1>4, PowersOf, 10 \in Nat, 10 > 0
<1>6. Mag(c, v) \in Nat /\ Mag(c, v) < IntWords /\ IntWords \in Nat /\ IntWords \div 2 \in Nat
  BY <1>1, Words DEF Ints
<1>7. CASE k = 0
  BY <1>1, <1>2, <1>3, <1>7
<1>8. CASE Power(BaseOf(c))[k] <= Mag(c, v)
  <2>1. CASE Negative(c, v)
    <3>1. Mag(c, v) < Power(10)[BufferSize - 2]
      BY <1>1, <1>3, <1>5, <1>6, <2>1
    <3>2. k < BufferSize - 2
      BY <1>4, <1>6, <1>8, <3>1, BaseIs, DigitsFit
    <3> QED BY <1>1, <1>2, <1>3, <2>1, <3>2
  <2>2. CASE ~Negative(c, v)
    <3>1. Mag(c, v) < Power(10)[BufferSize - 1]
      BY <1>3, <1>5, <1>6
    <3>2. k < BufferSize - 1
      BY <1>4, <1>6, <1>8, <3>1, BaseIs, DigitsFit
    <3> QED BY <1>1, <1>2, <1>3, <2>2, <3>2
  <2> QED BY <2>1, <2>2
<1> QED BY <1>7, <1>8
-----------------------------------------------------------------------------
(* printf: the inductive invariant.  A call has read no conversion yet, or *)
(* is at its number or its string, or is past it.                          *)
Bytes == Seq(0 .. 255)

Calls ==
  [pc : {"format", "grow", "digits", "pad", "return"}, fmt : Formats, arg : Seq(Nat),
   rest : Seq(Characters), lz : BOOLEAN, w : Nat, conv : Characters \union {"NUL"}]

Quiet == left = 0 /\ d = 0 /\ n = 0 /\ bf = <<>>
LastRead == "%" \notin ToSet(printing.rest)
RestOf(f) == Conversion(Tail(f)).rest

BeforeConversion ==
  /\ printing.pc \in {"format", "return"} /\ printing.conv = "NUL" /\ Quiet
  /\ \E j \in 1 .. Len(printing.fmt) + 1 :
       /\ printing.rest = From(printing.fmt, j)
       /\ \A i \in 1 .. j - 1 : printing.fmt[i] # "%"
       /\ j = 1 => out = <<>>

(* ui2a has found d to be a power of the base no greater than the number,  *)
(* or 1.                                                                   *)
Growing(v) ==
  /\ printing.pc = "grow" /\ n = 0
  /\ bf = Sign(printing.conv, v) /\ left = Mag(printing.conv, v)
  /\ \E k \in Nat : d = Power(BaseOf(printing.conv))[k] /\ (k = 0 \/ d <= left)

(* bf spells q: the number but for what is left.                           *)
Partly(v, ds, q, k) ==
  LET b == BaseOf(printing.conv) IN
  /\ bf = Sign(printing.conv, v) \o ds /\ Spells(printing.conv, ds, q) /\ n = Len(ds)
  /\ d = Power(b)[k] /\ d < IntWords
  /\ left \in Nat /\ left < b * d /\ Mag(printing.conv, v) = q * (b * d) + left
  /\ n = 0 => q = 0 /\ (k = 0 \/ d <= left)
  /\ n > 0 => ds[1] # 48
  /\ n + k + 1 + Len(Sign(printing.conv, v)) < BufferSize

Writing(v) ==
  printing.pc = "digits" /\ \E ds : \E q, k \in Nat : Partly(v, ds, q, k)

Written(v) ==
  /\ printing.pc \in {"digits", "pad"} /\ d = 0 /\ left = 0 /\ n \in 0 .. BufferSize
  /\ Number(bf, printing.conv, v) /\ Len(bf) < BufferSize

ConvertingNumber ==
  /\ printing.conv \in Numeric /\ LastRead
  /\ printing.fmt[1] = "%" => out = <<>> /\ printing.rest = RestOf(printing.fmt)
  /\ \E v \in Ints : printing.arg = <<v>> /\ (Growing(v) \/ Writing(v) \/ Written(v))

ConvertingString ==
  /\ printing.pc = "pad" /\ printing.conv = "s" /\ LastRead
  /\ bf \in Bytes /\ left = 0 /\ d = 0 /\ n = 0

(* The field, and what the format has after it.                            *)
FieldPrinted(v, f, g) ==
  /\ f \in Bytes /\ g \in Bytes /\ out = f \o g
  /\ Len(g) + Len(printing.rest) = Len(RestOf(printing.fmt))
  /\ NumberField(f, printing.conv, v, printing.lz, printing.w)

AfterConversion ==
  /\ printing.pc \in {"format", "return"} /\ Quiet /\ LastRead
  /\ printing.conv \in Numeric =>
       /\ printing.pc = "return" => printing.rest = <<>>
       /\ \E v \in Ints :
            /\ printing.arg = <<v>>
            /\ printing.fmt[1] = "%" => \E f, g : FieldPrinted(v, f, g)

Calling ==
  /\ printing \in Calls /\ printing.arg \in Arguments(printing.fmt) /\ out \in Bytes
  /\ BeforeConversion \/ ConvertingNumber \/ ConvertingString \/ AfterConversion

PrintingInv == (printing = NoPrinting /\ Quiet /\ out = <<>>) \/ Calling

LEMMA BytesAppend ==
  ASSUME NEW a \in Bytes, NEW b \in Bytes, NEW x \in 0 .. 255
  PROVE  /\ Append(a \o b, x) = a \o Append(b, x)
         /\ Append(b, x) \in Bytes /\ Len(Append(b, x)) = Len(b) + 1
<1> DEFINE S == 0 .. 255
<1>1. a \in Seq(S) /\ b \in Seq(S) /\ x \in S /\ Bytes = Seq(S)
  BY DEF Bytes
<1> HIDE DEF S
<1> QED BY <1>1, AppendAfter, SMTT(30)

(* What a caller passes is a string for %s and an int for the others.      *)
LEMMA ArgumentsAre ==
  ASSUME NEW f \in Formats, NEW a \in Arguments(f)
  PROVE  /\ a \in Seq(Nat)
         /\ IF Percent(f) # 0 /\ Conversion(From(f, Percent(f) + 1)).conv = "s"
            THEN a \in Bytes ELSE \E v \in Ints : a = <<v>>
<1>1. CASE Percent(f) # 0 /\ Conversion(From(f, Percent(f) + 1)).conv = "s"
  <2>1. a \in Bytes
    BY <1>1, FormatsAssumption DEF Arguments, Bytes
  <2>2. a \in Seq(Nat)
    <3>1. 0 .. 255 \subseteq Nat
      OBVIOUS
    <3> QED BY <2>1, <3>1, SequenceOfMore, ZenonT(40) DEF Bytes
  <2> QED BY <1>1, <2>1, <2>2
<1>2. CASE ~(Percent(f) # 0 /\ Conversion(From(f, Percent(f) + 1)).conv = "s")
  <2>1. PICK v \in Ints : a = <<v>>
    BY <1>2 DEF Arguments
  <2>2. v \in Nat
    BY Words DEF Ints
  <2>3. a \in Seq(Nat)
    BY <2>1, <2>2
  <2> QED BY <1>2, <2>1, <2>3
<1> QED BY <1>1, <1>2

(* The call: nothing has been read of the format.                          *)
LEMMA CallPrintfKeeps ==
  ASSUME PrintingInv, NEW f \in Formats, NEW a \in Arguments(f), CallPrintf(f, a)
  PROVE  PrintingInv'
<1>1. printing = NoPrinting /\ Quiet
  BY DEF PrintingInv, Calling, Calls, CallPrintf
<1>2. /\ printing' = [NoPrinting EXCEPT !.pc = "format", !.fmt = f, !.arg = a, !.rest = f]
      /\ out' = <<>> /\ Quiet'
  BY <1>1 DEF CallPrintf, Quiet
<1>3. f \in Seq(Characters)
  BY FormatsAssumption
<1>4. /\ printing'.pc = "format" /\ printing'.fmt = f /\ printing'.arg = a
      /\ printing'.rest = f /\ printing'.conv = "NUL"
  BY <1>2 DEF NoPrinting
<1>5. (printing \in Calls)'
  BY <1>2, <1>3, ArgumentsAre DEF NoPrinting, Calls
<1>6. f = From(f, 1) /\ 1 \in 1 .. Len(f) + 1
  BY <1>3 DEF From
<1>7. BeforeConversion'
  BY <1>2, <1>4, <1>6 DEF BeforeConversion
<1>8. (out \in Bytes)'
  BY <1>2 DEF Bytes
<1> QED BY <1>4, <1>5, <1>7, <1>8 DEF PrintingInv, Calling

(* At the % of its format, a call has all of its argument still to print.  *)
LEMMA AtPercent ==
  ASSUME PrintingInv, printing.pc = "format", printing.rest # <<>>, Head(printing.rest) = "%"
  PROVE  LET c == Conversion(Tail(printing.rest))
             f == printing.fmt
         IN  /\ printing \in Calls /\ out \in Bytes /\ Quiet
             /\ printing.arg \in Arguments(f) /\ printing.arg \in Seq(Nat)
             /\ c.lz \in BOOLEAN /\ c.w \in Nat /\ c.conv \in Characters \union {"NUL"}
             /\ c.rest \in Seq(Characters) /\ "%" \notin ToSet(c.rest)
             /\ IF c.conv = "s" THEN printing.arg \in Bytes
                ELSE \E v \in Ints : printing.arg = <<v>>
             /\ f[1] = "%" => out = <<>> /\ c.rest = RestOf(f)
<1> DEFINE f == printing.fmt
           c == Conversion(Tail(printing.rest))
<1>1. Calling
  BY DEF PrintingInv, NoPrinting
<1>2. printing.rest \in Seq(Characters) /\ f \in Formats /\ printing.arg \in Arguments(f)
  BY <1>1 DEF Calling, Calls
<1>3. f \in Seq(Characters)
  BY <1>2, FormatsAssumption
<1>4. BeforeConversion
  <2>1. ~LastRead
    <3>1. 1 \in DOMAIN printing.rest /\ printing.rest[1] = "%"
      BY <1>2
    <3> QED BY <3>1 DEF LastRead, ToSet
  <2> QED BY <1>1, <2>1 DEF Calling, ConvertingNumber, ConvertingString, AfterConversion
<1>5. PICK j \in 1 .. Len(f) + 1 :
        /\ printing.rest = From(f, j)
        /\ \A i \in 1 .. j - 1 : f[i] # "%"
        /\ j = 1 => out = <<>>
  BY <1>4 DEF BeforeConversion
<1> HIDE DEF f
<1>6. j \in 1 .. Len(f) /\ f[j] = "%" /\ Tail(printing.rest) = From(f, j + 1)
  <2>1. j \in Nat \ {0} /\ j + 1 \in Nat \ {0}
    BY <1>3
  <2>2. /\ Len(printing.rest) = IF j <= Len(f) THEN Len(f) - j + 1 ELSE 0
        /\ \A k \in 1 .. Len(printing.rest) : printing.rest[k] = f[j + k - 1]
    BY <1>3, <1>5, <2>1, FromIs
  <2>3. Len(printing.rest) \in Nat \ {0} /\ printing.rest[1] = "%"
    BY <1>2
  <2>4. j <= Len(f)
    BY <1>3, <2>2, <2>3
  <2>5. f[j] = "%"
    <3>1. 1 \in 1 .. Len(printing.rest) /\ j + 1 - 1 = j
      BY <2>1, <2>3
    <3> QED BY <2>2, <2>3, <3>1
  <2>6. Tail(printing.rest) = From(f, j + 1)
    BY <1>3, <1>5, <2>1, <2>4 DEF From
  <2> QED BY <1>3, <2>4, <2>5, <2>6
<1>7. Percent(f) = j /\ Percent(f) # 0
  BY <1>3, <1>5, <1>6, PercentIs
<1>8. c = Conversion(From(f, Percent(f) + 1)) /\ From(f, Percent(f) + 1) \in Seq(Characters)
  <2>1. Percent(f) + 1 \in Nat \ {0}
    BY <1>7
  <2> QED BY <1>3, <1>6, <1>7, <2>1, FromIs
<1>9. "%" \notin ToSet(c.rest)
  BY <1>2, <1>7, <1>8, FormatsAssumption DEF f
<1>10. /\ c.lz \in BOOLEAN /\ c.w \in Nat /\ c.conv \in Characters \union {"NUL"}
       /\ c.rest \in Seq(Characters)
  BY <1>8, ConversionIs
<1>11. /\ printing.arg \in Seq(Nat)
       /\ IF c.conv = "s" THEN printing.arg \in Bytes ELSE \E v \in Ints : printing.arg = <<v>>
  <2>1. /\ printing.arg \in Seq(Nat)
        /\ IF Percent(f) # 0 /\ Conversion(From(f, Percent(f) + 1)).conv = "s"
           THEN printing.arg \in Bytes ELSE \E v \in Ints : printing.arg = <<v>>
    BY <1>2, ArgumentsAre DEF f
  <2> QED BY <1>7, <1>8, <2>1
<1>12. ASSUME f[1] = "%" PROVE out = <<>> /\ c.rest = RestOf(f)
  <2>1. j = 1
    <3> SUFFICES ASSUME j # 1 PROVE FALSE
      OBVIOUS
    <3>1. 1 \in 1 .. j - 1
      BY <1>3
    <3> QED BY <1>5, <1>12, <3>1
  <2>2. Tail(printing.rest) = Tail(f)
    BY <1>3, <1>6, <2>1, SMTT(30) DEF From
  <2> QED BY <1>5, <2>1, <2>2 DEF RestOf
<1> QED BY <1>1, <1>2, <1>4, <1>9, <1>10, <1>11, <1>12 DEF Calling, BeforeConversion, f

(* A character before the conversion, or after it, is printed as it is.    *)
LEMMA PutPlainKeeps ==
  ASSUME PrintingInv, PutPlain
  PROVE  PrintingInv'
<1> DEFINE f == printing.fmt
           c == Head(printing.rest)
<1>1. /\ printing.pc = "format" /\ printing.rest # <<>> /\ c # "%"
      /\ out' = Append(out, Code[c]) /\ printing' = [printing EXCEPT !.rest = Tail(@)]
      /\ UNCHANGED <<left, d, n, bf>>
  BY DEF PutPlain
<1>2. Calling
  BY <1>1 DEF PrintingInv, NoPrinting
<1>3. /\ printing \in Calls /\ printing.arg \in Arguments(f) /\ out \in Bytes
      /\ printing.rest \in Seq(Characters) /\ f \in Seq(Characters)
  BY <1>2, FormatsAssumption DEF Calling, Calls
<1>4. c = printing.rest[1] /\ c \in Characters /\ Tail(printing.rest) \in Seq(Characters)
  BY <1>1, <1>3
<1>5. Code[c] \in 0 .. 255
  BY <1>4, CodeAssumption
<1>6. (out \in Bytes)'
  <2>1. Append(out, Code[c]) \in Bytes
    BY <1>3, <1>5, BytesAppend
  <2> QED BY <1>1, <2>1 DEF Bytes
<1>7. /\ (printing \in Calls)' /\ printing'.pc = printing.pc /\ printing'.fmt = printing.fmt
      /\ printing'.arg = printing.arg /\ printing'.rest = Tail(printing.rest)
      /\ printing'.lz = printing.lz /\ printing'.w = printing.w /\ printing'.conv = printing.conv
  BY <1>1, <1>3, <1>4 DEF Calls
<1>8. CASE BeforeConversion
  <2>1. PICK j \in 1 .. Len(f) + 1 :
          /\ printing.rest = From(f, j)
          /\ \A i \in 1 .. j - 1 : f[i] # "%"
          /\ j = 1 => out = <<>>
    BY <1>8 DEF BeforeConversion
  <2>2. j \in Nat \ {0} /\ j + 1 \in Nat \ {0}
    BY <1>3
  <2> HIDE DEF f, c
  <2>3. /\ Len(printing.rest) = IF j <= Len(f) THEN Len(f) - j + 1 ELSE 0
        /\ \A k \in 1 .. Len(printing.rest) : printing.rest[k] = f[j + k - 1]
    BY <1>3, <2>1, <2>2, FromIs
  <2>4. Len(printing.rest) \in Nat \ {0}
    BY <1>1, <1>3
  <2>5. j <= Len(f) /\ j + 1 \in 1 .. Len(f) + 1
    BY <1>3, <2>3, <2>4
  <2>6. c = f[j]
    <3>1. 1 \in 1 .. Len(printing.rest) /\ j + 1 - 1 = j
      BY <2>2, <2>4
    <3> QED BY <1>4, <2>3, <3>1
  <2>7. Tail(printing.rest) = From(f, j + 1)
    BY <1>3, <2>1, <2>2, <2>5 DEF From
  <2>8. \A i \in 1 .. (j + 1) - 1 : f[i] # "%"
    <3>1. ASSUME NEW i \in 1 .. (j + 1) - 1 PROVE f[i] # "%"
      <4>1. i \in 1 .. j - 1 \/ i = j
        BY <1>3
      <4> QED BY <1>1, <2>1, <2>6, <4>1
    <3> QED BY <3>1
  <2>9. j + 1 # 1
    BY <2>2
  <2>10. BeforeConversion'
    BY <1>1, <1>7, <1>8, <2>5, <2>7, <2>8, <2>9 DEF BeforeConversion, Quiet, f
  <2> QED BY <1>3, <1>6, <1>7, <2>10 DEF PrintingInv, Calling, f
<1>9. CASE AfterConversion
  <2>1. LastRead'
    <3>1. "%" \notin ToSet(Tail(printing.rest))
      <4>1. \A i \in 1 .. Len(printing.rest) : printing.rest[i] # "%"
        BY <1>3, <1>9 DEF AfterConversion, LastRead, ToSet
      <4>2. \A i \in 1 .. Len(Tail(printing.rest)) : /\ i + 1 \in 1 .. Len(printing.rest)
                                                    /\ Tail(printing.rest)[i] = printing.rest[i + 1]
        BY <1>1, <1>3
      <4>3. \A i \in DOMAIN Tail(printing.rest) : Tail(printing.rest)[i] # "%"
        BY <1>4, <4>1, <4>2
      <4> QED BY <4>3 DEF ToSet
    <3> QED BY <1>7, <3>1 DEF LastRead
  <2>2. ASSUME printing.conv \in Numeric
        PROVE  \E v \in Ints :
                 /\ printing.arg = <<v>>
                 /\ f[1] = "%" => \E e, g : FieldPrinted(v, e, g)'
    <3>1. PICK v \in Ints : /\ printing.arg = <<v>>
                            /\ f[1] = "%" => \E e, g : FieldPrinted(v, e, g)
      BY <1>9, <2>2 DEF AfterConversion
    <3>2. ASSUME f[1] = "%" PROVE \E e, g : FieldPrinted(v, e, g)'
      <4>1. PICK e, g : FieldPrinted(v, e, g)
        BY <3>1, <3>2
      <4>0. PICK h : h = Append(g, Code[c])
        OBVIOUS
      <4>2. e \in Bytes /\ g \in Bytes /\ out = e \o g
        BY <4>1 DEF FieldPrinted
      <4>3. h \in Bytes /\ Len(h) = Len(g) + 1 /\ out' = e \o h
        <5> DEFINE x == Code[c]
        <5>1. x \in 0 .. 255 /\ h = Append(g, x) /\ out' = Append(out, x)
          BY <1>1, <1>5, <4>0
        <5> HIDE DEF x
        <5>2. Append(e \o g, x) = e \o h /\ h \in Bytes /\ Len(h) = Len(g) + 1
          BY <4>2, <5>1, BytesAppend, ZenonT(40)
        <5> QED BY <4>2, <5>1, <5>2
      <4>4. /\ Len(Tail(printing.rest)) + 1 = Len(printing.rest)
            /\ Len(g) \in Nat /\ Len(Tail(printing.rest)) \in Nat
        BY <1>1, <1>3, <4>2 DEF Bytes
      <4>5. Len(g) + Len(printing.rest) = Len(RestOf(f))
        BY <4>1 DEF FieldPrinted
      <4>6. Len(h) + Len(Tail(printing.rest)) = Len(RestOf(f))
        <5> DEFINE lh == Len(h)
                   lg == Len(g)
                   lt == Len(Tail(printing.rest))
                   lr == Len(printing.rest)
                   l == Len(RestOf(f))
        <5>1. lh = lg + 1 /\ lt + 1 = lr /\ lg \in Nat /\ lt \in Nat /\ lg + lr = l
          BY <4>3, <4>4, <4>5
        <5> HIDE DEF lh, lg, lt, lr, l
        <5>2. lh + lt = l
          BY <5>1
        <5> QED BY <5>2 DEF lh, lt, l
      <4>7. NumberField(e, printing'.conv, v, printing'.lz, printing'.w)
        BY <1>7, <4>1 DEF FieldPrinted
      <4>8. FieldPrinted(v, e, h)'
        <5>1. RestOf(printing.fmt)' = RestOf(f)
          BY <1>7
        <5>2. Len(h) + Len(printing'.rest) = Len(RestOf(f))
          BY <1>7, <4>6
        <5> QED BY <4>2, <4>3, <4>7, <5>1, <5>2 DEF FieldPrinted
      <4> QED BY <4>8
    <3> QED BY <3>1, <3>2
  <2>3. AfterConversion'
    BY <1>1, <1>7, <1>9, <2>1, <2>2 DEF AfterConversion, Quiet
  <2> QED BY <1>3, <1>6, <1>7, <2>3 DEF PrintingInv, Calling
<1>10. BeforeConversion \/ AfterConversion
  BY <1>1, <1>2 DEF Calling, ConvertingNumber, ConvertingString, Growing, Writing, Written
<1> QED BY <1>8, <1>9, <1>10

(* What a conversion c leaves of a call that carries on at pc.             *)
LEMMA Converted ==
  ASSUME PrintingInv, NEW c, c = Conversion(Tail(printing.rest)), NEW pc,
         pc \in {"format", "grow", "pad", "return"}, Convert(c, pc)
  PROVE  /\ (printing \in Calls)' /\ (printing.arg \in Arguments(printing.fmt))'
         /\ LastRead' /\ Quiet /\ out \in Bytes
         /\ printing'.pc = pc /\ printing'.conv = c.conv /\ printing'.rest = c.rest
         /\ printing'.arg = printing.arg /\ printing'.fmt = printing.fmt
         /\ IF c.conv = "s" THEN printing.arg \in Bytes
            ELSE \E v \in Ints : printing.arg = <<v>>
         /\ printing.fmt[1] = "%" => out = <<>> /\ c.rest = RestOf(printing.fmt)
<1>1. /\ printing.pc = "format" /\ printing.rest # <<>> /\ Head(printing.rest) = "%"
      /\ printing' = [printing EXCEPT !.pc = pc, !.lz = c.lz /\ c.conv # "s", !.w = c.w,
                                      !.conv = c.conv, !.rest = c.rest]
  BY DEF Convert
<1>2. /\ printing \in Calls /\ out \in Bytes /\ Quiet
      /\ printing.arg \in Arguments(printing.fmt)
      /\ c.lz \in BOOLEAN /\ c.w \in Nat /\ c.conv \in Characters \union {"NUL"}
      /\ c.rest \in Seq(Characters) /\ "%" \notin ToSet(c.rest)
      /\ IF c.conv = "s" THEN printing.arg \in Bytes
         ELSE \E v \in Ints : printing.arg = <<v>>
      /\ printing.fmt[1] = "%" => out = <<>> /\ c.rest = RestOf(printing.fmt)
  BY <1>1, AtPercent
<1>3. (c.lz /\ c.conv # "s") \in BOOLEAN
  BY <1>2
<1>4. /\ printing' \in Calls /\ printing'.pc = pc /\ printing'.conv = c.conv
      /\ printing'.rest = c.rest /\ printing'.arg = printing.arg /\ printing'.fmt = printing.fmt
  BY <1>1, <1>2, <1>3, ZenonT(40) DEF Calls
<1>5. (printing \in Calls)'
  BY <1>4 DEF Calls
<1>6. (printing.arg \in Arguments(printing.fmt))'
  BY <1>2, <1>4 DEF Arguments
<1>7. LastRead'
  BY <1>2, <1>4 DEF LastRead
<1> QED BY <1>2, <1>4, <1>5, <1>6, <1>7

(* ui2a begins with the magnitude, i2a having written the sign.            *)
LEMMA StartNumberKeeps ==
  ASSUME PrintingInv, StartNumber
  PROVE  PrintingInv'
<1>1. PICK c : c = Conversion(Tail(printing.rest))
  OBVIOUS
<1>2. /\ Convert(c, "grow") /\ c.conv \in Numeric /\ UNCHANGED out /\ d' = 1 /\ n' = 0
      /\ left' = IF c.conv = "d" /\ SignedInt(printing.arg[1]) < 0
                 THEN IntWords - printing.arg[1] ELSE printing.arg[1]
      /\ bf' = IF c.conv = "d" /\ SignedInt(printing.arg[1]) < 0 THEN <<Code["-"]>> ELSE <<>>
  BY <1>1 DEF StartNumber
<1>3. /\ (printing \in Calls)' /\ (printing.arg \in Arguments(printing.fmt))'
      /\ LastRead' /\ Quiet /\ out \in Bytes
      /\ printing'.pc = "grow" /\ printing'.conv = c.conv /\ printing'.rest = c.rest
      /\ printing'.arg = printing.arg /\ printing'.fmt = printing.fmt
      /\ IF c.conv = "s" THEN printing.arg \in Bytes
         ELSE \E v \in Ints : printing.arg = <<v>>
      /\ printing.fmt[1] = "%" => out = <<>> /\ c.rest = RestOf(printing.fmt)
  BY <1>1, <1>2, Converted
<1>4. PICK v \in Ints : printing.arg = <<v>>
  <2>1. c.conv # "s"
    BY <1>2 DEF Numeric
  <2> QED BY <1>3, <2>1
<1>5. Code["-"] = 45
  BY CodeAssumption
<1>6. left' = Mag(c.conv, v) /\ bf' = Sign(c.conv, v)
  BY <1>2, <1>4, <1>5 DEF Mag, Sign, Negative
<1>7. Growing(v)'
  <2>1. Power(BaseOf(c.conv))[0] = 1
    BY BasePowers
  <2> QED BY <1>2, <1>3, <1>6, <2>1, 0 \in Nat DEF Growing
<1>8. ConvertingNumber'
  BY <1>2, <1>3, <1>4, <1>7 DEF ConvertingNumber, RestOf
<1>9. (out \in Bytes)'
  BY <1>2, <1>3 DEF Bytes
<1> QED BY <1>3, <1>8, <1>9 DEF PrintingInv, Calling

LEMMA StartStringKeeps ==
  ASSUME PrintingInv, StartString
  PROVE  PrintingInv'
<1>1. PICK c : c = Conversion(Tail(printing.rest))
  OBVIOUS
<1>2. /\ Convert(c, "pad") /\ c.conv = "s" /\ bf' = printing.arg
      /\ UNCHANGED <<left, d, n, out>>
  BY <1>1 DEF StartString
<1>3. /\ (printing \in Calls)' /\ (printing.arg \in Arguments(printing.fmt))'
      /\ LastRead' /\ Quiet /\ out \in Bytes
      /\ printing'.pc = "pad" /\ printing'.conv = c.conv /\ printing.arg \in Bytes
  BY <1>1, <1>2, Converted
<1>4. (bf \in Bytes)' /\ (out \in Bytes)'
  BY <1>2, <1>3 DEF Bytes
<1>5. ConvertingString'
  BY <1>2, <1>3, <1>4 DEF ConvertingString, Quiet
<1> QED BY <1>3, <1>4, <1>5 DEF PrintingInv, Calling

LEMMA PutOtherKeeps ==
  ASSUME PrintingInv, PutOther
  PROVE  PrintingInv'
<1>1. PICK c : c = Conversion(Tail(printing.rest))
  OBVIOUS
<1>2. PICK pc : pc = IF c.conv = "NUL" THEN "return" ELSE "format"
  OBVIOUS
<1>3. /\ Convert(c, pc) /\ c.conv \notin Numeric \union {"s"} /\ UNCHANGED <<left, d, n, bf>>
      /\ out' = CASE c.conv = "c" -> Append(out, printing.arg[1] % 256)
                  [] c.conv = "%" -> Append(out, Code["%"])
                  [] OTHER        -> out
  BY <1>1, <1>2 DEF PutOther
<1>4. /\ (printing \in Calls)' /\ (printing.arg \in Arguments(printing.fmt))'
      /\ LastRead' /\ Quiet /\ out \in Bytes
      /\ printing'.pc = pc /\ printing'.conv = c.conv
      /\ IF c.conv = "s" THEN printing.arg \in Bytes
         ELSE \E v \in Ints : printing.arg = <<v>>
  BY <1>1, <1>2, <1>3, Converted
<1>5. (out \in Bytes)'
  <2>1. PICK v \in Ints : printing.arg = <<v>>
    BY <1>3, <1>4
  <2>2. printing.arg[1] % 256 \in 0 .. 255
    BY <2>1, Words DEF Ints
  <2>3. Code["%"] \in 0 .. 255
    BY CodeAssumption
  <2>4. \A x \in 0 .. 255 : Append(out, x) \in Bytes
    BY <1>4, BytesAppend
  <2>5. out' \in Bytes
    BY <1>3, <1>4, <2>2, <2>3, <2>4
  <2> QED BY <2>5 DEF Bytes
<1>6. AfterConversion'
  BY <1>2, <1>3, <1>4 DEF AfterConversion, Quiet
<1> QED BY <1>4, <1>5, <1>6 DEF PrintingInv, Calling

(* At the end of the format nothing of it is left.                         *)
LEMMA EndFormatKeeps ==
  ASSUME PrintingInv, EndFormat
  PROVE  PrintingInv'
<1>1. /\ printing.pc = "format" /\ printing.rest = <<>>
      /\ printing' = [printing EXCEPT !.pc = "return"] /\ UNCHANGED <<left, d, n, bf, out>>
  BY DEF EndFormat
<1>2. Calling
  BY <1>1 DEF PrintingInv, NoPrinting
<1>3. printing \in Calls /\ printing.arg \in Arguments(printing.fmt) /\ out \in Bytes
  BY <1>2 DEF Calling
<1>4. /\ printing' \in Calls /\ printing'.pc = "return" /\ printing'.conv = printing.conv
      /\ printing'.rest = printing.rest /\ printing'.arg = printing.arg
      /\ printing'.fmt = printing.fmt /\ printing'.lz = printing.lz /\ printing'.w = printing.w
  BY <1>1, <1>3 DEF Calls
<1>5. /\ (printing \in Calls)' /\ (out \in Bytes)'
      /\ (printing.arg \in Arguments(printing.fmt))'
  BY <1>1, <1>3, <1>4 DEF Calls, Bytes, Arguments
<1>6. CASE BeforeConversion
  <2>1. BeforeConversion'
    BY <1>1, <1>4, <1>6 DEF BeforeConversion, Quiet
  <2> QED BY <1>5, <2>1 DEF PrintingInv, Calling
<1>7. CASE AfterConversion
  <2>1. ASSUME printing.conv \in Numeric
        PROVE  \E v \in Ints :
                 /\ printing.arg = <<v>>
                 /\ printing.fmt[1] = "%" => \E f, g : FieldPrinted(v, f, g)'
    <3>1. PICK v \in Ints :
            /\ printing.arg = <<v>>
            /\ printing.fmt[1] = "%" => \E f, g : FieldPrinted(v, f, g)
      BY <1>7, <2>1 DEF AfterConversion
    <3>2. ASSUME NEW f, NEW g, FieldPrinted(v, f, g) PROVE FieldPrinted(v, f, g)'
      BY <1>1, <1>4, <3>2 DEF FieldPrinted, RestOf, Bytes
    <3> QED BY <3>1, <3>2
  <2>2. LastRead'
    BY <1>4, <1>7 DEF AfterConversion, LastRead
  <2>3. AfterConversion'
    BY <1>1, <1>4, <1>7, <2>1, <2>2 DEF AfterConversion, Quiet
  <2> QED BY <1>5, <2>3 DEF PrintingInv, Calling
<1>8. BeforeConversion \/ AfterConversion
  BY <1>1, <1>2 DEF Calling, ConvertingNumber, ConvertingString, Growing, Writing, Written
<1> QED BY <1>6, <1>7, <1>8

LEMMA ReturnPrintfKeeps ==
  ASSUME PrintingInv, ReturnPrintf
  PROVE  PrintingInv'
<1>1. /\ printing.pc = "return" /\ printing' = NoPrinting /\ out' = <<>>
      /\ UNCHANGED <<left, d, n, bf>>
  BY DEF ReturnPrintf
<1>2. Quiet
  BY <1>1 DEF PrintingInv, Calling, BeforeConversion, ConvertingNumber, ConvertingString,
              AfterConversion, Growing, Writing, Written
<1> QED BY <1>1, <1>2 DEF PrintingInv, Quiet, NoPrinting

(* While the quotient has another digit, d grows and is still no greater   *)
(* than the number; when the loop ends the number is less than d times the *)
(* base.                                                                   *)
LEMMA GrowKeeps ==
  ASSUME PrintingInv, Grow
  PROVE  PrintingInv'
<1>1. /\ printing.pc = "grow" /\ UNCHANGED <<left, n, bf, out>>
      /\ \/ Grows /\ d' = (d * base) % IntWords /\ UNCHANGED printing
         \/ ~Grows /\ printing' = [printing EXCEPT !.pc = "digits"] /\ UNCHANGED d
  BY DEF Grow
<1>2. Calling
  BY <1>1 DEF PrintingInv, NoPrinting
<1>3. printing \in Calls /\ printing.arg \in Arguments(printing.fmt) /\ out \in Bytes
  BY <1>2 DEF Calling
<1>4. ConvertingNumber
  BY <1>1, <1>2 DEF Calling, BeforeConversion, ConvertingString, AfterConversion
<1>5. PICK v \in Ints : printing.arg = <<v>> /\ Growing(v)
  BY <1>1, <1>4 DEF ConvertingNumber, Writing, Written
<1>6. PICK c : c = printing.conv
  OBVIOUS
<1>7. PICK b : b = BaseOf(c)
  OBVIOUS
<1>8. PICK k \in Nat : d = Power(b)[k] /\ (k = 0 \/ d <= left)
  BY <1>5, <1>6, <1>7 DEF Growing
<1>9. /\ b \in {10, 16} /\ d \in Nat /\ d > 0 /\ Power(b)[k + 1] = b * d
      /\ k = 0 => d = 1
  BY <1>7, <1>8, BasePowers
<1>10. /\ left = Mag(c, v) /\ left \in Nat /\ left < IntWords /\ n = 0 /\ bf = Sign(c, v)
       /\ IntWords \in Nat /\ IntWords > 1
  <2>1. Mag(c, v) \in Ints
    BY MagIs
  <2> QED BY <1>5, <1>6, <2>1, Words DEF Growing, Ints
<1>11. base = b
  BY <1>6, <1>7 DEF base, BaseOf
<1>12. (left \div d >= b => b * d <= left) /\ (left \div d < b => left < b * d)
       /\ left \div d \in Nat
  BY <1>9, <1>10, DividingBounds, Dividing
<1>13. CASE Grows /\ d' = (d * base) % IntWords /\ UNCHANGED printing
  <2>1. b * d <= left
    BY <1>11, <1>12, <1>13 DEF Grows
  <2>2. d' = b * d
    <3>1. d' = (d * b) % IntWords
      BY <1>11, <1>13
    <3>2. d * b = b * d /\ d * b \in Nat
      BY <1>9
    <3> QED BY <1>10, <2>1, <3>1, <3>2
  <2>3. Growing(v)'
    BY <1>1, <1>5, <1>6, <1>7, <1>9, <1>13, <2>1, <2>2, k + 1 \in Nat DEF Growing
  <2>4. ConvertingNumber'
    BY <1>1, <1>4, <1>5, <1>13, <2>3 DEF ConvertingNumber, LastRead
  <2>5. (printing \in Calls)' /\ (printing.arg \in Arguments(printing.fmt))' /\ (out \in Bytes)'
    BY <1>1, <1>3, <1>13 DEF Calls, Bytes, Arguments
  <2> QED BY <2>4, <2>5 DEF PrintingInv, Calling
<1>14. CASE ~Grows /\ printing' = [printing EXCEPT !.pc = "digits"] /\ UNCHANGED d
  <2>1. left < b * d
    BY <1>9, <1>11, <1>12, <1>14 DEF Grows
  <2>2. /\ printing' \in Calls /\ printing'.pc = "digits" /\ printing'.conv = c
        /\ printing'.rest = printing.rest /\ printing'.arg = printing.arg
        /\ printing'.fmt = printing.fmt
    BY <1>3, <1>6, <1>14 DEF Calls
  <2>3. Partly(v, <<>>, 0, k)'
    <3>1. /\ bf' = Sign(c, v) \o <<>> /\ n' = Len(<<>>) /\ Spells(c, <<>>, 0)
          /\ n' = 0
      <4>1. Sign(c, v) \in Seq(Nat)
        BY MagIs
      <4> QED BY <1>1, <1>10, <4>1, SpellsNothing
    <3>2. d' = Power(b)[k] /\ d' < IntWords
      BY <1>8, <1>9, <1>10, <1>14
    <3>3. left' \in Nat /\ left' < b * d' /\ Mag(c, v) = 0 * (b * d') + left'
      BY <1>1, <1>9, <1>10, <1>14, <2>1
    <3>4. 0 + k + 1 + Len(Sign(c, v)) < BufferSize
      <4>1. k = 0 \/ Power(BaseOf(c))[k] <= Mag(c, v)
        BY <1>7, <1>8, <1>10
      <4>2. k + 1 + Len(Sign(c, v)) < BufferSize
        BY <4>1, SpaceForDigits
      <4> QED BY <4>2
    <3>5. k = 0 \/ d' <= left'
      BY <1>1, <1>8, <1>14
    <3> QED BY <1>7, <2>2, <3>1, <3>2, <3>3, <3>4, <3>5 DEF Partly
  <2>4. Writing(v)'
    BY <2>2, <2>3, 0 \in Nat DEF Writing
  <2>5. ConvertingNumber'
    BY <1>1, <1>4, <1>5, <1>6, <2>2, <2>4 DEF ConvertingNumber, LastRead, RestOf
  <2>6. (printing \in Calls)' /\ (printing.arg \in Arguments(printing.fmt))' /\ (out \in Bytes)'
    BY <1>1, <1>3, <2>2 DEF Calls, Bytes, Arguments
  <2> QED BY <2>5, <2>6 DEF PrintingInv, Calling
<1> QED BY <1>1, <1>13, <1>14

LEMMA NatsAppend ==
  ASSUME NEW r \in Seq(Nat), NEW s \in Seq(Nat)
  PROVE  /\ Len(r \o s) = Len(r) + Len(s) /\ Len(r) \in Nat
         /\ \A y \in Nat : /\ Append(r \o s, y) = r \o Append(s, y)
                          /\ Append(s, y) \in Seq(Nat) /\ Len(Append(s, y)) = Len(s) + 1
<1>1. Len(r \o s) = Len(r) + Len(s) /\ Len(r) \in Nat
  OBVIOUS
<1>2. ASSUME NEW y \in Nat
      PROVE  /\ Append(r \o s, y) = r \o Append(s, y)
             /\ Append(s, y) \in Seq(Nat) /\ Len(Append(s, y)) = Len(s) + 1
  <2> DEFINE a == Append(r \o s, y)
             z == r \o Append(s, y)
  <2>1. /\ a \in Seq(Nat) /\ z \in Seq(Nat) /\ Len(a) = Len(z)
        /\ Append(s, y) \in Seq(Nat) /\ Len(Append(s, y)) = Len(s) + 1
    OBVIOUS
  <2>2. \A i \in 1 .. Len(a) : a[i] = z[i]
    OBVIOUS
  <2>3. a = z
    <3> HIDE DEF a, z
    <3> QED BY <2>1, <2>2, SameSequence
  <2> QED BY <2>1, <2>3
<1> QED BY <1>1, <1>2

(* A digit: the quotient is less than the base, so one digit has it; the   *)
(* first one written is not a 0 unless it is the last.                     *)
LEMMA PutDigitKeeps ==
  ASSUME PrintingInv, PutDigit
  PROVE  PrintingInv'
<1>1. /\ printing.pc = "digits" /\ d # 0 /\ UNCHANGED <<printing, out>>
      /\ left' = left % d /\ d' = d \div base
      /\ IF Significant THEN bf' = Append(bf, DigitCode(left \div d)) /\ n' = n + 1
         ELSE UNCHANGED <<bf, n>>
  BY DEF PutDigit
<1>2. Calling
  BY <1>1 DEF PrintingInv, NoPrinting
<1>3. printing \in Calls /\ printing.arg \in Arguments(printing.fmt) /\ out \in Bytes
  BY <1>2 DEF Calling
<1>4. ConvertingNumber
  BY <1>1, <1>2 DEF Calling, BeforeConversion, ConvertingString, AfterConversion
<1>5. PICK v \in Ints : printing.arg = <<v>> /\ Writing(v)
  BY <1>1, <1>4 DEF ConvertingNumber, Growing, Written
<1>6. PICK ds : \E q, k \in Nat : Partly(v, ds, q, k)
  BY <1>5 DEF Writing
<1>7. PICK q \in Nat, k \in Nat : Partly(v, ds, q, k)
  BY <1>6
<1>8. PICK c, b : c = printing.conv /\ b = BaseOf(c)
  OBVIOUS
<1>9. PICK sg, m : sg = Sign(c, v) /\ m = Mag(c, v)
  OBVIOUS
<1>10. /\ bf = sg \o ds /\ Spells(c, ds, q) /\ n = Len(ds)
       /\ d = Power(b)[k] /\ d < IntWords
       /\ left \in Nat /\ left < b * d /\ m = q * (b * d) + left
       /\ n = 0 => q = 0 /\ (k = 0 \/ d <= left)
       /\ n > 0 => ds[1] # 48
       /\ n + k + 1 + Len(sg) < BufferSize
  BY <1>7, <1>8, <1>9 DEF Partly
<1>11. /\ b \in {10, 16} /\ d \in Nat /\ d > 0 /\ (k = 0 => d = 1)
       /\ base = b /\ sg \in Seq(Nat) /\ ds \in Seq(Nat) /\ n \in Nat
  <2>1. ds \in Seq(Nat)
    BY <1>10 DEF Spells
  <2>2. sg \in Seq(Nat)
    BY <1>9, MagIs
  <2>3. base = b
    BY <1>8 DEF base, BaseOf
  <2>4. /\ b \in {10, 16} /\ Power(b)[0] = 1 /\ Power(b)[k] \in Nat /\ Power(b)[k] > 0
    BY <1>8, BasePowers
  <2> QED BY <1>10, <2>1, <2>2, <2>3, <2>4
<1>12. PICK x : x = left \div d
  OBVIOUS
<1>13. x \in Nat /\ left % d \in 0 .. d - 1 /\ left = d * x + (left % d)
  BY <1>10, <1>11, <1>12, Dividing
<1>14. x \in 0 .. b - 1
  <2>1. (x >= b => b * d <= left)
    BY <1>10, <1>11, <1>12, DividingBounds, ZenonT(40)
  <2>2. ~(b * d <= left)
    <3> DEFINE y == b * d
    <3>1. left \in Nat /\ left < y
      BY <1>10
    <3>2. y \in Nat
      <4>1. b = 10 \/ b = 16
        BY <1>11
      <4> QED BY <1>11, <4>1
    <3> HIDE DEF y
    <3>3. ~(y <= left)
      BY <3>1, <3>2
    <3> QED BY <3>3 DEF y
  <2> QED BY <1>11, <1>13, <2>1, <2>2
<1>15. ASSUME n = 0, k # 0 PROVE x > 0
  <2>1. d <= left
    BY <1>10, <1>15
  <2>2. x < 1 => left < 1 * d
    BY <1>10, <1>11, <1>12, DividingBounds
  <2> QED BY <1>10, <1>11, <1>13, <2>1, <2>2
<1>16. Significant
  <2>1. CASE n = 0 /\ k # 0
    BY <1>12, <1>15, <2>1 DEF Significant
  <2>2. CASE k = 0
    <3>1. d \div base = 0
      BY <1>11, <2>2
    <3> QED BY <3>1 DEF Significant
  <2>3. CASE n # 0
    BY <2>3 DEF Significant
  <2> QED BY <2>1, <2>2, <2>3
<1>17. DigitCode(x) = DigitOf(c, x)
  <2>1. Code["0"] = 48 /\ Code["A"] = 65 /\ Code["a"] = 97
    BY CodeAssumption
  <2>2. x < 10 => DigitCode(x) = x + 48
    BY <2>1 DEF DigitCode
  <2>3. ~(x < 10) => DigitCode(x) = x + (IF c = "X" THEN 65 ELSE 97) - 10
    BY <1>8, <2>1 DEF DigitCode
  <2>4. CASE x < 10
    BY <1>13, <2>2, <2>4 DEF DigitOf
  <2>5. CASE ~(x < 10) /\ c = "X"
    BY <1>13, <2>3, <2>5 DEF DigitOf
  <2>6. CASE ~(x < 10) /\ c # "X"
    BY <1>13, <2>3, <2>6 DEF DigitOf
  <2> QED BY <2>4, <2>5, <2>6
<1>18. PICK y, es, p : y = DigitOf(c, x) /\ es = Append(ds, y) /\ p = q * b + x
  OBVIOUS
<1>19. y \in Nat /\ (x > 0 => y # 48)
  <2>1. /\ x < 10 => y = 48 + x
        /\ ~(x < 10) => y = IF c = "X" THEN 55 + x ELSE 87 + x
    BY <1>8, <1>14, <1>18, DigitIs
  <2> QED BY <1>13, <2>1
<1>20. Spells(c, es, p) /\ p \in Nat
  <2>1. Spells(c, Append(ds, DigitOf(c, x)), q * BaseOf(c) + x)
    BY <1>8, <1>10, <1>14, SpellsMore
  <2>2. /\ Append(ds, DigitOf(c, x)) = es /\ q * BaseOf(c) + x = p
    BY <1>8, <1>18
  <2>3. p \in Nat
    <3>1. q * b \in Nat
      <4>1. b = 10 \/ b = 16
        BY <1>11
      <4> QED BY <4>1
    <3>2. x \in Nat /\ p = q * b + x
      BY <1>13, <1>18
    <3> QED BY <3>1, <3>2
  <2> QED BY <2>1, <2>2, <2>3
<1>21. /\ es \in Seq(Nat) /\ Len(es) = n + 1 /\ es[1] = IF n = 0 THEN y ELSE ds[1]
       /\ bf' = sg \o es /\ n' = n + 1
  <2>1. /\ Append(sg \o ds, y) = sg \o es /\ es \in Seq(Nat) /\ Len(es) = n + 1
    <3>1. ds \in Seq(Nat) /\ sg \in Seq(Nat) /\ y \in Nat /\ Len(ds) = n
      BY <1>10, <1>11, <1>19
    <3>2. /\ Append(sg \o ds, y) = sg \o Append(ds, y) /\ Append(ds, y) \in Seq(Nat)
          /\ Len(Append(ds, y)) = Len(ds) + 1
      BY <3>1, NatsAppend
    <3> QED BY <1>18, <3>1, <3>2
  <2>2. es[1] = IF n = 0 THEN y ELSE ds[1]
    <3>1. ds \in Seq(Nat) /\ Len(ds) = n /\ n \in Nat /\ y \in Nat /\ es = Append(ds, y)
      BY <1>10, <1>11, <1>18, <1>19
    <3>2. CASE n = 0
      BY <3>1, <3>2
    <3>3. CASE n # 0
      <4>1. 1 \in 1 .. Len(ds)
        BY <3>1, <3>3
      <4>2. Append(ds, y)[1] = ds[1]
        BY <3>1, <4>1
      <4> QED BY <3>1, <3>3, <4>2
    <3> QED BY <3>2, <3>3
  <2>3. bf' = Append(sg \o ds, y) /\ n' = n + 1
    BY <1>1, <1>10, <1>12, <1>16, <1>17, <1>18
  <2> QED BY <2>1, <2>2, <2>3
<1>22. CASE k # 0
  <2>1. PICK j \in Nat : k = j + 1
    <3>1. k - 1 \in Nat /\ k = (k - 1) + 1
      BY <1>22
    <3> QED BY <3>1
  <2>2. PICK e : e = Power(b)[j]
    OBVIOUS
  <2>3. e \in Nat /\ e > 0 /\ d = b * e
    <3>1. \A i \in Nat : Power(b)[i] \in Nat /\ Power(b)[i] > 0 /\ Power(b)[i + 1] = b * Power(b)[i]
      BY <1>8, BasePowers
    <3>2. Power(b)[j] \in Nat /\ Power(b)[j] > 0 /\ Power(b)[j + 1] = b * Power(b)[j]
      BY <2>1, <3>1
    <3> QED BY <1>10, <2>1, <2>2, <3>2
  <2>4. d' = e
    BY <1>1, <1>11, <2>3
  <2>5. left' \in Nat /\ left' < b * e /\ e < IntWords
    <3>1. e <= d /\ IntWords \in Nat
      BY <1>11, <2>3, Words
    <3> QED BY <1>1, <1>10, <1>11, <1>13, <2>3, <3>1
  <2>6. m = p * (b * e) + left'
    <3>1. m = q * (b * d) + (d * x + left')
      BY <1>1, <1>10, <1>13
    <3>2. q * (b * d) + d * x = (q * b + x) * d
      BY <1>11, <1>13
    <3>3. q * (b * d) \in Nat /\ d * x \in Nat
      BY <1>11, <1>13
    <3>4. m = (q * (b * d) + d * x) + left'
      BY <2>5, <3>1, <3>3
    <3> QED BY <1>18, <2>3, <3>2, <3>4
  <2>7. es[1] # 48
    <3>1. CASE n = 0
      BY <1>15, <1>19, <1>21, <1>22, <3>1
    <3>2. CASE n # 0
      BY <1>10, <1>11, <1>21, <3>2
    <3> QED BY <3>1, <3>2
  <2>8. n' + j + 1 + Len(sg) < BufferSize /\ n' # 0 /\ n' = Len(es)
    <3>1. Len(sg) \in Nat
      BY <1>11
    <3> QED BY <1>10, <1>11, <1>21, <2>1, <3>1
  <2>9. Partly(v, es, p, j)'
    BY <1>1, <1>8, <1>9, <1>20, <1>21, <2>2, <2>4, <2>5, <2>6, <2>7, <2>8 DEF Partly
  <2>10. Writing(v)'
    BY <1>1, <1>20, <2>9 DEF Writing
  <2>11. ConvertingNumber'
    BY <1>1, <1>4, <1>5, <2>10 DEF ConvertingNumber, LastRead
  <2> QED BY <1>1, <1>3, <2>11 DEF PrintingInv, Calling, Calls, Bytes, Arguments
<1>23. CASE k = 0
  <2>1. d = 1 /\ d' = 0 /\ left' = 0 /\ x = left
    <3>1. d = 1 /\ left % 1 = 0 /\ 1 \div b = 0
      <4>1. d = 1 /\ left \in Nat
        BY <1>10, <1>11, <1>23
      <4>2. left % 1 = 0
        BY <4>1
      <4>3. 1 \div b = 0
        <5>1. 1 \div 10 = 0 /\ 1 \div 16 = 0
          OBVIOUS
        <5> QED BY <1>11, <5>1
      <4> QED BY <4>1, <4>2, <4>3
    <3>2. left = 1 * x + 0
      BY <1>13, <3>1
    <3> QED BY <1>1, <1>10, <1>11, <1>13, <3>1, <3>2
  <2>2. m = p
    BY <1>10, <1>11, <1>18, <2>1
  <2>3. es # <<>> /\ (es[1] = 48 => Len(es) = 1)
    <3>1. n # 0 => es[1] # 48
      BY <1>10, <1>11, <1>21
    <3>2. es # <<>>
      <4>1. Len(es) # 0 /\ Len(<<>>) = 0
        BY <1>11, <1>21
      <4> QED BY <4>1
    <3> QED BY <1>11, <1>21, <3>1, <3>2
  <2>4. Number(bf', c, v)
    BY <1>9, <1>20, <1>21, <2>2, <2>3 DEF Number
  <2>5. Len(bf') < BufferSize /\ n' \in 0 .. BufferSize
    <3>1. Len(sg) \in Nat /\ Len(bf') = Len(sg) + (n + 1)
      <4>1. Len(sg \o es) = Len(sg) + Len(es) /\ Len(sg) \in Nat
        BY <1>11, <1>21, NatsAppend
      <4> QED BY <1>21, <4>1
    <3>2. BufferSize \in Nat
      BY PrintingAssumption
    <3> QED BY <1>10, <1>11, <1>21, <1>23, <3>1, <3>2
  <2>6. Written(v)'
    BY <1>1, <1>8, <2>1, <2>4, <2>5 DEF Written
  <2>7. ConvertingNumber'
    BY <1>1, <1>4, <1>5, <2>6 DEF ConvertingNumber, LastRead
  <2> QED BY <1>1, <1>3, <2>7 DEF PrintingInv, Calling, Calls, Bytes, Arguments
<1> QED BY <1>22, <1>23

(* The digits are complete when d is 0.                                    *)
LEMMA EndNumberKeeps ==
  ASSUME PrintingInv, EndNumber
  PROVE  PrintingInv'
<1>1. /\ printing.pc = "digits" /\ d = 0 /\ printing' = [printing EXCEPT !.pc = "pad"]
      /\ UNCHANGED <<left, d, n, bf, out>>
  BY DEF EndNumber
<1>2. Calling
  BY <1>1 DEF PrintingInv, NoPrinting
<1>3. printing \in Calls /\ printing.arg \in Arguments(printing.fmt) /\ out \in Bytes
  BY <1>2 DEF Calling
<1>4. ConvertingNumber
  BY <1>1, <1>2 DEF Calling, BeforeConversion, ConvertingString, AfterConversion
<1>5. PICK v \in Ints : printing.arg = <<v>> /\ (Writing(v) \/ Written(v))
  BY <1>1, <1>4 DEF ConvertingNumber, Growing
<1>6. ~Writing(v)
  <2> SUFFICES ASSUME NEW ds, NEW q \in Nat, NEW k \in Nat, Partly(v, ds, q, k) PROVE FALSE
    BY DEF Writing
  <2>1. d = Power(BaseOf(printing.conv))[k]
    BY DEF Partly
  <2>2. Power(BaseOf(printing.conv))[k] > 0 /\ Power(BaseOf(printing.conv))[k] \in Nat
    BY BasePowers
  <2> QED BY <1>1, <2>1, <2>2
<1>7. /\ printing' \in Calls /\ printing'.pc = "pad" /\ printing'.conv = printing.conv
      /\ printing'.rest = printing.rest /\ printing'.arg = printing.arg
      /\ printing'.fmt = printing.fmt
  BY <1>1, <1>3 DEF Calls
<1>8. Written(v)'
  BY <1>1, <1>5, <1>6, <1>7 DEF Written
<1>9. ConvertingNumber'
  BY <1>1, <1>4, <1>5, <1>7, <1>8 DEF ConvertingNumber, LastRead, RestOf
<1>10. (printing \in Calls)' /\ (printing.arg \in Arguments(printing.fmt))' /\ (out \in Bytes)'
  BY <1>1, <1>3, <1>7 DEF Calls, Bytes, Arguments
<1> QED BY <1>9, <1>10 DEF PrintingInv, Calling

(* A number is made of bytes.                                              *)
LEMMA NumberIsBytes ==
  ASSUME NEW s, NEW c, NEW v \in Ints, Number(s, c, v)
  PROVE  s \in Bytes
<1>1. PICK ds : s = Sign(c, v) \o ds /\ Spells(c, ds, Mag(c, v))
  BY DEF Number
<1>2. /\ ds \in Seq(Nat)
      /\ \A k \in 1 .. Len(ds) :
           \/ ds[k] \in 48 .. 57
           \/ BaseOf(c) = 16 /\ ds[k] \in (IF c = "X" THEN 65 .. 70 ELSE 97 .. 102)
  BY <1>1, Spelled
<1>3. \A k \in 1 .. Len(ds) : ds[k] \in 0 .. 255
  <2>1. ASSUME NEW k \in 1 .. Len(ds) PROVE ds[k] \in 0 .. 255
    <3>1. ds[k] \in 48 .. 57 \/ ds[k] \in 65 .. 70 \/ ds[k] \in 97 .. 102
      BY <1>2, ZenonT(40)
    <3>2. 48 .. 57 \subseteq 0 .. 255 /\ 65 .. 70 \subseteq 0 .. 255 /\ 97 .. 102 \subseteq 0 .. 255
      OBVIOUS
    <3> QED BY <3>1, <3>2
  <2> QED BY <2>1
<1> DEFINE S == 0 .. 255
<1>4. 45 \in S /\ \A k \in 1 .. Len(ds) : ds[k] \in S
  BY <1>3
<1>5. Sign(c, v) = <<45>> \/ Sign(c, v) = <<>>
  BY DEF Sign
<1>6. Bytes = Seq(S)
  BY DEF Bytes
<1> HIDE DEF S
<1>7. ds \in Seq(S)
  <2>1. ds = [k \in 1 .. Len(ds) |-> ds[k]] /\ Len(ds) \in Nat
    BY <1>2
  <2> QED BY <1>4, <2>1
<1>8. Sign(c, v) \in Seq(S)
  <2>1. <<45>> \in Seq(S)
    BY <1>4
  <2>2. <<>> \in Seq(S)
    OBVIOUS
  <2> QED BY <1>5, <2>1, <2>2
<1> QED BY <1>1, <1>6, <1>7, <1>8

(* At putchw bf holds a string or the whole number.                        *)
LEMMA AfterPadding ==
  ASSUME PrintingInv, printing.pc = "pad"
  PROVE  /\ Calling /\ bf \in Bytes /\ LastRead
         /\ (ConvertingString \/ ConvertingNumber)
         /\ ConvertingNumber => \E v \in Ints : /\ printing.arg = <<v>>
                                                /\ Number(bf, printing.conv, v)
<1>1. Calling
  BY DEF PrintingInv, NoPrinting
<1>2. ConvertingString \/ ConvertingNumber
  BY <1>1 DEF Calling, BeforeConversion, AfterConversion
<1>3. ASSUME ConvertingNumber
      PROVE  \E v \in Ints : printing.arg = <<v>> /\ Number(bf, printing.conv, v)
  BY <1>3 DEF ConvertingNumber, Growing, Writing, Written
<1>4. bf \in Bytes
  BY <1>2, <1>3, NumberIsBytes DEF ConvertingString
<1>5. LastRead
  BY <1>2 DEF ConvertingString, ConvertingNumber
<1> QED BY <1>1, <1>2, <1>3, <1>4, <1>5

LEMMA PaddedIsBytes ==
  ASSUME NEW s \in Bytes, NEW w \in Nat, NEW lz \in BOOLEAN
  PROVE  Padded(s, w, lz) \in Bytes
<1> DEFINE S == 0 .. 255
           p == PadsOf(s, w)
           g == [i \in 1 .. p |-> Filler(lz)]
<1>1. s \in Seq(S) /\ Bytes = Seq(S) /\ Filler(lz) \in S
  BY DEF Bytes, Filler
<1>2. p \in Nat
  BY <1>1 DEF PadsOf
<1> HIDE DEF S, p
<1>3. g \in Seq(S)
  BY <1>1, <1>2
<1> HIDE DEF g
<1>4. Padded(s, w, lz) = g \o s
  BY DEF Padded, g, p
<1> QED BY <1>1, <1>3, <1>4

LEMMA BytesAfter ==
  ASSUME NEW a \in Bytes, NEW b \in Bytes
  PROVE  a \o b \in Bytes /\ <<>> \in Bytes /\ <<>> \o a = a /\ a \o <<>> = a
<1> DEFINE S == 0 .. 255
<1>1. a \in Seq(S) /\ b \in Seq(S) /\ Bytes = Seq(S)
  BY DEF Bytes
<1> HIDE DEF S
<1>2. a \o b \in Seq(S) /\ <<>> \in Seq(S)
  BY <1>1
<1>3. <<>> \o a = a /\ a \o <<>> = a
  <2>1. /\ <<>> \o a \in Seq(S) /\ Len(<<>> \o a) = Len(a)
        /\ \A i \in 1 .. Len(<<>> \o a) : (<<>> \o a)[i] = a[i]
    BY <1>1
  <2>2. /\ a \o <<>> \in Seq(S) /\ Len(a \o <<>>) = Len(a)
        /\ \A i \in 1 .. Len(a \o <<>>) : (a \o <<>>)[i] = a[i]
    BY <1>1
  <2> QED BY <1>1, <2>1, <2>2, SameSequence
<1> QED BY <1>1, <1>2, <1>3

(* putchw pads: what the format has printed is now the field.              *)
LEMMA putchwKeeps ==
  ASSUME PrintingInv, putchw
  PROVE  PrintingInv'
<1>1. /\ printing.pc = "pad" /\ printing' = [printing EXCEPT !.pc = "format"] /\ Quiet'
  BY DEF putchw, Quiet
<1>2. Calling /\ bf \in Bytes /\ LastRead
  BY <1>1, AfterPadding
<1>3. printing \in Calls /\ printing.arg \in Arguments(printing.fmt) /\ out \in Bytes
  BY <1>2 DEF Calling
<1>4. /\ printing' \in Calls /\ printing'.pc = "format" /\ printing'.conv = printing.conv
      /\ printing'.rest = printing.rest /\ printing'.arg = printing.arg
      /\ printing'.fmt = printing.fmt /\ printing'.lz = printing.lz /\ printing'.w = printing.w
  BY <1>1, <1>3 DEF Calls
<1>5. printing.w \in Nat /\ printing.lz \in BOOLEAN
  BY <1>3 DEF Calls
<1>6. PICK f : f = Padded(bf, printing.w, printing.lz)
  OBVIOUS
<1>7. f \in Bytes
  BY <1>2, <1>5, <1>6, PaddedIsBytes
<1>8. out' = out \o f
  <2>1. Code["0"] = 48 /\ Code[" "] = 32
    BY CodeAssumption
  <2> DEFINE pads == IF Len(bf) < printing.w THEN printing.w - Len(bf) ELSE 0
             fc == IF printing.lz THEN Code["0"] ELSE Code[" "]
  <2>2. pads = PadsOf(bf, printing.w) /\ fc = Filler(printing.lz)
    BY <2>1 DEF PadsOf, Filler
  <2>3. out' = out \o [i \in 1 .. pads |-> fc] \o bf
    BY DEF putchw
  <2>4. f = [i \in 1 .. pads |-> fc] \o bf
    BY <1>6, <2>2 DEF Padded
  <2>5. pads \in Nat /\ fc \in 0 .. 255
    <3>1. Len(bf) \in Nat
      BY <1>2 DEF Bytes
    <3>2. pads \in Nat
      BY <1>5, <3>1
    <3>3. fc \in 0 .. 255
      <4>1. 48 \in 0 .. 255 /\ 32 \in 0 .. 255
        OBVIOUS
      <4> QED BY <2>1, <4>1
    <3> QED BY <3>2, <3>3
  <2> DEFINE g == [i \in 1 .. pads |-> fc]
             S == 0 .. 255
  <2>6. out \in Seq(S) /\ bf \in Seq(S) /\ fc \in S
    BY <1>2, <1>3, <2>5 DEF Bytes
  <2> HIDE DEF pads, fc, S
  <2>7. g \in Seq(S)
    BY <2>5, <2>6
  <2>8. out' = (out \o g) \o bf /\ f = g \o bf
    BY <2>3, <2>4
  <2> HIDE DEF g
  <2>9. /\ (out \o g) \o bf \in Seq(S) /\ out \o (g \o bf) \in Seq(S)
        /\ Len((out \o g) \o bf) = Len(out \o (g \o bf))
        /\ \A i \in 1 .. Len((out \o g) \o bf) : ((out \o g) \o bf)[i] = (out \o (g \o bf))[i]
    BY <2>6, <2>7
  <2> QED BY <2>8, <2>9, SameSequence
<1>9. (out \in Bytes)'
  <2>1. out \o f \in Bytes
    BY <1>3, <1>7, BytesAfter
  <2> QED BY <1>8, <2>1 DEF Bytes
<1>10. LastRead'
  BY <1>2, <1>4 DEF LastRead
<1>11. (printing.arg \in Arguments(printing.fmt))'
  BY <1>3, <1>4 DEF Arguments
<1>12. (printing \in Calls)'
  BY <1>4 DEF Calls
<1>13. AfterConversion'
  <2>1. CASE ConvertingString
    <3>1. printing.conv = "s" /\ "s" \notin Numeric
      BY <2>1 DEF ConvertingString, Numeric
    <3> QED BY <1>1, <1>4, <1>10, <3>1 DEF AfterConversion
  <2>2. CASE ConvertingNumber
    <3>1. PICK v \in Ints : printing.arg = <<v>> /\ Number(bf, printing.conv, v)
      BY <1>1, <2>2, AfterPadding
    <3>2. ASSUME printing.fmt[1] = "%" PROVE FieldPrinted(v, f, <<>>)'
      <4>1. out = <<>> /\ printing.rest = RestOf(printing.fmt)
        BY <2>2, <3>2 DEF ConvertingNumber
      <4>2. f = <<>> \o f /\ f \o <<>> = f /\ <<>> \in Bytes
        BY <1>7, BytesAfter
      <4>3. out' = f \o <<>>
        BY <1>8, <4>1, <4>2
      <4>4. NumberField(f, printing.conv, v, printing.lz, printing.w)
        BY <1>6, <3>1 DEF NumberField
      <4>5. NumberField(f, printing.conv, v, printing.lz, printing.w)'
        BY <1>4, <4>4
      <4>6. printing.rest' = RestOf(printing.fmt)'
        BY <1>4, <4>1
      <4>7. (Len(<<>>) + Len(printing.rest) = Len(RestOf(printing.fmt)))'
        <5>1. Len(printing.rest)' \in Nat
          BY <1>4 DEF Calls
        <5> QED BY <4>6, <5>1
      <4>8. (f \in Bytes)' /\ (<<>> \in Bytes)'
        BY <1>7, <4>2 DEF Bytes
      <4> QED BY <4>3, <4>5, <4>7, <4>8 DEF FieldPrinted
    <3>3. (printing.fmt[1] = "%" => \E ff, g : FieldPrinted(v, ff, g))'
      BY <1>4, <3>2
    <3> QED BY <1>1, <1>4, <1>10, <3>1, <3>3 DEF AfterConversion
  <2> QED BY <1>1, <2>1, <2>2, AfterPadding
<1> QED BY <1>9, <1>11, <1>12, <1>13 DEF PrintingInv, Calling

LEMMA PrintingStart ==
  ASSUME PrintingInit
  PROVE  PrintingInv
BY DEF PrintingInit, PrintingInv, Quiet

(* What a step that leaves printf alone leaves of its invariant.           *)
LEMMA PrintingStutters ==
  ASSUME PrintingInv, UNCHANGED printVars
  PROVE  PrintingInv'
<1>1. UNCHANGED <<printing, left, d, n, bf, out>>
  BY DEF printVars
<1>2. CASE printing = NoPrinting /\ Quiet /\ out = <<>>
  BY <1>1, <1>2 DEF PrintingInv, Quiet
<1>3. CASE Calling
  <2>1. (printing \in Calls)' /\ (printing.arg \in Arguments(printing.fmt))' /\ (out \in Bytes)'
    BY <1>1, <1>3 DEF Calling, Calls, Arguments, Bytes
  <2>2. CASE BeforeConversion
    <3>1. BeforeConversion'
      BY <1>1, <2>2 DEF BeforeConversion, Quiet
    <3> QED BY <2>1, <3>1 DEF PrintingInv, Calling
  <2>3. CASE ConvertingNumber
    <3>1. ConvertingNumber'
      <4>1. ASSUME NEW v PROVE /\ Growing(v) => Growing(v)'
                               /\ Written(v) => Written(v)'
                               /\ Writing(v) => Writing(v)'
        <5>1. Growing(v) => Growing(v)'
          BY <1>1 DEF Growing
        <5>2. Written(v) => Written(v)'
          BY <1>1 DEF Written
        <5>3. ASSUME NEW ds, NEW q, NEW k, Partly(v, ds, q, k) PROVE Partly(v, ds, q, k)'
          BY <1>1, <5>3 DEF Partly
        <5>4. Writing(v) => Writing(v)'
          BY <1>1, <5>3 DEF Writing
        <5> QED BY <5>1, <5>2, <5>4
      <4>2. LastRead' /\ (RestOf(printing.fmt) = RestOf(printing.fmt)')
        BY <1>1, <2>3 DEF ConvertingNumber, LastRead
      <4> QED BY <1>1, <2>3, <4>1, <4>2 DEF ConvertingNumber
    <3> QED BY <2>1, <3>1 DEF PrintingInv, Calling
  <2>4. CASE ConvertingString
    <3>1. ConvertingString'
      BY <1>1, <2>4 DEF ConvertingString, LastRead, Bytes
    <3> QED BY <2>1, <3>1 DEF PrintingInv, Calling
  <2>5. CASE AfterConversion
    <3>1. AfterConversion'
      <4>1. ASSUME NEW v, NEW f, NEW g, FieldPrinted(v, f, g) PROVE FieldPrinted(v, f, g)'
        BY <1>1, <4>1 DEF FieldPrinted, Bytes
      <4>2. LastRead' /\ Quiet'
        BY <1>1, <2>5 DEF AfterConversion, LastRead, Quiet
      <4> QED BY <1>1, <2>5, <4>1, <4>2 DEF AfterConversion
    <3> QED BY <2>1, <3>1 DEF PrintingInv, Calling
  <2> QED BY <1>3, <2>2, <2>3, <2>4, <2>5 DEF Calling
<1> QED BY <1>2, <1>3 DEF PrintingInv

(* Every step of printf keeps the invariant.                               *)
LEMMA PrintingKept ==
  ASSUME PrintingInv, PrintingNext
  PROVE  PrintingInv'
<1>1. CASE \E f \in Formats : \E a \in Arguments(f) : CallPrintf(f, a)
  BY <1>1, CallPrintfKeeps
<1>2. CASE PutPlain
  BY <1>2, PutPlainKeeps
<1>3. CASE StartNumber
  BY <1>3, StartNumberKeeps
<1>4. CASE StartString
  BY <1>4, StartStringKeeps
<1>5. CASE PutOther
  BY <1>5, PutOtherKeeps
<1>6. CASE Grow
  BY <1>6, GrowKeeps
<1>7. CASE PutDigit
  BY <1>7, PutDigitKeeps
<1>8. CASE EndNumber
  BY <1>8, EndNumberKeeps
<1>9. CASE putchw
  BY <1>9, putchwKeeps
<1>10. CASE EndFormat
  BY <1>10, EndFormatKeeps
<1>11. CASE ReturnPrintf
  BY <1>11, ReturnPrintfKeeps
<1> QED BY <1>1, <1>2, <1>3, <1>4, <1>5, <1>6, <1>7, <1>8, <1>9, <1>10, <1>11
        DEF PrintingNext, PrintingStep

(* The invariant says more than the types...                               *)
LEMMA PrintingTypes ==
  ASSUME PrintingInv
  PROVE  PrintingTypeOK
<1>1. /\ 0 \in Ints /\ 0 \in 0 .. BufferSize /\ BufferSize > 2 /\ Len(<<>>) = 0
      /\ IntWords \in Nat /\ BufferSize \in Nat
  BY Words, PrintingAssumption DEF Ints
<1>2. CASE printing = NoPrinting /\ Quiet /\ out = <<>>
  <2>1. printing.pc = "idle"
    BY <1>2 DEF NoPrinting
  <2>2. left \in Ints /\ d \in Ints /\ n \in 0 .. BufferSize /\ Len(bf) < BufferSize
    <3>1. left = 0 /\ d = 0 /\ n = 0 /\ Len(bf) = 0
      BY <1>1, <1>2 DEF Quiet
    <3>2. 0 < BufferSize
      BY <1>1
    <3> QED BY <1>1, <3>1, <3>2
  <2>3. DOMAIN out = {}
    BY <1>2
  <2> QED BY <2>1, <2>2, <2>3 DEF PrintingTypeOK
<1>3. CASE Calling
  <2>1. printing.pc \in {"idle", "format", "grow", "digits", "pad", "return"}
    BY <1>3 DEF Calling, Calls
  <2>2. \A i \in DOMAIN out : out[i] \in 0 .. 255
    <3> DEFINE S == 0 .. 255
    <3>1. out \in Seq(S)
      BY <1>3 DEF Calling, Bytes
    <3> HIDE DEF S
    <3>2. \A i \in DOMAIN out : out[i] \in S
      BY <3>1
    <3> QED BY <3>2 DEF S
  <2>3. CASE Quiet
    <3>1. left = 0 /\ d = 0 /\ n = 0 /\ Len(bf) = 0
      BY <1>1, <2>3 DEF Quiet
    <3>2. 0 < BufferSize
      BY <1>1
    <3> QED BY <1>1, <2>1, <2>2, <3>1, <3>2 DEF PrintingTypeOK
  <2>4. CASE ConvertingString
    BY <1>1, <2>1, <2>2, <2>4 DEF PrintingTypeOK, ConvertingString
  <2>5. CASE ConvertingNumber
    <3>1. PICK v \in Ints : Growing(v) \/ Writing(v) \/ Written(v)
      BY <2>5 DEF ConvertingNumber
    <3>2. PICK c : c = printing.conv
      OBVIOUS
    <3>3. Mag(c, v) \in Ints /\ (Sign(c, v) = <<45>> \/ Sign(c, v) = <<>>)
      BY MagIs DEF Sign
    <3>4. Len(Sign(c, v)) \in {0, 1} /\ Sign(c, v) \in Seq(Nat)
      <4>1. Len(<<45>>) = 1 /\ <<45>> \in Seq(Nat) /\ <<>> \in Seq(Nat)
        OBVIOUS
      <4> QED BY <1>1, <3>3, <4>1
    <3>5. CASE Growing(v)
      <4>1. bf = Sign(c, v) /\ left = Mag(c, v) /\ n = 0
        BY <3>2, <3>5 DEF Growing
      <4>2. Len(bf) < BufferSize
        <5>1. Len(bf) = 0 \/ Len(bf) = 1
          BY <3>4, <4>1
        <5> QED BY <1>1, <5>1
      <4>3. d \in Ints
        <5>1. PICK k \in Nat : d = Power(BaseOf(c))[k] /\ (k = 0 \/ d <= left)
          BY <3>2, <3>5 DEF Growing
        <5>2. Power(BaseOf(c))[k] \in Nat /\ Power(BaseOf(c))[0] = 1
          BY BasePowers
        <5>3. IntWords > 1
          BY Words
        <5> QED BY <1>1, <3>3, <4>1, <5>1, <5>2, <5>3 DEF Ints
      <4> QED BY <1>1, <2>1, <2>2, <3>3, <4>1, <4>2, <4>3 DEF PrintingTypeOK
    <3>6. CASE Writing(v)
      <4>1. PICK ds, q, k : q \in Nat /\ k \in Nat /\ Partly(v, ds, q, k)
        BY <3>6 DEF Writing
      <4>2. PICK b : b = BaseOf(c)
        OBVIOUS
      <4>3. /\ bf = Sign(c, v) \o ds /\ Spells(c, ds, q) /\ n = Len(ds)
            /\ d = Power(b)[k] /\ d < IntWords
            /\ left \in Nat /\ left < b * d /\ Mag(c, v) = q * (b * d) + left
            /\ n + k + 1 + Len(Sign(c, v)) < BufferSize
        BY <3>2, <4>1, <4>2 DEF Partly
      <4>4. ds \in Seq(Nat) /\ n \in Nat
        BY <4>3 DEF Spells
      <4>5. d \in Nat /\ b \in Nat
        <5>1. b \in {10, 16} /\ Power(b)[k] \in Nat
          BY <4>1, <4>2, BasePowers
        <5> QED BY <4>3, <5>1
      <4>6. left <= Mag(c, v)
        <5>1. q * (b * d) \in Nat
          BY <4>1, <4>5
        <5> QED BY <4>3, <5>1
      <4>7. left \in Ints /\ d \in Ints
        BY <1>1, <3>3, <4>3, <4>5, <4>6, SMTT(30) DEF Ints
      <4>8. Len(bf) = Len(Sign(c, v)) + n
        BY <3>4, <4>3, <4>4, NatsAppend
      <4>9. Len(bf) < BufferSize /\ n \in 0 .. BufferSize
        BY <3>4, <4>1, <4>3, <4>4, <4>8, PrintingAssumption
      <4> QED BY <2>1, <2>2, <4>7, <4>9 DEF PrintingTypeOK
    <3>7. CASE Written(v)
      BY <1>1, <2>1, <2>2, <3>7 DEF PrintingTypeOK, Written
    <3> QED BY <3>1, <3>5, <3>6, <3>7
  <2> QED BY <1>3, <2>3, <2>4, <2>5 DEF Calling, BeforeConversion, AfterConversion
<1> QED BY <1>2, <1>3 DEF PrintingInv

(* ...and at the return that the field is right.                           *)
LEMMA PrintingIsRight ==
  ASSUME PrintingInv
  PROVE  PrintsValue
<1> SUFFICES ASSUME printing.pc = "return", printing.conv \in Numeric, printing.fmt[1] = "%"
             PROVE  IsRight(Field) /\ ReadsBack(Field)
  BY DEF PrintsValue
<1>1. Calling
  BY DEF PrintingInv, NoPrinting
<1>2. AfterConversion
  BY <1>1 DEF Calling, BeforeConversion, ConvertingNumber, ConvertingString,
              Growing, Writing, Written, Numeric
<1>3. PICK v \in Ints : printing.arg = <<v>> /\ \E f, g : FieldPrinted(v, f, g)
  BY <1>2 DEF AfterConversion
<1>4. PICK f, g : FieldPrinted(v, f, g)
  BY <1>3
<1>5. /\ f \in Bytes /\ g \in Bytes /\ out = f \o g
      /\ Len(g) + Len(printing.rest) = Len(RestOf(printing.fmt))
      /\ NumberField(f, printing.conv, v, printing.lz, printing.w)
  BY <1>4 DEF FieldPrinted
<1>6. printing.rest = <<>>
  BY <1>2 DEF AfterConversion
<1>7. Field = f
  <2> DEFINE S == 0 .. 255
  <2>1. f \in Seq(S) /\ g \in Seq(S)
    BY <1>5 DEF Bytes
  <2> HIDE DEF S
  <2>2. Len(g) = Len(RestOf(printing.fmt)) /\ Len(g) \in Nat
    <3>1. Len(printing.rest) = 0 /\ Len(g) \in Nat
      BY <1>6, <2>1
    <3> QED BY <1>5, <3>1
  <2>3. Field = SubSeq(f \o g, 1, Len(f \o g) - Len(g))
    BY <1>5, <2>2 DEF Field, RestOf
  <2>4. Len(f \o g) - Len(g) = Len(f) /\ Len(f) \in Nat
    BY <2>1
  <2>5. /\ SubSeq(f \o g, 1, Len(f)) \in Seq(S) /\ Len(SubSeq(f \o g, 1, Len(f))) = Len(f)
        /\ \A i \in 1 .. Len(SubSeq(f \o g, 1, Len(f))) : SubSeq(f \o g, 1, Len(f))[i] = f[i]
    BY <2>1
  <2>6. SubSeq(f \o g, 1, Len(f)) = f
    BY <2>1, <2>5, SameSequence
  <2> QED BY <2>3, <2>4, <2>6
<1>8. printing.lz \in BOOLEAN /\ printing.w \in Nat
  BY <1>1 DEF Calling, Calls
<1>9. IsRight(f) /\ ReadsBack(f)
  BY <1>3, <1>5, <1>8, FieldIsRight
<1> QED BY <1>7, <1>9
-----------------------------------------------------------------------------
(* The invariant of printf: see PrintingInv. *)
THEOREM PrintingInvariant == PrintingSpec => []PrintingInv
<1>1. PrintingInit => PrintingInv
  BY PrintingStart
<1>2. PrintingInv /\ [PrintingNext]_printVars => PrintingInv'
  BY PrintingKept, PrintingStutters
<1> QED BY <1>1, <1>2, PTL DEF PrintingSpec

(* Types: ui2a's d never overflows an int and is never 0 when it divides,  *)
(* and bf has room for every number and the final 0.                       *)
THEOREM PrintingTypeCorrect == PrintingSpec => []PrintingTypeOK
<1> QED BY PrintingTypes, PrintingInvariant, PTL

(* printf prints the number it is given, padded as asked, and hex2int and  *)
(* atoi read it back, for every int and every format.                      *)
THEOREM PrintsEveryInt == PrintingSpec => []PrintsValue
<1> QED BY PrintingIsRight, PrintingInvariant, PTL

(* Side by side, each of the two does what it does alone.                  *)
THEOREM NumbersCompose == NumbersSpec => DivisionSpec /\ PrintingSpec
<1>1. NumbersInit => DivisionInit /\ PrintingInit
  BY DEF NumbersInit
<1>2. [NumbersNext]_numbersVars => [DivisionNext]_divisionVars /\ [PrintingNext]_printVars
  BY DEF NumbersNext, numbersVars
<1> QED BY <1>1, <1>2, PTL DEF NumbersSpec, DivisionSpec, PrintingSpec

(* Types of both; in particular no number needs more than bf has.          *)
THEOREM NumbersTypeCorrect == NumbersSpec => []NumbersTypeOK
<1>1. DivisionTypeOK /\ PrintingTypeOK => NumbersTypeOK
  BY DEF NumbersTypeOK
<1> QED BY <1>1, NumbersCompose, DivisionTypeCorrect, PrintingTypeCorrect, PTL

(* Divisions are exact and what is printed is right in the composition.    *)
THEOREM NumbersAreRight == NumbersSpec => []DivisionIsExact /\ []PrintsValue
<1> QED BY NumbersCompose, DivisionExact, PrintsEveryInt, PTL
=============================================================================
