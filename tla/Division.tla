------------------------------ MODULE Division ------------------------------
(***************************************************************************)
(* 64-bit division (c/base.c): the routines the compiler calls for / and % *)
(* on long long, since the processor has no such instruction.  All of them *)
(* end in __udivmoddi4, which divides by shifting and subtracting; an      *)
(* iteration of one of its loops is a step here.  Words are of LongBits    *)
(* bits.                                                                   *)
(***************************************************************************)
EXTENDS Powers

CONSTANT LongBits \* bits of a long long: 64

ASSUME DivisionAssumption == LongBits \in Nat /\ LongBits > 1

Bit == Power(2)

VARIABLES
  division,             \* the call in progress: where it stands, its operands
  num, den, quot, qbit  \* the locals of __udivmoddi4

divisionVars == <<division, num, den, quot, qbit>>

Word == 0 .. Bit[LongBits] - 1
TopBit == Bit[LongBits - 1]

(* The int64_t of a word, and the word of its negation. *)
Signed(w) == IF w < TopBit THEN w ELSE w - Bit[LongBits]
Negated(w) == IF w = 0 THEN 0 ELSE Bit[LongBits] - w
Magnitude(w) == IF w < TopBit THEN w ELSE Negated(w)

NoDivision == [pc |-> "idle", signed |-> FALSE, num |-> 0, den |-> 0]

DivisionInit ==
  /\ division = NoDivision
  /\ num = 0 /\ den = 0 /\ quot = 0 /\ qbit = 0
-----------------------------------------------------------------------------
(* The operands __udivmoddi4 gets: __divmoddi4 gives it the magnitudes.    *)
Dividend(call) == IF call.signed THEN Magnitude(call.num) ELSE call.num
Divisor(call) == IF call.signed THEN Magnitude(call.den) ELSE call.den

(* __udivdi3 and __umoddi3, or __divdi3 and __moddi3: which of the two     *)
(* results the caller gets is all they differ in.  "Intentional divide by  *)
(* zero": the handler of that exception never returns.                     *)
CallDivision(signed, n, d) ==
  /\ division.pc = "idle"
  /\ LET call == [pc |-> IF d = 0 THEN "fault" ELSE "justify",
                  signed |-> signed, num |-> n, den |-> d]
     IN  /\ division' = call
         /\ num' = Dividend(call) /\ den' = Divisor(call)
         /\ quot' = 0 /\ qbit' = 1

LeftJustified_Late == den > TopBit

(* (int64_t) den < 0 *)
LeftJustified == den >= TopBit

(* "Left-justify denominator and count shift." *)
Justify ==
  /\ division.pc = "justify"
  /\ \/ /\ ~LeftJustified
        /\ den' = (2 * den) % Bit[LongBits] /\ qbit' = (2 * qbit) % Bit[LongBits]
        /\ UNCHANGED division
     \/ /\ LeftJustified
        /\ division' = [division EXCEPT !.pc = "subtract"]
        /\ UNCHANGED <<den, qbit>>
  /\ UNCHANGED <<num, quot>>

Fits_Always == TRUE
Fits_Strictly == den < num

Fits == den <= num

Subtract ==
  /\ division.pc = "subtract" /\ qbit # 0
  /\ \/ Fits /\ num' = num - den /\ quot' = (quot + qbit) % Bit[LongBits]
     \/ ~Fits /\ UNCHANGED <<num, quot>>
  /\ den' = den \div 2 /\ qbit' = qbit \div 2
  /\ UNCHANGED division

Subtracted ==
  /\ division.pc = "subtract" /\ qbit = 0
  /\ division' = [division EXCEPT !.pc = "return"]
  /\ UNCHANGED <<num, den, quot, qbit>>

(* __divmoddi4's sign, applied to the quotient and to the remainder. *)
Minus == division.signed /\ (division.num < TopBit) # (division.den < TopBit)
Quotient == IF Minus THEN Negated(quot) ELSE quot
Remainder == IF Minus THEN Negated(num) ELSE num

ReturnResult ==
  /\ division.pc = "return"
  /\ division' = NoDivision
  /\ num' = 0 /\ den' = 0 /\ quot' = 0 /\ qbit' = 0

DivisionStep == Justify \/ Subtract \/ Subtracted \/ ReturnResult

DivisionNext ==
  \/ \E signed \in BOOLEAN, n, d \in Word : CallDivision(signed, n, d)
  \/ DivisionStep

DivisionSpec == DivisionInit /\ [][DivisionNext]_divisionVars
-----------------------------------------------------------------------------
DivisionTypeOK ==
  /\ division \in [pc : {"idle", "fault", "justify", "subtract", "return"},
                   signed : BOOLEAN, num : Word, den : Word]
  /\ num \in Word /\ den \in Word /\ quot \in Word /\ qbit \in Word

(* The result is the quotient and the remainder, for all operands: no      *)
(* intermediate value is cut to a word.  Two signed cases are exceptions:  *)
(* the one quotient that is not an int64_t, and the remainder by a         *)
(* negative divisor, whose sign is wrong (base.c:57 negates the remainder  *)
(* with the quotient, where it should take the sign of the dividend).      *)
DivisionIsExact ==
  division.pc = "return" =>
    IF ~division.signed
    THEN /\ division.num = Quotient * division.den + Remainder
         /\ Remainder < division.den
    ELSE LET n == Signed(division.num)
             d == Signed(division.den)
             r == Signed(Remainder)
         IN  /\ ~(n = -TopBit /\ d = -1) =>
                  n = Signed(Quotient) * d + (IF d > 0 THEN r ELSE -r)
             /\ IF d > 0 THEN -d < r /\ r < d ELSE d < r /\ r < -d
=============================================================================
