------------------------------ MODULE Printing ------------------------------
(***************************************************************************)
(* printf (libc/stdio.c): tfp_format, which reads the format, ui2a, which  *)
(* turns a number into digits, a loop iteration a step, and putchw, which  *)
(* pads.  And the two functions that read numbers back, hex2int and atoi,  *)
(* which the command peek applies to what the user types.  A format is a   *)
(* sequence of characters written as strings of length 1; what is printed  *)
(* is a sequence of character codes.                                       *)
(***************************************************************************)
EXTENDS Powers, Sequences, SequencesExt

CONSTANTS
  IntBits,    \* bits of an int: 32
  BufferSize, \* sizeof( bf ): 12
  Formats,    \* formats of at most one conversion each
  Strings,    \* arguments of %s, as sequences of codes
  Code        \* the code of a character

IntWords == Power(2)[IntBits]
Ints == 0 .. IntWords - 1

(* bf has room for the digits of the largest number, for those of the most *)
(* negative one and its sign, and for the final 0.                         *)
ASSUME PrintingAssumption ==
  /\ IntBits \in Nat /\ IntBits > 0
  /\ BufferSize \in Nat /\ BufferSize > 2
  /\ IntWords <= Power(10)[BufferSize - 1]
  /\ IntWords \div 2 < Power(10)[BufferSize - 2]

Characters == DOMAIN Code

(* ASCII, of which the arithmetic on characters makes use; "NUL" stands    *)
(* for the 0 that ends a string.                                           *)
ASSUME CodeAssumption ==
  /\ Code \in [Characters -> 0 .. 255] /\ "NUL" \notin Characters
  /\ {"0", "1", "2", "3", "4", "5", "6", "7", "8", "9", " ", "-", "%", "A", "a"}
       \subseteq Characters
  /\ Code["0"] = 48 /\ Code["1"] = 49 /\ Code["2"] = 50 /\ Code["3"] = 51
  /\ Code["4"] = 52 /\ Code["5"] = 53 /\ Code["6"] = 54 /\ Code["7"] = 55
  /\ Code["8"] = 56 /\ Code["9"] = 57 /\ Code[" "] = 32 /\ Code["-"] = 45
  /\ Code["%"] = 37 /\ Code["A"] = 65 /\ Code["a"] = 97

VARIABLES
  printing,     \* where printf stands: its format, argument and width
  left, d, n,   \* ui2a's num, d and n
  bf,           \* the digits so far
  out           \* what has been printed

printVars == <<printing, left, d, n, bf, out>>

NoPrinting == [pc |-> "idle", fmt |-> <<>>, arg |-> 0, rest |-> <<>>, lz |-> FALSE,
               w |-> 0, conv |-> "NUL"]

PrintingInit ==
  /\ printing = NoPrinting
  /\ left = 0 /\ d = 0 /\ n = 0 /\ bf = <<>> /\ out = <<>>
-----------------------------------------------------------------------------
(* Reading a format. *)
Digits == {"0", "1", "2", "3", "4", "5", "6", "7", "8", "9"}
Numeric == {"u", "d", "x", "X"}

CharAt(s, i) == IF i <= Len(s) THEN s[i] ELSE "NUL"
From(s, i) == SubSeq(s, i, Len(s))

(* The longest beginning of s that Test is true of. *)
Leading(s, Test(_)) ==
  LET i == SelectInSeq(s, LAMBDA c : ~Test(c)) IN IF i = 0 THEN s ELSE SubSeq(s, 1, i - 1)

(* a2d, and a2i with base 10: it stops only at a digit above the base, so  *)
(* an a after other digits is a ten.                                       *)
a2d == [c \in Digits \union {"a", "A"} |-> IF c \in Digits THEN Code[c] - Code["0"] ELSE 10]
a2i(s) == FoldLeft(LAMBDA num, c : (num * 10 + a2d[c]) % IntWords, 0, s)

(* What stands after a %: a 0, a width, and the conversion. *)
Conversion(s) ==
  LET lz == CharAt(s, 1) = "0"
      t == IF lz THEN From(s, 2) ELSE s
      width == IF CharAt(t, 1) \in Digits THEN Leading(t, LAMBDA c : c \in DOMAIN a2d)
               ELSE <<>>
  IN  [lz |-> lz, w |-> a2i(width), conv |-> CharAt(t, Len(width) + 1),
       rest |-> From(t, Len(width) + 2)]
-----------------------------------------------------------------------------
(* printf. *)

(* The first conversion of a format, or 0. *)
Percent(f) == SelectInSeq(f, LAMBDA c : c = "%")

ASSUME FormatsAssumption ==
  /\ Formats \subseteq Seq(Characters) /\ Strings \subseteq Seq(0 .. 255)
  /\ \A f \in Formats :
       Percent(f) # 0 => "%" \notin ToSet(Conversion(From(f, Percent(f) + 1)).rest)

(* The arguments a caller passes with a format. *)
Arguments(f) ==
  IF Percent(f) # 0 /\ Conversion(From(f, Percent(f) + 1)).conv = "s" THEN Strings
  ELSE {<<v>> : v \in Ints}

CallPrintf(f, a) ==
  /\ printing.pc = "idle"
  /\ printing' = [NoPrinting EXCEPT !.pc = "format", !.fmt = f, !.arg = a, !.rest = f]
  /\ out' = <<>>
  /\ UNCHANGED <<left, d, n, bf>>

PutPlain ==
  /\ printing.pc = "format" /\ printing.rest # <<>> /\ Head(printing.rest) # "%"
  /\ out' = Append(out, Code[Head(printing.rest)])
  /\ printing' = [printing EXCEPT !.rest = Tail(@)]
  /\ UNCHANGED <<left, d, n, bf>>

(* A conversion c: printing carries on at pc. *)
Convert(c, pc) ==
  /\ printing.pc = "format" /\ printing.rest # <<>> /\ Head(printing.rest) = "%"
  /\ c = Conversion(Tail(printing.rest))
  /\ printing' = [printing EXCEPT !.pc = pc, !.lz = c.lz /\ c.conv # "s", !.w = c.w,
                                  !.conv = c.conv, !.rest = c.rest]

SignedInt(w) == IF w < IntWords \div 2 THEN w ELSE w - IntWords

(* i2a takes the sign off; then ui2a begins. *)
StartNumber ==
  LET c == Conversion(Tail(printing.rest))
      negative == c.conv = "d" /\ SignedInt(printing.arg[1]) < 0
  IN  /\ Convert(c, "grow") /\ c.conv \in Numeric
      /\ left' = IF negative THEN IntWords - printing.arg[1] ELSE printing.arg[1]
      /\ bf' = IF negative THEN <<Code["-"]>> ELSE <<>>
      /\ d' = 1 /\ n' = 0
      /\ UNCHANGED out

StartString ==
  LET c == Conversion(Tail(printing.rest)) IN
  /\ Convert(c, "pad") /\ c.conv = "s"
  /\ bf' = printing.arg
  /\ UNCHANGED <<left, d, n, out>>

(* %c and %% print one character, what is no conversion prints nothing,    *)
(* and the end of the format after a % ends printf.                        *)
PutOther ==
  LET c == Conversion(Tail(printing.rest)) IN
  /\ Convert(c, IF c.conv = "NUL" THEN "return" ELSE "format")
  /\ c.conv \notin Numeric \union {"s"}
  /\ out' = CASE c.conv = "c" -> Append(out, printing.arg[1] % 256)
              [] c.conv = "%" -> Append(out, Code["%"])
              [] OTHER        -> out
  /\ UNCHANGED <<left, d, n, bf>>

base == IF printing.conv \in {"x", "X"} THEN 16 ELSE 10

(* while ( num / d >= base ) *)
Grows == left \div d >= base

Grow ==
  /\ printing.pc = "grow"
  /\ \/ Grows /\ d' = (d * base) % IntWords /\ UNCHANGED printing
     \/ ~Grows /\ printing' = [printing EXCEPT !.pc = "digits"] /\ UNCHANGED d
  /\ UNCHANGED <<left, n, bf, out>>

DigitCode(dgt) ==
  IF dgt < 10 THEN dgt + Code["0"]
  ELSE dgt + Code[IF printing.conv = "X" THEN "A" ELSE "a"] - 10

Significant_NotTheLast == n # 0 \/ left \div d > 0

(* n || dgt > 0 || d == 0, the last after d /= base *)
Significant == n # 0 \/ left \div d > 0 \/ d \div base = 0

PutDigit ==
  /\ printing.pc = "digits" /\ d # 0
  /\ IF Significant THEN bf' = Append(bf, DigitCode(left \div d)) /\ n' = n + 1
     ELSE UNCHANGED <<bf, n>>
  /\ left' = left % d /\ d' = d \div base
  /\ UNCHANGED <<printing, out>>

EndNumber ==
  /\ printing.pc = "digits" /\ d = 0
  /\ printing' = [printing EXCEPT !.pc = "pad"]
  /\ UNCHANGED <<left, d, n, bf, out>>

(* putchw: the padding comes before a minus, whatever it is made of. *)
putchw ==
  LET pads == IF Len(bf) < printing.w THEN printing.w - Len(bf) ELSE 0
      fc == IF printing.lz THEN Code["0"] ELSE Code[" "]
  IN  /\ printing.pc = "pad"
      /\ out' = out \o [i \in 1 .. pads |-> fc] \o bf
      /\ printing' = [printing EXCEPT !.pc = "format"]
      /\ bf' = <<>> /\ left' = 0 /\ n' = 0 /\ d' = 0

EndFormat ==
  /\ printing.pc = "format" /\ printing.rest = <<>>
  /\ printing' = [printing EXCEPT !.pc = "return"]
  /\ UNCHANGED <<left, d, n, bf, out>>

ReturnPrintf ==
  /\ printing.pc = "return"
  /\ printing' = NoPrinting /\ out' = <<>>
  /\ UNCHANGED <<left, d, n, bf>>

PrintingStep ==
  \/ PutPlain \/ StartNumber \/ StartString \/ PutOther
  \/ Grow \/ PutDigit \/ EndNumber \/ putchw \/ EndFormat \/ ReturnPrintf

PrintingNext ==
  \/ \E f \in Formats : \E a \in Arguments(f) : CallPrintf(f, a)
  \/ PrintingStep

PrintingSpec == PrintingInit /\ [][PrintingNext]_printVars
-----------------------------------------------------------------------------
(* Reading numbers. *)

(* hex2int, of at most IntBits \div 4 digits: more shift by the width of   *)
(* an int and beyond, which C leaves undefined.                            *)
hex2int(a) ==
  LET value(c) == IF c <= 57 THEN c - 48 ELSE c - 55
  IN  FoldLeftDomain(LAMBDA val, i : val + value(a[i]) * Power(16)[Len(a) - i], 0, a)
        % IntWords

IsDigit(c) == c \in Code["0"] .. Code["9"]

atoi(s) ==
  LET spaces == Leading(s, LAMBDA c : c = Code[" "])
      digits == Leading(From(s, Len(spaces) + 1), IsDigit)
  IN  FoldLeft(LAMBDA result, c : (result * 10 + c - Code["0"]) % IntWords, 0, digits)
-----------------------------------------------------------------------------
PrintingTypeOK ==
  /\ printing.pc \in {"idle", "format", "grow", "digits", "pad", "return"}
  /\ left \in Ints /\ d \in Ints /\ n \in 0 .. BufferSize
  /\ \A i \in DOMAIN out : out[i] \in 0 .. 255
  /\ printing.conv # "s" => Len(bf) < BufferSize

Argument == IF printing.conv = "d" THEN SignedInt(printing.arg[1]) ELSE printing.arg[1]

IsLetter(c) ==
  LET first == Code[IF printing.conv = "X" THEN "A" ELSE "a"] IN c \in first .. first + 5

(* What digits are worth. *)
Worth(digits) ==
  LET value(c) == CASE IsDigit(c) -> c - Code["0"]
                    [] c >= Code["a"] -> c - Code["a"] + 10
                    [] OTHER -> c - Code["A"] + 10
  IN  FoldLeft(LAMBDA num, c : num * base + value(c), 0, digits)

(* A field is at least as wide as asked, padded only to that width, and    *)
(* what follows the padding is the argument: its sign if it is negative    *)
(* and then its digits, one 0 or without a leading one.                    *)
IsRight(field) ==
  \E pads \in 0 .. Len(field) :
    LET number == From(field, pads + 1)
        minus == number # <<>> /\ number[1] = Code["-"]
        digits == IF minus THEN Tail(number) ELSE number
        magnitude == IF minus THEN -Argument ELSE Argument
    IN  /\ \A i \in 1 .. pads : field[i] = Code[IF printing.lz THEN "0" ELSE " "]
        /\ Len(field) >= printing.w /\ (pads > 0 => Len(field) = printing.w)
        /\ minus <=> Argument < 0
        /\ digits # <<>> /\ (digits[1] = Code["0"] => Len(digits) = 1)
        /\ \A i \in DOMAIN digits : IsDigit(digits[i]) \/ (base = 16 /\ IsLetter(digits[i]))
        /\ Worth(digits) = magnitude

(* What peek is given back is read as it was printed: %X by hex2int (%x    *)
(* is not: it takes a lower case digit for 32 more) and %u by atoi.        *)
ReadsBack(field) ==
  /\ printing.conv = "X" /\ Len(field) <= IntBits \div 4 /\ Code[" "] \notin ToSet(field)
       => hex2int(field) = Argument
  /\ printing.conv \in {"u", "d"} /\ Argument >= 0 => atoi(field) = Argument

(* The field a format %... has printed. *)
Field == SubSeq(out, 1, Len(out) - Len(Conversion(Tail(printing.fmt)).rest))

(* printf prints the number it is given, for every int. *)
PrintsValue ==
  printing.pc = "return" /\ printing.conv \in Numeric /\ printing.fmt[1] = "%" =>
    IsRight(Field) /\ ReadsBack(Field)
=============================================================================
