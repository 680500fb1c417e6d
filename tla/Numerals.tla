------------------------------ MODULE Numerals ------------------------------
(***************************************************************************)
(* The integers of arbitrary size of src/main/bignum.c and what it         *)
(* computes with them, as functions.                                       *)
(*                                                                         *)
(* An integer is the sequence of its digits, then a small integer: <<5>>   *)
(* is the small integer 5, <<2, 3, -1>> the cell with digit 2 whose high   *)
(* part is the cell with digit 3 whose high part is NEG1.  A loop of the C *)
(* code collects digits in a list that norm then reverses; here the rest   *)
(* is computed first and the digit put in front of it.                     *)
(*                                                                         *)
(* The loops are recursive functions, of the variables of the loop.        *)
(***************************************************************************)
EXTENDS Digits, Sequences

CONSTANT Width   \* digit_width

Power2[n \in Nat] == IF n = 0 THEN 1 ELSE 2 * Power2[n - 1]

ASSUME WidthAssumption == Width \in Nat \ {0} /\ B = Power2[Width]

Integer     == Seq(Int) \ {<< >>}
NonNegative == {x \in Integer : x[Len(x)] >= 0}

Zero == <<0>>
Neg1 == <<-1>>
Pos1 == <<1>>

IsSmall(x) == Len(x) = 1

\* The shortest form that an integer has: no digit is the sign of what is below.
Shortest(z) ==
  LET n == Len(z)
  IN  /\ z[n] \in Small
      /\ \A k \in 1 .. n - 1 : z[k] \in Digit
      /\ n > 1 => (z[n] = 0 => z[n-1] > MaxSmall) /\ (z[n] = -1 => z[n-1] < B - 1)

Numeral == {z \in Integer : Shortest(z)}

\* What an integer stands for, and the shortest form of one.
Value[z \in Integer] == IF IsSmall(z) THEN z[1] ELSE z[1] + B * Value[Tail(z)]

Canonical[n \in Int] == IF n \in Small THEN <<n>> ELSE <<n % B>> \o Canonical[n \div B]

-----------------------------------------------------------------------------
\* integer_hi, integer_lo.
Hi(x) == IF ~IsSmall(x) THEN Tail(x) ELSE IF x = Neg1 THEN Neg1 ELSE Zero
Lo(x) == x[1] % B

\* One round of norm: d is put in front of n, in the shortest form.
Attach(d, n) ==
  IF n = Zero /\ d <= MaxSmall THEN <<d>>
  ELSE IF n = Neg1 /\ d >= B - 1 THEN <<d - B>>
  ELSE <<d>> \o n

Invert(x) == IF x = Zero THEN Neg1 ELSE Zero

Negp[x \in Integer] == IF Hi(x) = Zero THEN FALSE ELSE IF Hi(x) = Neg1 THEN TRUE ELSE Negp[Hi(x)]

\* The carry is 0 or -1, as an integer in the comparisons with x and y.
AddFrom[a \in Integer \X Integer \X Carry] ==
  LET x == a[1]
      y == a[2]
      s == AddDigit(Lo(x), Lo(y), a[3])
  IN  IF x = <<a[3]>> THEN y
      ELSE IF y = <<a[3]>> THEN x
      ELSE Attach(s.digit, AddFrom[<<Hi(x), Hi(y), s.negc>>])

Add(x, y) == AddFrom[<<x, y, 0>>]

SubFrom[a \in Integer \X Integer \X Carry] ==
  LET x == a[1]
      y == a[2]
      s == AddDigit(Lo(x), Complement(Lo(y)), a[3])
  IN  IF x = <<a[3]>> /\ y \in {Zero, Neg1} THEN Invert(y)
      ELSE IF y = Invert(<<a[3]>>) THEN x
      ELSE Attach(s.digit, SubFrom[<<Hi(x), Hi(y), s.negc>>])

Sub(x, y) == SubFrom[<<x, y, -1>>]

\* Mutant: the digits decide, however low they are, only if none higher did.
CmpLowFrom[a \in Integer \X Integer \X (0 .. 2)] ==
  LET x == a[1]
      y == a[2]
  IN  IF x \in {Zero, Neg1} THEN IF x = y THEN a[3] ELSE IF Negp[y] THEN 2 ELSE 0
      ELSE IF y \in {Zero, Neg1} THEN IF Negp[x] THEN 0 ELSE 2
      ELSE CmpLowFrom[<<Hi(x), Hi(y),
                        IF a[3] # 1 \/ Lo(x) = Lo(y) THEN a[3] ELSE IF Lo(x) < Lo(y) THEN 0 ELSE 2>>]

CmpLowFirst(x, y) == CmpLowFrom[<<x, y, 1>>]

\* cmp: 0, 1, 2 for less, equal, greater.
CmpFrom[a \in Integer \X Integer \X (0 .. 2)] ==
  LET x == a[1]
      y == a[2]
  IN  IF x \in {Zero, Neg1} THEN IF x = y THEN a[3] ELSE IF Negp[y] THEN 2 ELSE 0
      ELSE IF y \in {Zero, Neg1} THEN IF Negp[x] THEN 0 ELSE 2
      ELSE CmpFrom[<<Hi(x), Hi(y),
                     IF Lo(x) = Lo(y) THEN a[3] ELSE IF Lo(x) < Lo(y) THEN 0 ELSE 2>>]

Cmp(x, y) == CmpFrom[<<x, y, 1>>]

\* The high digits of x * n, carry having come from the lower ones.
ScaleFrom[a \in Digit \X Integer \X Digit] ==
  LET n     == a[1]
      x     == a[2]
      carry == a[3]
      d     == ScaleSign(n, carry)
      s     == ScaleDigit(Lo(x), n, carry)
  IN  IF x = Zero THEN IF carry <= MaxSmall THEN <<carry>> ELSE <<carry, 0>>
      ELSE IF x = Neg1 THEN IF d >= B - 1 THEN Neg1 ELSE <<d, -1>>
      ELSE Attach(s.digit, ScaleFrom[<<n, Hi(x), s.carry>>])

Scale(n, x) == IF n = 0 \/ x = Zero THEN Zero ELSE IF n = 1 THEN x ELSE ScaleFrom[<<n, x, 0>>]

\* mulnonneg: partial is what the digits of x so far have contributed.  (From
\* a negative x it does not return.)
MulFrom[a \in Integer \X NonNegative \X Integer] ==
  LET partial == a[1]
      x == a[2]
      y == a[3]
  IN  Attach(Lo(partial),
             IF Hi(x) = Zero THEN Hi(partial)
             ELSE MulFrom[<<Add(Hi(partial), Scale(Lo(Hi(x)), y)), Hi(x), y>>])

MulNonneg(x, y) == MulFrom[<<Scale(Lo(x), y), x, y>>]

ShlFrom[a \in Integer \X Carry] ==
  LET x == a[1]
  IN  IF x = <<a[2]>> THEN x
      ELSE Attach(ShlDigit(Lo(x), a[2]), ShlFrom[<<Hi(x), NegativeCarry(TopBit(Lo(x)))>>])

Shl(x) == ShlFrom[<<x, 0>>]

Shr[x \in Integer] ==
  IF x \in {Zero, Neg1} THEN x ELSE Attach(ShrDigit(Lo(x), Lo(Hi(x))), Shr[Hi(x)])

Bits[d \in Nat] == IF d = 0 THEN 0 ELSE 1 + Bits[d \div 2]

\* (From a negative integer it does not return.)
IntegerLength[x \in NonNegative] ==
  IF Hi(x) = Zero THEN Bits[Lo(x)] ELSE Width + IntegerLength[Hi(x)]

\* shift_left: single bits first, then whole digits.
ShiftFrom[a \in Integer \X Nat] ==
  LET x == a[1]
      n == a[2]
  IN  IF x = Zero \/ n = 0 THEN x
      ELSE IF n % Width # 0 THEN ShiftFrom[<<Shl(x), n - 1>>]
      ELSE ShiftFrom[<<<<0>> \o x, n - Width>>]

ShiftLeft(x, n) == ShiftFrom[<<x, n>>]

\* divnonneg: n + 1 rounds of long division, r being what remains of x.
DivFrom[a \in Integer \X Integer \X Integer \X Nat] ==
  LET q    == a[1]
      r    == a[2]
      y    == a[3]
      n    == a[4]
      fits == Cmp(r, y) >= 1
      q2   == IF fits THEN Add(Pos1, Shl(q)) ELSE Shl(q)
      r2   == IF fits THEN Sub(r, y) ELSE r
  IN  IF n = 0 THEN q2 ELSE DivFrom[<<q2, r2, Shr[y], n - 1>>]

\* Mutant: the divisor is not shifted up to the dividend.
DivNonnegUnshifted(x, y) ==
  LET n == IntegerLength[x] - IntegerLength[y]
  IN  IF n < 0 THEN Zero ELSE DivFrom[<<Zero, x, y, n>>]

DivNonneg(x, y) ==
  LET n == IntegerLength[x] - IntegerLength[y]
  IN  IF n < 0 THEN Zero ELSE DivFrom[<<Zero, x, ShiftLeft(y, n), n>>]

\* neg, #%mul and quotient of library.scm: by the absolute values.
Neg(x) == Sub(Zero, x)
Negative(x) == Cmp(x, Zero) < 1
Abs(x) == IF Negative(x) THEN Neg(x) ELSE x
Signed(x, y, z) == IF Negative(x) # Negative(y) THEN Neg(z) ELSE z

Mul(x, y)      == Signed(x, y, MulNonneg(Abs(x), Abs(y)))
Quotient(x, y) == Signed(x, y, DivNonneg(Abs(x), Abs(y)))

\* Mutant: the sign at the end is not inverted.
NotKeepingSign[x \in Integer] ==
  IF x \in {Zero, Neg1} THEN x ELSE Attach(Complement(Lo(x)), NotKeepingSign[Hi(x)])

BitwiseNotKeepingSign(x) == NotKeepingSign[x]

NotFrom[x \in Integer] ==
  IF x \in {Zero, Neg1} THEN Invert(x) ELSE Attach(Complement(Lo(x)), NotFrom[Hi(x)])

BitwiseNot(x) == NotFrom[x]

\* Mutant: it ends at either sign, as bitwise_ior does.
AndEitherFrom[a \in Integer \X Integer] ==
  IF a[1] \in {Zero, Neg1} THEN a[1]
  ELSE Attach(BitByBit[<<AndBit, Lo(a[1]), Lo(a[2])>>], AndEitherFrom[<<Hi(a[1]), Hi(a[2])>>])

BitwiseAndEitherSign(x, y) == AndEitherFrom[<<x, y>>]

AndFrom[a \in Integer \X Integer] ==
  IF a[1] = Zero THEN Zero ELSE IF a[1] = Neg1 THEN a[2]
  ELSE Attach(BitByBit[<<AndBit, Lo(a[1]), Lo(a[2])>>], AndFrom[<<Hi(a[1]), Hi(a[2])>>])

BitwiseAnd(x, y) == AndFrom[<<x, y>>]

IorFrom[a \in Integer \X Integer] ==
  IF a[1] \in {Zero, Neg1} THEN a[1]
  ELSE Attach(BitByBit[<<IorBit, Lo(a[1]), Lo(a[2])>>], IorFrom[<<Hi(a[1]), Hi(a[2])>>])

BitwiseIor(x, y) == IorFrom[<<x, y>>]

XorFrom[a \in Integer \X Integer] ==
  IF a[1] = Zero THEN a[2] ELSE IF a[1] = Neg1 THEN a[1]
  ELSE Attach(BitByBit[<<XorBit, Lo(a[1]), Lo(a[2])>>], XorFrom[<<Hi(a[1]), Hi(a[2])>>])

BitwiseXor(x, y) == XorFrom[<<x, y>>]

=============================================================================
