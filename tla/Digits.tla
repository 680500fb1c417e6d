------------------------------- MODULE Digits -------------------------------
(***************************************************************************)
(* One round of the loops of src/main/bignum.c, on single digits: what is  *)
(* done in the width of a digit, where sums and differences wrap around.   *)
(* An integer is a list of digits, least significant first, that ends in a *)
(* small integer, 0 or -1 when there is nothing else to say.               *)
(***************************************************************************)
EXTENDS Integers

CONSTANTS
  B,         \* 2^digit_width
  MaxSmall   \* MAX_SMALL_INT_VALUE

ASSUME DigitAssumption ==
  /\ B \in Nat /\ B > 1
  /\ MaxSmall \in 1 .. B-1

Digit == 0 .. B-1
Small == -1 .. MaxSmall

\* A carry is kept as the integer it stands for, with the sign changed: NEG1
\* or ZERO.
Carry == {0, -1}
NegativeCarry(c) == IF c THEN -1 ELSE 0

\* ~d
Complement(d) == B - 1 - d

\* Mutant: the digit that was carried in is left out of the comparison.
AddDigitStrict(dx, dy, negc) ==
  LET sum == (dx + dy) % B
  IN  IF negc = 0
      THEN [digit |-> sum, negc |-> NegativeCarry(sum < dy)]
      ELSE [digit |-> (sum + 1) % B, negc |-> NegativeCarry((sum + 1) % B < dy)]

\* add and sub: the sum of two digits and the carry that is told from it.
AddDigit(dx, dy, negc) ==
  LET sum == (dx + dy) % B
  IN  IF negc = 0
      THEN [digit |-> sum, negc |-> NegativeCarry(sum < dy)]
      ELSE [digit |-> (sum + 1) % B, negc |-> NegativeCarry((sum + 1) % B <= dy)]

\* scale: a digit of the product and what is carried to the next.
ScaleDigit(d, n, carry) ==
  [digit |-> (d * n + carry) % B, carry |-> (d * n + carry) \div B]

\* scale: the digit in front of a -1, which is -1 itself when it is B-1.
ScaleSign(n, carry) == (carry - n) % B

\* shl, shr.
TopBit(d) == d >= B \div 2
ShlDigit(d, negc) == ((2 * d) % B) + (IF negc = -1 THEN 1 ELSE 0)
ShrDigit(d, next) == (d \div 2) + (IF next % 2 = 1 THEN B \div 2 ELSE 0)

\* &, | and ^: bit by bit, as their tables say.
AndBit == [p \in (0 .. 1) \X (0 .. 1) |-> p[1] * p[2]]
IorBit == [p \in (0 .. 1) \X (0 .. 1) |-> IF p[1] + p[2] > 0 THEN 1 ELSE 0]
XorBit == [p \in (0 .. 1) \X (0 .. 1) |-> (p[1] + p[2]) % 2]

BitByBit[a \in {AndBit, IorBit, XorBit} \X Nat \X Nat] ==
  IF a[2] = 0 /\ a[3] = 0 THEN 0
  ELSE a[1][<<a[2] % 2, a[3] % 2>>] + 2 * BitByBit[<<a[1], a[2] \div 2, a[3] \div 2>>]

=============================================================================
