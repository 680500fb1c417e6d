------------------------------- MODULE Bignum -------------------------------
(***************************************************************************)
(* The primitives of src/main/primitives_numeric.c that compute with the   *)
(* integers of module Numerals, against the integers of TLA+.              *)
(*                                                                         *)
(* reg1 and reg2 hold the operands, the result goes to reg1.  arg1 and     *)
(* arg2 remember what the operands were.                                   *)
(***************************************************************************)
EXTENDS Numerals

CONSTANT MaxDigits   \* how many digits the operands have at most

ASSUME MaxDigitsAssumption == MaxDigits \in Nat

VARIABLES reg1, reg2, op, arg1, arg2

vars == <<reg1, reg2, op, arg1, arg2>>

\* The integers of at most n digits in their shortest form.
IntegersOf(n) == {z \in UNION {[1 .. k + 1 -> -1 .. B - 1] : k \in 0 .. n} : z \in Numeral}

Init ==
  /\ reg1 \in IntegersOf(MaxDigits) /\ reg2 \in IntegersOf(MaxDigits)
  /\ op = "none"
  /\ arg1 = reg1 /\ arg2 = reg2

\* NIL, FALSE, TRUE in a register.
Nil   == <<"NIL">>
Bool(b) == <<IF b THEN "TRUE" ELSE "FALSE">>

Primitive(name, r1, r2) ==
  /\ op = "none" /\ op' = name
  /\ reg1' = r1 /\ reg2' = r2
  /\ UNCHANGED <<arg1, arg2>>

Equal   == Primitive("=", Bool(Cmp(reg1, reg2) = 1), Bool(FALSE))
Less    == Primitive("<", Bool(Cmp(reg1, reg2) < 1), Nil)
Greater == Primitive(">", Bool(Cmp(reg1, reg2) > 1), Nil)
Plus    == Primitive("+", Add(reg1, reg2), Nil)
Minus   == Primitive("-", Sub(reg1, reg2), Nil)
AndBits == Primitive("and", BitwiseAnd(reg1, reg2), Nil)
IorBits == Primitive("ior", BitwiseIor(reg1, reg2), Nil)
XorBits == Primitive("xor", BitwiseXor(reg1, reg2), Nil)
NotBits == Primitive("not", BitwiseNot(reg1), reg2)

Times    == Primitive("*", Mul(reg1, reg2), Nil)
Divide   == Primitive("quotient", Quotient(reg1, reg2), Nil)

\* remainder is the primitive: integer_length never returns from a negative
\* integer.
RemNonNeg ==
  /\ ~Negp[arg1] /\ ~Negp[arg2]
  /\ LET reg3 == DivNonneg(reg1, reg2)
         reg4 == MulNonneg(reg2, reg3)
     IN  Primitive("remainder", Sub(reg1, reg4), Nil)

Next ==
  \/ Equal \/ Less \/ Greater \/ Plus \/ Minus \/ Times \/ Divide \/ RemNonNeg
  \/ AndBits \/ IorBits \/ XorBits \/ NotBits

Spec == Init /\ [][Next]_vars

-----------------------------------------------------------------------------
Result(n) == reg1 = Canonical[n]

(***************************************************************************)
(* Sums and differences are exact, across every carry, borrow and change   *)
(* of sign, and in the shortest form (which obj_eq relies on to recognise  *)
(* 0 and -1).                                                              *)
(***************************************************************************)
SumsExact ==
  /\ op = "+" => Result(Value[arg1] + Value[arg2])
  /\ op = "-" => Result(Value[arg1] - Value[arg2])

(***************************************************************************)
(* The order is that of the integers, for every combination of signs and   *)
(* lengths.                                                                *)
(***************************************************************************)
OrderExact ==
  /\ op = "=" => reg1 = Bool(Value[arg1] = Value[arg2])
  /\ op = "<" => reg1 = Bool(Value[arg1] < Value[arg2])
  /\ op = ">" => reg1 = Bool(Value[arg1] > Value[arg2])

Truncated(m, n) == LET abs(i) == IF i < 0 THEN -i ELSE i
                       q == abs(m) \div abs(n)
                   IN  IF (m < 0) # (n < 0) THEN -q ELSE q

(***************************************************************************)
(* Products, quotients and remainders are exact and in the shortest form.  *)
(***************************************************************************)
ProductsExact ==
  /\ op = "*" => Result(Value[arg1] * Value[arg2])
  /\ op = "quotient" /\ arg2 # Zero => Result(Truncated(Value[arg1], Value[arg2]))
  /\ op = "remainder" /\ arg2 # Zero => Result(Value[arg1] % Value[arg2])

(***************************************************************************)
(* bitwise-not is the complement: it inverts the sign too.                 *)
(***************************************************************************)
NotExact == op = "not" => Result(-Value[arg1] - 1)

\* The bits of an integer in two's complement, as far up as operands have any.
Positions == 0 .. Width * (MaxDigits + 1)
Bit(n, i) == (n \div Power2[i]) % 2

(***************************************************************************)
(* bitwise-and does what it says to every bit, those of the sign included. *)
(***************************************************************************)
AndExact ==
  op = "and" => \A i \in Positions : Bit(Value[reg1], i) = Bit(Value[arg1], i) * Bit(Value[arg2], i)

(***************************************************************************)
(* "returns the bitwise inclusive or of x and y" (bignum.c:540).           *)
(***************************************************************************)
IorExact ==
  op = "ior" => \A i \in Positions :
    Bit(Value[reg1], i) = IF Bit(Value[arg1], i) + Bit(Value[arg2], i) > 0 THEN 1 ELSE 0

=============================================================================
