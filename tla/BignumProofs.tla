---------------------------- MODULE BignumProofs ----------------------------
(***************************************************************************)
(* The primitives of module Bignum compute what they are named for, for    *)
(* every width of a digit and integers of every length.                    *)
(*                                                                         *)
(* The loops of bignum.c are recursive functions.  Each takes three facts: *)
(* a measure that every round decreases (...GoesOn), from which lemma      *)
(* Recursion has the function defined on all its domain and lemma          *)
(* Induction its range (...Is), and, by induction on the same measure,     *)
(* what it computes from any round on (...Exact).                          *)
(***************************************************************************)
EXTENDS Bignum, TLAPS, WellFoundedInduction

-----------------------------------------------------------------------------
(* Recursion and induction.                                                *)

Less2 == {ss \in Nat \X Nat : ss[1] < ss[2]}

\* A set of natural numbers has a smallest member.
LEMMA Smallest ==
  ASSUME NEW S \in SUBSET Nat, S # {}
  PROVE  \E m \in S : \A k \in Nat : k < m => k \notin S
<1>1. IsWellFoundedOn(Less2, Nat)
  BY NatLessThanWellFounded DEF OpToRel, Less2
<1>2. PICK m \in S : \A k \in S : ~(<<k, m>> \in Less2)
  BY <1>1, WFMin
<1> QED
  BY <1>2 DEF Less2

\* The function f on D is computed by the steps given: from x it goes on with
\* next[x], until it is in Base, and combines on the way back.
Computes(f, D, Base, b, next, g) ==
  \A x \in D : f[x] = IF x \in Base THEN b[x] ELSE g[<<x, f[next[x]]>>]

\* A function with a measure that falls from argument to argument exists.
LEMMA Recursion ==
  ASSUME NEW S, NEW V, NEW m \in [S -> Nat], NEW Base, NEW b \in [S -> V],
         NEW next \in [S -> S], NEW g \in [S \X V -> V],
         \A x \in S : x \notin Base => m[next[x]] < m[x]
  PROVE  \E f \in [S -> V] : Computes(f, S, Base, b, next, g)
<1> DEFINE At(n) == {x \in S : m[x] < n}
           Solves(f, n) == f \in [At(n) -> V] /\ Computes(f, At(n), Base, b, next, g)
<1>0. ASSUME NEW n \in Nat, NEW x \in At(n), x \notin Base
      PROVE  next[x] \in At(n) /\ m[x] \in Nat /\ m[x] < n /\ next[x] \in At(m[x]) /\ x \in S
  <2>1. x \in S /\ m[x] \in Nat /\ m[x] < n /\ next[x] \in S /\ m[next[x]] \in Nat
    OBVIOUS
  <2>2. m[next[x]] < m[x]
    BY <1>0, <2>1
  <2> QED
    BY <2>1, <2>2
<1>1. ASSUME NEW n \in Nat, NEW k \in Nat, NEW f, NEW h, Solves(f, n), Solves(h, k), NEW y \in At(n), y \in At(k)
      PROVE  f[y] = h[y]
  <2> DEFINE Bad == {i \in Nat : \E x \in At(n) : x \in At(k) /\ m[x] = i /\ f[x] # h[x]}
  <2> SUFFICES ASSUME f[y] # h[y] PROVE FALSE
    OBVIOUS
  <2>1. m[y] \in Bad
    BY <1>1
  <2>2. PICK i \in Bad : \A j \in Nat : j < i => j \notin Bad
    <3> HIDE DEF Bad
    <3>1. Bad # {}
      BY <2>1
    <3>2. Bad \in SUBSET Nat
      BY DEF Bad
    <3> QED
      BY <3>1, <3>2, Smallest
  <2>3. PICK x \in At(n) : x \in At(k) /\ m[x] = i /\ f[x] # h[x]
    OBVIOUS
  <2>4. CASE x \in Base
    BY <1>1, <2>3, <2>4 DEF Computes
  <2>5. CASE x \notin Base
    <3>1. next[x] \in At(n) /\ next[x] \in At(k) /\ m[next[x]] \in Nat /\ m[next[x]] < i
      BY <1>0, <2>3, <2>5
    <3>2. f[next[x]] = h[next[x]]
      BY <2>2, <3>1
    <3> QED
      BY <1>1, <2>3, <2>5, <3>2 DEF Computes
  <2> QED
    BY <2>4, <2>5
<1>2. ASSUME NEW n \in Nat
      PROVE  \E f : Solves(f, n)
  <2> DEFINE Bad == {i \in Nat : ~ \E f : Solves(f, i)}
  <2> SUFFICES ASSUME n \in Bad PROVE FALSE
    OBVIOUS
  <2>1. PICK i \in Bad : \A j \in Nat : j < i => j \notin Bad
    <3> HIDE DEF Bad
    <3>1. Bad \in SUBSET Nat
      BY DEF Bad
    <3> QED
      BY <3>1, Smallest
  <2>2. CASE i = 0
    <3>1. At(i) = {}
      BY <2>2
    <3>2. Solves([x \in {} |-> x], i)
      BY <3>1 DEF Computes
    <3> QED
      BY <3>2
  <2>3. CASE i # 0
    <3>1. i - 1 \in Nat /\ i - 1 < i
      BY <2>3
    <3>2. PICK f : Solves(f, i - 1)
      BY <2>1, <3>1
    <3> DEFINE h == [x \in At(i) |-> IF x \in Base THEN b[x] ELSE g[<<x, f[next[x]]>>]]
    <3>3. ASSUME NEW x \in At(i), x \notin Base
          PROVE  next[x] \in At(i) /\ next[x] \in At(i - 1) /\ x \in S
      <4>1. next[x] \in At(i) /\ m[x] \in Nat /\ m[x] < i /\ next[x] \in At(m[x]) /\ x \in S
        BY <1>0, <3>3
      <4>2. m[next[x]] \in Nat /\ m[next[x]] < i - 1
        BY <4>1
      <4> QED
        BY <4>1, <4>2
    <3>4. \A x \in At(i) : x \notin Base => f[next[x]] \in V
      BY <3>2, <3>3
    <3>5. \A x \in At(i) : (IF x \in Base THEN b[x] ELSE g[<<x, f[next[x]]>>]) \in V
      BY <3>4
    <3>6. h \in [At(i) -> V]
      BY <3>5
    <3>7. \A x \in At(i - 1) : h[x] = f[x]
      <4> SUFFICES ASSUME NEW x \in At(i - 1) PROVE h[x] = f[x]
        OBVIOUS
      <4>1. x \in At(i)
        BY <3>1
      <4> QED
        BY <3>2, <4>1 DEF Computes
    <3>8. Computes(h, At(i), Base, b, next, g)
      <4> SUFFICES ASSUME NEW x \in At(i)
                   PROVE  h[x] = IF x \in Base THEN b[x] ELSE g[<<x, h[next[x]]>>]
        BY DEF Computes
      <4>1. x \notin Base => h[next[x]] = f[next[x]]
        BY <3>3, <3>7
      <4> QED
        BY <4>1
    <3> HIDE DEF h
    <3>9. Solves(h, i)
      BY <3>6, <3>8
    <3> QED
      BY <3>9
  <2> QED
    BY <2>2, <2>3
<1> DEFINE Sol(n) == CHOOSE f : Solves(f, n)
<1>3. \A n \in Nat : Solves(Sol(n), n)
  <2> TAKE n \in Nat
  <2>1. \E f : Solves(f, n)
    BY <1>2
  <2> HIDE DEF Solves
  <2> QED
    BY <2>1
<1> HIDE DEF Sol
<1> DEFINE F == [x \in S |-> Sol(m[x] + 1)[x]]
<1>4. \A x \in S : m[x] + 1 \in Nat /\ x \in At(m[x] + 1)
  OBVIOUS
<1>5. \A x \in S : F[x] \in V
  BY <1>3, <1>4
<1>6. F \in [S -> V]
  BY <1>5
<1>7. ASSUME NEW x \in S
      PROVE  F[x] = IF x \in Base THEN b[x] ELSE g[<<x, F[next[x]]>>]
  <2>1. m[x] + 1 \in Nat /\ x \in At(m[x] + 1) /\ Solves(Sol(m[x] + 1), m[x] + 1)
    BY <1>3, <1>4
  <2>2. CASE x \in Base
    BY <2>1, <2>2 DEF Computes
  <2>3. CASE x \notin Base
    <3>1. next[x] \in At(m[x] + 1) /\ next[x] \in S
      BY <1>0, <2>1, <2>3
    <3>2. m[next[x]] + 1 \in Nat /\ next[x] \in At(m[next[x]] + 1) /\ Solves(Sol(m[next[x]] + 1), m[next[x]] + 1)
      BY <1>3, <1>4, <3>1
    <3>3. Sol(m[x] + 1)[next[x]] = Sol(m[next[x]] + 1)[next[x]]
      <4> HIDE DEF At, Solves
      <4> QED
        BY <1>1, <2>1, <3>1, <3>2
    <3> QED
      BY <2>1, <2>3, <3>1, <3>3 DEF Computes
  <2> QED
    BY <2>2, <2>3
<1> HIDE DEF F
<1> QED
  BY <1>6, <1>7 DEF Computes

\* Induction on the measure m.
LEMMA Induction ==
  ASSUME NEW S, NEW m \in [S -> Nat], NEW T,
         \A x \in S : (\A y \in S : m[y] < m[x] => y \in T) => x \in T
  PROVE  \A x \in S : x \in T
<1> DEFINE Bad == {i \in Nat : \E x \in S : m[x] = i /\ x \notin T}
<1> SUFFICES ASSUME NEW z \in S, z \notin T PROVE FALSE
  OBVIOUS
<1>1. m[z] \in Bad
  OBVIOUS
<1>2. PICK i \in Bad : \A j \in Nat : j < i => j \notin Bad
  <2> HIDE DEF Bad
  <2>1. Bad # {}
    BY <1>1
  <2>2. Bad \in SUBSET Nat
    BY DEF Bad
  <2> QED
    BY <2>1, <2>2, Smallest
<1>3. PICK x \in S : m[x] = i /\ x \notin T
  OBVIOUS
<1>4. \A y \in S : m[y] < m[x] => y \in T
  BY <1>2, <1>3
<1> QED
  BY <1>3, <1>4

-----------------------------------------------------------------------------
(* Digits.                                                                 *)

\* What fits in a digit is not wrapped.
LEMMA ModBelow ==
  ASSUME NEW a \in 0 .. B-1
  PROVE  a % B = a
  BY DigitAssumption

\* What overflows a digit once loses B.
LEMMA ModAbove ==
  ASSUME NEW a \in B .. 2*B-1
  PROVE  a % B = a - B
  BY DigitAssumption

\* Quotient and remainder by B.
LEMMA DivMod ==
  ASSUME NEW a \in Nat
  PROVE  /\ a = (B * (a \div B)) + (a % B)
         /\ a % B \in Digit
         /\ a \div B \in Nat
  BY DigitAssumption DEF Digit

\* add and sub: the carry that is told from the sum by comparing it with one
\* of the digits is the one that the sum really has.
THEOREM AddDigitExact ==
  ASSUME NEW dx \in Digit, NEW dy \in Digit, NEW negc \in Carry
  PROVE  LET s == AddDigit(dx, dy, negc)
         IN  /\ s.digit \in Digit /\ s.negc \in Carry
             /\ s.digit - B * s.negc = dx + dy - negc
<1>1. CASE dx + dy < B
  <2>1. (dx + dy) % B = dx + dy
    BY <1>1, ModBelow, DigitAssumption DEF Digit
  <2>2. CASE negc = 0
    BY <1>1, <2>1, <2>2, DigitAssumption DEF AddDigit, Digit, Carry, NegativeCarry
  <2>3. CASE negc = -1 /\ dx + dy + 1 < B
    <3>1. (dx + dy + 1) % B = dx + dy + 1
      BY <2>3, ModBelow, DigitAssumption DEF Digit
    <3> QED
      BY <1>1, <2>1, <2>3, <3>1, DigitAssumption DEF AddDigit, Digit, Carry, NegativeCarry
  <2>4. CASE negc = -1 /\ dx + dy + 1 = B
    <3>1. (dx + dy + 1) % B = 0
      BY <2>4, ModAbove, DigitAssumption DEF Digit
    <3> QED
      BY <1>1, <2>1, <2>4, <3>1, DigitAssumption DEF AddDigit, Digit, Carry, NegativeCarry
  <2> QED
    BY <1>1, <2>2, <2>3, <2>4, DigitAssumption DEF Digit, Carry
<1>2. CASE dx + dy >= B
  <2>1. (dx + dy) % B = dx + dy - B
    BY <1>2, ModAbove, DigitAssumption DEF Digit
  <2>2. (dx + dy - B + 1) % B = dx + dy - B + 1
    BY <1>2, ModBelow, DigitAssumption DEF Digit
  <2> QED
    BY <1>2, <2>1, <2>2, DigitAssumption DEF AddDigit, Digit, Carry, NegativeCarry
<1> QED
  BY <1>1, <1>2, DigitAssumption DEF Digit

\* scale: neither the digit nor the carry of a product overflows a digit, and
\* together they are the product.
THEOREM ScaleDigitExact ==
  ASSUME NEW d \in Digit, NEW n \in Digit, NEW carry \in Digit
  PROVE  LET s == ScaleDigit(d, n, carry)
         IN  /\ s.digit \in Digit /\ s.carry \in Digit
             /\ s.digit + B * s.carry = d * n + carry
<1> DEFINE m == d * n + carry
<1>1. m \in Nat /\ m < B * B
  <2>1. d * n <= (B-1) * (B-1) /\ d * n \in Nat
    <3>1. d * n <= (B-1) * n
      BY DigitAssumption DEF Digit
    <3>2. (B-1) * n <= (B-1) * (B-1)
      BY DigitAssumption DEF Digit
    <3> QED
      BY <3>1, <3>2, DigitAssumption DEF Digit
  <2> QED
    BY <2>1, DigitAssumption DEF Digit
<1>2. m = (B * (m \div B)) + (m % B) /\ m % B \in Digit /\ m \div B \in Nat
  BY <1>1, DivMod
<1>3. m \div B < B
  <2> SUFFICES ASSUME m \div B >= B PROVE FALSE
    BY <1>2, DigitAssumption
  <2>1. B * (m \div B) >= B * B
    BY <1>2, DigitAssumption
  <2> QED
    BY <1>1, <1>2, <2>1, DigitAssumption DEF Digit
<1> QED
  BY <1>1, <1>2, <1>3, DigitAssumption DEF ScaleDigit, Digit

\* sub: with the digit of y complemented and -1 carried in, the same sum is
\* the difference.
COROLLARY SubDigitExact ==
  ASSUME NEW dx \in Digit, NEW dy \in Digit, NEW negc \in Carry
  PROVE  LET s == AddDigit(dx, Complement(dy), negc)
         IN  s.digit - B * (s.negc + 1) = dx - dy - (negc + 1)
<1>1. Complement(dy) \in Digit
  BY DigitAssumption DEF Complement, Digit
<1> DEFINE s == AddDigit(dx, Complement(dy), negc)
<1>2. s.digit \in Digit /\ s.negc \in Carry /\ s.digit - B * s.negc = dx + Complement(dy) - negc
  BY <1>1, AddDigitExact
<1>3. B * (s.negc + 1) = B * s.negc + B
  BY <1>2, DigitAssumption DEF Carry
<1> QED
  BY <1>2, <1>3, DigitAssumption DEF Complement, Digit, Carry

\* shl: the bit that is carried to the next digit is the one that is lost.
THEOREM ShlDigitExact ==
  ASSUME NEW d \in Digit, NEW negc \in Carry, B % 2 = 0
  PROVE  /\ ShlDigit(d, negc) \in Digit
         /\ ShlDigit(d, negc) - B * NegativeCarry(TopBit(d)) = 2 * d - negc
<1>1. B = 2 * (B \div 2) /\ B \div 2 \in Nat
  BY DigitAssumption
<1>2. CASE d < B \div 2
  <2>1. (2 * d) % B = 2 * d
    BY <1>1, <1>2, ModBelow, DigitAssumption DEF Digit
  <2> QED
    BY <1>1, <1>2, <2>1, DigitAssumption DEF ShlDigit, TopBit, NegativeCarry, Digit, Carry
<1>3. CASE d >= B \div 2
  <2>1. (2 * d) % B = 2 * d - B
    BY <1>1, <1>3, ModAbove, DigitAssumption DEF Digit
  <2> DEFINE bit == IF negc = -1 THEN 1 ELSE 0
  <2>2. ShlDigit(d, negc) = 2 * d - B + bit
    BY <2>1 DEF ShlDigit
  <2>3. bit = -negc /\ bit \in {0, 1}
    BY DEF Carry
  <2>4. NegativeCarry(TopBit(d)) = -1
    BY <1>3 DEF NegativeCarry, TopBit
  <2>5. 2 * d - B \in 0 .. B-2
    BY <1>1, <1>3, DigitAssumption DEF Digit
  <2>6. ShlDigit(d, negc) \in Digit
    BY <2>2, <2>3, <2>5, DigitAssumption DEF Digit
  <2>7. B * NegativeCarry(TopBit(d)) = -B
    BY <2>4, DigitAssumption
  <2> HIDE DEF bit
  <2> QED
    BY <2>2, <2>3, <2>6, <2>7, DigitAssumption DEF Digit, Carry
<1> QED
  BY <1>1, <1>2, <1>3, DigitAssumption DEF Digit

-----------------------------------------------------------------------------
(* Integers.                                                               *)

\* The parts of an integer.
LEMMA IntegerIs ==
  ASSUME NEW x \in Integer
  PROVE  /\ x \in Seq(Int) /\ Len(x) \in Nat /\ Len(x) >= 1
         /\ x[1] \in Int /\ x[Len(x)] \in Int
         /\ IsSmall(x) => x = <<x[1]>>
         /\ ~IsSmall(x) => /\ Tail(x) \in Integer /\ Len(Tail(x)) = Len(x) - 1
                           /\ \A k \in 1 .. Len(x) - 1 : Tail(x)[k] = x[k + 1]
<1>1. x \in Seq(Int) /\ x # << >>
  BY DEF Integer
<1>2. Len(x) \in Nat /\ Len(x) # 0
  BY <1>1
<1>3. \A k \in 1 .. Len(x) : x[k] \in Int
  BY <1>1
<1>4. IsSmall(x) => x = <<x[1]>>
  BY <1>1 DEF IsSmall
<1>5. ASSUME ~IsSmall(x)
      PROVE  /\ Tail(x) \in Integer /\ Len(Tail(x)) = Len(x) - 1
             /\ \A k \in 1 .. Len(x) - 1 : Tail(x)[k] = x[k + 1]
  <2>0. Len(x) # 1
    BY <1>5, Zenon DEF IsSmall
  <2>1. Len(x) > 1
    <3>1. PICK n \in Nat : n = Len(x)
      BY <1>2, Zenon
    <3>2. n # 0 /\ n # 1
      BY <1>2, <2>0, <3>1, Zenon
    <3>3. n > 1
      BY <3>2
    <3> QED
      BY <3>1, <3>3, Zenon
  <2>2. Tail(x) \in Seq(Int) /\ Len(Tail(x)) = Len(x) - 1 /\ \A k \in 1 .. Len(x) - 1 : Tail(x)[k] = x[k + 1]
    BY <1>1, <2>1
  <2>3. Tail(x) # << >>
    <3>1. Len(Tail(x)) # 0
      BY <1>1, <2>1, <2>2
    <3>2. Len(<< >>) = 0
      OBVIOUS
    <3> QED
      BY <3>1, <3>2, Zenon
  <2> QED
    BY <2>2, <2>3 DEF Integer
<1> QED
  BY <1>1, <1>2, <1>3, <1>4, <1>5

\* An integer without digits.
LEMMA OneIs ==
  ASSUME NEW c \in Int
  PROVE  <<c>> \in Integer /\ IsSmall(<<c>>) /\ <<c>>[1] = c /\ Len(<<c>>) = 1 /\ \A d \in Int : <<c>> = <<d>> <=> c = d
  BY DEF Integer, IsSmall

\* A digit put in front of an integer.
LEMMA PutIs ==
  ASSUME NEW d \in Int, NEW x \in Integer
  PROVE  /\ <<d>> \o x \in Integer /\ Len(<<d>> \o x) = Len(x) + 1 /\ ~IsSmall(<<d>> \o x)
         /\ (<<d>> \o x)[1] = d /\ Tail(<<d>> \o x) = x
         /\ \A k \in 1 .. Len(x) : (<<d>> \o x)[k + 1] = x[k]
<1>1. x \in Seq(Int) /\ Len(x) \in Nat /\ Len(x) >= 1
  BY IntegerIs
<1>2. /\ <<d>> \o x \in Seq(Int) /\ Len(<<d>> \o x) = Len(x) + 1
      /\ (<<d>> \o x)[1] = d
      /\ \A k \in 1 .. Len(x) : (<<d>> \o x)[k + 1] = x[k]
  BY <1>1
<1>3. Tail(<<d>> \o x) = x
  BY <1>1
<1> QED
  BY <1>1, <1>2, <1>3 DEF Integer, IsSmall

\* ZERO, NEG1 and POS1.
LEMMA ConstantsAre ==
  /\ Zero \in Integer /\ Neg1 \in Integer /\ Pos1 \in Integer /\ Zero # Neg1
  /\ Zero = <<0>> /\ Neg1 = <<-1>> /\ Pos1 = <<1>>
  /\ IsSmall(Zero) /\ IsSmall(Neg1) /\ IsSmall(Pos1)
  BY DEF Zero, Neg1, Pos1, Integer, IsSmall

\* How many rounds a loop takes to reach the sign of x, at most.
Rank(x) == IF x \in {Zero, Neg1} THEN 0 ELSE Len(x)

\* The high part and the digit of an integer: the high part is nearer to the sign.
LEMMA HiLo ==
  ASSUME NEW x \in Integer
  PROVE  /\ Hi(x) \in Integer /\ Lo(x) \in Digit /\ Rank(x) \in Nat
         /\ x \notin {Zero, Neg1} => Rank(Hi(x)) < Rank(x)
         /\ x \in {Zero, Neg1} => Hi(x) = x /\ Rank(x) = 0
<1>1. x[1] \in Int /\ Len(x) \in Nat /\ Len(x) >= 1
  BY IntegerIs
<1>2. Lo(x) \in Digit
  BY <1>1, DigitAssumption DEF Lo, Digit
<1>3. CASE IsSmall(x)
  <2>1. Hi(x) \in {Zero, Neg1} /\ Hi(x) \in Integer
    BY <1>3, ConstantsAre DEF Hi
  <2>2. x \in {Zero, Neg1} => Hi(x) = x
    BY <1>3, ConstantsAre DEF Hi
  <2> QED
    BY <1>1, <1>2, <2>1, <2>2 DEF Rank
<1>4. CASE ~IsSmall(x)
  <2>1. Hi(x) = Tail(x) /\ Tail(x) \in Integer /\ Len(Tail(x)) = Len(x) - 1
    BY <1>4, IntegerIs DEF Hi
  <2>2. x \notin {Zero, Neg1}
    BY <1>4, ConstantsAre
  <2> QED
    BY <1>1, <1>2, <2>1, <2>2 DEF Rank
<1> QED
  BY <1>3, <1>4

\* norm makes an integer of an integer.
LEMMA AttachIs ==
  ASSUME NEW d \in Int, NEW x \in Integer
  PROVE  Attach(d, x) \in Integer
  BY PutIs, OneIs, DigitAssumption DEF Attach

\* The digit of -1.
LEMMA MinusOne == (-1) % B = B - 1 /\ 0 % B = 0
  BY DigitAssumption

-----------------------------------------------------------------------------
(* Values and shortest forms.                                              *)

\* The high part is shorter.
LEMMA ValueGoesOn ==
  ASSUME NEW a \in Integer
  PROVE  /\ Len(a) \in Nat /\ a[1] \in Int
         /\ (IF IsSmall(a) THEN a ELSE Tail(a)) \in Integer
         /\ ~IsSmall(a) => Len(IF IsSmall(a) THEN a ELSE Tail(a)) < Len(a)
  BY IntegerIs

\* Value is what its definition says.
LEMMA ValueIs ==
  ASSUME NEW a \in Integer
  PROVE  Value[a] \in Int /\ Value[a] = IF IsSmall(a) THEN a[1] ELSE a[1] + B * Value[Tail(a)]
<1> DEFINE Base == {t \in Integer : IsSmall(t)}
           b == [t \in Integer |-> t[1]]
           next == [t \in Integer |-> IF IsSmall(t) THEN t ELSE Tail(t)]
           g == [p \in Integer \X Int |-> p[1][1] + B * p[2]]
           m == [t \in Integer |-> Len(t)]
           Body(f) == [t \in Integer |-> IF IsSmall(t) THEN t[1] ELSE t[1] + B * f[Tail(t)]]
<1>1. m \in [Integer -> Nat] /\ next \in [Integer -> Integer]
  BY ValueGoesOn
<1>2. \A t \in Integer : (t[1]) \in Int
  BY ValueGoesOn
<1>3. ASSUME NEW t \in Integer, NEW z \in Int
      PROVE  t[1] + B * z \in Int
  BY ValueGoesOn, DigitAssumption
<1>4. b \in [Integer -> Int] /\ g \in [Integer \X Int -> Int]
  BY <1>2, <1>3
<1>5. \A t \in Integer : t \notin Base => m[next[t]] < m[t]
  BY ValueGoesOn
<1>6. PICK f \in [Integer -> Int] : Computes(f, Integer, Base, b, next, g)
  <2> HIDE DEF Base, b, next, g, m
  <2> QED
    BY <1>1, <1>4, <1>5, Recursion
<1>7. f = Body(f)
  <2>1. ASSUME NEW t \in Integer PROVE f[t] = Body(f)[t]
    <3>1. f[t] = IF t \in Base THEN b[t] ELSE g[<<t, f[next[t]]>>]
      BY <1>6 DEF Computes
    <3>2. (IF IsSmall(t) THEN t ELSE Tail(t)) \in Integer /\ f[IF IsSmall(t) THEN t ELSE Tail(t)] \in Int
      BY ValueGoesOn
    <3>3. g[<<t, f[IF IsSmall(t) THEN t ELSE Tail(t)]>>] = t[1] + B * f[IF IsSmall(t) THEN t ELSE Tail(t)]
      BY <3>2
    <3>4. f[t] = IF IsSmall(t) THEN t[1] ELSE t[1] + B * f[IF IsSmall(t) THEN t ELSE Tail(t)]
      BY <3>1, <3>3
    <3> HIDE DEF Base, b, next, g
    <3> QED
      BY <3>4
  <2> QED
    BY <2>1
<1>8. Value = CHOOSE h : h = Body(h)
  BY DEF Value
<1>9. Value = Body(Value)
  <2> HIDE DEF Body
  <2> QED
    BY <1>7, <1>8
<1>10. \A t \in Integer : Value[t] = IF IsSmall(t) THEN t[1] ELSE t[1] + B * Value[IF IsSmall(t) THEN t ELSE Tail(t)]
  <2> SUFFICES ASSUME NEW t \in Integer
               PROVE  Value[t] = IF IsSmall(t) THEN t[1] ELSE t[1] + B * Value[IF IsSmall(t) THEN t ELSE Tail(t)]
    OBVIOUS
  <2>1. Value[t] = IF IsSmall(t) THEN t[1] ELSE t[1] + B * Value[Tail(t)]
    <3> HIDE DEF Base, b, next, g, m
    <3> QED
      BY <1>9
  <2> HIDE DEF Base, b, next, g, m, Body
  <2> QED
    BY <2>1
<1>11. \A t \in Integer : Value[t] \in Int
  <2> DEFINE T == {t \in Integer : Value[t] \in Int}
  <2>1. ASSUME NEW t \in Integer, \A u \in Integer : m[u] < m[t] => u \in T
        PROVE  t \in T
    <3>1. ASSUME ~(IsSmall(t)) PROVE Value[IF IsSmall(t) THEN t ELSE Tail(t)] \in Int
      BY <1>5, <2>1, <3>1, ValueGoesOn
    <3> HIDE DEF Base, b, next, g, m, Body
    <3> QED
      BY <1>2, <1>3, <1>10, <3>1
  <2> HIDE DEF T, m
  <2>2. \A t \in Integer : t \in T
    BY <1>1, <2>1, Induction
  <2> QED
    BY <2>2 DEF T
<1> HIDE DEF Base, b, next, g, m, Body
<1> QED
  BY <1>10, <1>11

Magnitude(n) == IF n < 0 THEN -n ELSE n

\* The quotient by B is nearer to 0.
LEMMA CanonicalGoesOn ==
  ASSUME NEW a \in Int
  PROVE  /\ Magnitude(a) \in Nat /\ a \div B \in Int /\ a % B \in Digit
         /\ a = B * (a \div B) + (a % B)
         /\ a \notin Small => Magnitude(a \div B) < Magnitude(a)
<1> DEFINE q == a \div B
           r == a % B
<1>1. B \in Nat /\ B > 1
  BY DigitAssumption
<1>2. q \in Int /\ r \in 0 .. B - 1 /\ a = B * q + r
  BY <1>1
<1> HIDE DEF q, r
<1>3. a \notin Small => a > 0 \/ a < -1
  BY DigitAssumption DEF Small
<1>4. ASSUME a > 0 PROVE q >= 0 /\ q < a
  <2>1. q >= 0
    <3> SUFFICES ASSUME q <= -1 PROVE FALSE
      BY <1>2
    <3>1. B * q <= -B
      BY <1>1, <1>2
    <3> QED
      BY <1>1, <1>2, <1>4, <3>1
  <2>2. q > 0 => B * q >= 2 * q
    BY <1>1, <1>2
  <2> QED
    BY <1>1, <1>2, <1>4, <2>1, <2>2
<1>5. ASSUME a < -1 PROVE q < 0 /\ q > a
  <2>1. q < 0
    <3> SUFFICES ASSUME q >= 0 PROVE FALSE
      BY <1>2
    <3>1. B * q >= 0
      BY <1>1, <1>2
    <3> QED
      BY <1>1, <1>2, <1>5, <3>1
  <2>2. q > a
    <3> SUFFICES ASSUME q <= a PROVE FALSE
      BY <1>2
    <3>1. B * (-q) >= 2 * (-q)
      BY <1>1, <1>2, <2>1
    <3>2. B * (-q - 1) >= 2 * (-q - 1)
      BY <1>1, <1>2, <2>1
    <3>3. B * (-q - 1) = -(B * q) - B
      BY <1>1, <1>2
    <3> QED
      BY <1>1, <1>2, <1>5, <3>1, <3>2, <3>3
  <2> QED
    BY <2>1, <2>2
<1>6. a \notin Small => Magnitude(q) < Magnitude(a)
  BY <1>2, <1>3, <1>4, <1>5 DEF Magnitude
<1>7. Magnitude(a) \in Nat
  BY DEF Magnitude
<1> QED
  BY <1>2, <1>6, <1>7 DEF q, r, Digit

\* Canonical is what its definition says.
LEMMA CanonicalIs ==
  ASSUME NEW a \in Int
  PROVE  Canonical[a] \in Integer /\ Canonical[a] = IF a \in Small THEN <<a>> ELSE <<a % B>> \o Canonical[a \div B]
<1> DEFINE Base == {t \in Int : t \in Small}
           b == [t \in Int |-> <<t>>]
           next == [t \in Int |-> t \div B]
           g == [p \in Int \X Integer |-> <<p[1] % B>> \o p[2]]
           m == [t \in Int |-> Magnitude(t)]
           Body(f) == [t \in Int |-> IF t \in Small THEN <<t>> ELSE <<t % B>> \o f[t \div B]]
<1>1. m \in [Int -> Nat] /\ next \in [Int -> Int]
  BY CanonicalGoesOn
<1>2. \A t \in Int : (<<t>>) \in Integer
  BY OneIs
<1>3. ASSUME NEW t \in Int, NEW z \in Integer
      PROVE  <<t % B>> \o z \in Integer
  BY CanonicalGoesOn, PutIs, DigitAssumption DEF Digit
<1>4. b \in [Int -> Integer] /\ g \in [Int \X Integer -> Integer]
  BY <1>2, <1>3
<1>5. \A t \in Int : t \notin Base => m[next[t]] < m[t]
  BY CanonicalGoesOn
<1>6. PICK f \in [Int -> Integer] : Computes(f, Int, Base, b, next, g)
  <2> HIDE DEF Base, b, next, g, m
  <2> QED
    BY <1>1, <1>4, <1>5, Recursion
<1>7. f = Body(f)
  <2>1. ASSUME NEW t \in Int PROVE f[t] = Body(f)[t]
    <3>1. f[t] = IF t \in Base THEN b[t] ELSE g[<<t, f[next[t]]>>]
      BY <1>6 DEF Computes
    <3>2. (t \div B) \in Int /\ f[t \div B] \in Integer
      BY CanonicalGoesOn
    <3>3. g[<<t, f[t \div B]>>] = <<t % B>> \o f[t \div B]
      BY <3>2
    <3>4. f[t] = IF t \in Small THEN <<t>> ELSE <<t % B>> \o f[t \div B]
      BY <3>1, <3>3
    <3> HIDE DEF Base, b, next, g
    <3> QED
      BY <3>4
  <2> QED
    BY <2>1
<1>8. Canonical = CHOOSE h : h = Body(h)
  BY DEF Canonical
<1>9. Canonical = Body(Canonical)
  <2> HIDE DEF Body
  <2> QED
    BY <1>7, <1>8
<1>10. \A t \in Int : Canonical[t] = IF t \in Small THEN <<t>> ELSE <<t % B>> \o Canonical[t \div B]
  <2> SUFFICES ASSUME NEW t \in Int
               PROVE  Canonical[t] = IF t \in Small THEN <<t>> ELSE <<t % B>> \o Canonical[t \div B]
    OBVIOUS
  <2>1. Canonical[t] = IF t \in Small THEN <<t>> ELSE <<t % B>> \o Canonical[t \div B]
    <3> HIDE DEF Base, b, next, g, m
    <3> QED
      BY <1>9
  <2> HIDE DEF Base, b, next, g, m, Body
  <2> QED
    BY <2>1
<1>11. \A t \in Int : Canonical[t] \in Integer
  <2> DEFINE T == {t \in Int : Canonical[t] \in Integer}
  <2>1. ASSUME NEW t \in Int, \A u \in Int : m[u] < m[t] => u \in T
        PROVE  t \in T
    <3>1. ASSUME ~(t \in Small) PROVE Canonical[t \div B] \in Integer
      BY <1>5, <2>1, <3>1, CanonicalGoesOn
    <3> HIDE DEF Base, b, next, g, m, Body
    <3> QED
      BY <1>2, <1>3, <1>10, <3>1
  <2> DEFINE D == Int
  <2> HIDE DEF T, m, Base, b, next, g, Body
  <2>2. m \in [D -> Nat] /\ \A t \in D : (\A u \in D : m[u] < m[t] => u \in T) => t \in T
    BY <1>1, <2>1
  <2>3. \A t \in D : t \in T
    <3> HIDE DEF D
    <3> QED
      BY <2>2, Induction
  <2> QED
    BY <2>3 DEF T, D
<1> HIDE DEF Base, b, next, g, m, Body
<1> QED
  BY <1>10, <1>11

\* A loop that goes from an integer to its high part and ends at its sign.
LEMMA HiGoesOn ==
  ASSUME NEW a \in Integer
  PROVE  /\ Rank(a) \in Nat /\ Hi(a) \in Integer /\ Lo(a) \in Digit
         /\ a \notin {Zero, Neg1} => Rank(Hi(a)) < Rank(a)
         /\ Hi(a) \notin {Zero, Neg1} => Rank(Hi(a)) < Rank(a)
  BY HiLo

\* Negp is what its definition says.
LEMMA NegpIs ==
  ASSUME NEW a \in Integer
  PROVE  /\ Negp[a] \in BOOLEAN
         /\ Hi(a) = Zero => ~Negp[a]
         /\ Hi(a) = Neg1 => Negp[a]
         /\ Hi(a) \notin {Zero, Neg1} => (Negp[a] <=> Negp[Hi(a)])
<1> DEFINE Base == {t \in Integer : Hi(t) \in {Zero, Neg1}}
           b == [t \in Integer |-> Hi(t) # Zero]
           next == [t \in Integer |-> Hi(t)]
           g == [p \in Integer \X BOOLEAN |-> p[2]]
           m == [t \in Integer |-> Rank(t)]
           Body(f) == [t \in Integer |-> IF Hi(t) = Zero THEN FALSE ELSE IF Hi(t) = Neg1 THEN TRUE ELSE f[Hi(t)]]
<1>1. m \in [Integer -> Nat] /\ next \in [Integer -> Integer]
  BY HiGoesOn
<1>2. \A t \in Integer : (Hi(t) # Zero) \in BOOLEAN
  BY HiGoesOn
<1>3. ASSUME NEW t \in Integer, NEW z \in BOOLEAN
      PROVE  z \in BOOLEAN
  OBVIOUS
<1>4. b \in [Integer -> BOOLEAN] /\ g \in [Integer \X BOOLEAN -> BOOLEAN]
  BY <1>2, <1>3
<1>5. \A t \in Integer : t \notin Base => m[next[t]] < m[t]
  BY HiGoesOn
<1>6. PICK f \in [Integer -> BOOLEAN] : Computes(f, Integer, Base, b, next, g)
  <2> HIDE DEF Base, b, next, g, m
  <2> QED
    BY <1>1, <1>4, <1>5, Recursion
<1>7. f = Body(f)
  <2>1. ASSUME NEW t \in Integer PROVE f[t] = Body(f)[t]
    <3>1. f[t] = IF t \in Base THEN b[t] ELSE g[<<t, f[next[t]]>>]
      BY <1>6 DEF Computes
    <3>2. (Hi(t)) \in Integer /\ f[Hi(t)] \in BOOLEAN
      BY HiGoesOn
    <3>3. g[<<t, f[Hi(t)]>>] = f[Hi(t)]
      BY <3>2
    <3>4. f[t] = IF Hi(t) \in {Zero, Neg1} THEN Hi(t) # Zero ELSE f[Hi(t)]
      BY <3>1, <3>3
    <3> HIDE DEF Base, b, next, g
    <3> QED
      BY <3>4, ConstantsAre
  <2> QED
    BY <2>1
<1>8. Negp = CHOOSE h : h = Body(h)
  BY DEF Negp
<1>9. Negp = Body(Negp)
  <2> HIDE DEF Body
  <2> QED
    BY <1>7, <1>8
<1>10. \A t \in Integer : Negp[t] = IF Hi(t) \in {Zero, Neg1} THEN Hi(t) # Zero ELSE Negp[Hi(t)]
  <2> SUFFICES ASSUME NEW t \in Integer
               PROVE  Negp[t] = IF Hi(t) \in {Zero, Neg1} THEN Hi(t) # Zero ELSE Negp[Hi(t)]
    OBVIOUS
  <2>1. Negp[t] = IF Hi(t) = Zero THEN FALSE ELSE IF Hi(t) = Neg1 THEN TRUE ELSE Negp[Hi(t)]
    <3> HIDE DEF Base, b, next, g, m
    <3> QED
      BY <1>9
  <2> HIDE DEF Base, b, next, g, m, Body
  <2> QED
    BY <2>1, ConstantsAre
<1>11. \A t \in Integer : Negp[t] \in BOOLEAN
  <2> DEFINE T == {t \in Integer : Negp[t] \in BOOLEAN}
  <2>1. ASSUME NEW t \in Integer, \A u \in Integer : m[u] < m[t] => u \in T
        PROVE  t \in T
    <3>1. ASSUME ~(Hi(t) \in {Zero, Neg1}) PROVE Negp[Hi(t)] \in BOOLEAN
      BY <1>5, <2>1, <3>1, HiGoesOn
    <3> HIDE DEF Base, b, next, g, m, Body
    <3> QED
      BY <1>2, <1>3, <1>10, <3>1
  <2> HIDE DEF T, m
  <2>2. \A t \in Integer : t \in T
    BY <1>1, <2>1, Induction
  <2> QED
    BY <2>2 DEF T
<1> HIDE DEF Base, b, next, g, m, Body
<1> QED
  BY <1>10, <1>11, ConstantsAre, Zenon

\* The parts of an integer in its shortest form are in theirs.
LEMMA NumeralIs ==
  ASSUME NEW x \in Numeral
  PROVE  /\ x \in Integer
         /\ IsSmall(x) => x[1] \in Small
         /\ ~IsSmall(x) => Tail(x) \in Numeral /\ x[1] \in Digit
         /\ ~IsSmall(x) /\ Tail(x) = Zero => x[1] > MaxSmall
         /\ ~IsSmall(x) /\ Tail(x) = Neg1 => x[1] < B - 1
<1>1. x \in Integer /\ Shortest(x)
  BY DEF Numeral
<1>2. IsSmall(x) => x[1] \in Small
  BY <1>1 DEF Shortest, IsSmall
<1>3. ASSUME ~IsSmall(x)
      PROVE  /\ Tail(x) \in Numeral /\ x[1] \in Digit
             /\ Tail(x) = Zero => x[1] > MaxSmall
             /\ Tail(x) = Neg1 => x[1] < B - 1
  <2> DEFINE y == Tail(x)
  <2>1. PICK n \in Nat : n = Len(x)
    BY <1>1, IntegerIs
  <2>2. /\ y \in Integer /\ Len(y) = n - 1 /\ n >= 2
        /\ \A k \in 1 .. n - 1 : y[k] = x[k + 1]
    <3>1. /\ y \in Integer /\ Len(y) = n - 1
          /\ \A k \in 1 .. n - 1 : y[k] = x[k + 1]
      BY <1>1, <1>3, <2>1, IntegerIs
    <3>2. Len(y) >= 1
      BY <3>1, IntegerIs
    <3> QED
      BY <3>1, <3>2
  <2> HIDE DEF y
  <2>3. /\ x[n] \in Small
        /\ \A k \in 1 .. n - 1 : x[k] \in Digit
        /\ (x[n] = 0 => x[n-1] > MaxSmall) /\ (x[n] = -1 => x[n-1] < B - 1)
    BY <1>1, <2>1, <2>2 DEF Shortest
  <2>4. y[n - 1] = x[n] /\ (n > 2 => y[n - 2] = x[n - 1])
    <3>1. n - 1 \in 1 .. n - 1 /\ (n > 2 => n - 2 \in 1 .. n - 1)
      BY <2>2
    <3> QED
      BY <2>2, <3>1
  <2>5. \A k \in 1 .. n - 2 : y[k] \in Digit
    <3> SUFFICES ASSUME NEW k \in 1 .. n - 2 PROVE y[k] \in Digit
      OBVIOUS
    <3>1. k \in 1 .. n - 1 /\ k + 1 \in 1 .. n - 1
      OBVIOUS
    <3> QED
      BY <2>2, <2>3, <3>1
  <2>6. Shortest(y)
    BY <2>2, <2>3, <2>4, <2>5 DEF Shortest
  <2>7. x[1] \in Digit
    BY <2>2, <2>3
  <2>8. y = Zero \/ y = Neg1 => n = 2
    <3>1. Len(Zero) = 1 /\ Len(Neg1) = 1
      BY ConstantsAre DEF IsSmall
    <3>2. y = Zero \/ y = Neg1 => Len(y) = 1
      BY <3>1, Zenon
    <3> QED
      BY <2>2, <3>2
  <2>9. (y = Zero => x[1] > MaxSmall) /\ (y = Neg1 => x[1] < B - 1)
    <3>1. (y = Zero => y[1] = 0) /\ (y = Neg1 => y[1] = -1)
      BY DEF Zero, Neg1
    <3> QED
      BY <2>3, <2>4, <2>8, <3>1
  <2> QED
    BY <2>2, <2>6, <2>7, <2>9 DEF Numeral, y
<1> QED
  BY <1>1, <1>2, <1>3

\* A small integer is its own shortest form.
LEMMA SmallNumeral ==
  ASSUME NEW c \in Small
  PROVE  <<c>> \in Numeral /\ Value[<<c>>] = c
<1>1. c \in Int
  BY DigitAssumption DEF Small
<1>2. <<c>> \in Integer /\ IsSmall(<<c>>) /\ <<c>>[1] = c /\ Len(<<c>>) = 1
  BY <1>1, OneIs
<1>3. Value[<<c>>] = c
  BY <1>2, ValueIs
<1>4. Shortest(<<c>>)
  BY <1>2 DEF Shortest
<1> QED
  BY <1>2, <1>3, <1>4 DEF Numeral

\* ZERO and NEG1.
LEMMA ConstantNumerals ==
  /\ Zero \in Numeral /\ Neg1 \in Numeral
  /\ Value[Zero] = 0 /\ Value[Neg1] = -1
<1>1. 0 \in Small /\ -1 \in Small
  BY DigitAssumption DEF Small
<1> QED
  BY <1>1, SmallNumeral DEF Zero, Neg1

\* A digit in front that is not the sign.
LEMMA PutNumeral ==
  ASSUME NEW d \in Digit, NEW x \in Numeral,
         x = Zero => d > MaxSmall, x = Neg1 => d < B - 1
  PROVE  <<d>> \o x \in Numeral /\ Value[<<d>> \o x] = d + B * Value[x]
<1> DEFINE y == <<d>> \o x
<1>1. d \in Int /\ x \in Integer /\ Shortest(x)
  BY DigitAssumption DEF Digit, Numeral
<1>2. PICK n \in Nat : n = Len(x) /\ n >= 1
  BY <1>1, IntegerIs
<1>3. /\ y \in Integer /\ Len(y) = n + 1 /\ ~IsSmall(y) /\ y[1] = d /\ Tail(y) = x
      /\ \A k \in 1 .. n : y[k + 1] = x[k]
  BY <1>1, <1>2, PutIs
<1>4. Value[y] = d + B * Value[x]
  BY <1>3, ValueIs
<1> HIDE DEF y
<1>5. /\ x[n] \in Small
      /\ \A k \in 1 .. n - 1 : x[k] \in Digit
      /\ n > 1 => (x[n] = 0 => x[n-1] > MaxSmall) /\ (x[n] = -1 => x[n-1] < B - 1)
  BY <1>1, <1>2 DEF Shortest
<1>6. y[n + 1] = x[n] /\ (n > 1 => y[n] = x[n - 1])
  <2>1. n \in 1 .. n /\ (n > 1 => n - 1 \in 1 .. n)
    BY <1>2
  <2> QED
    BY <1>3, <2>1
<1>7. \A k \in 1 .. n : y[k] \in Digit
  <2> SUFFICES ASSUME NEW k \in 1 .. n PROVE y[k] \in Digit
    OBVIOUS
  <2>1. CASE k = 1
    BY <1>3, <2>1
  <2>2. CASE k # 1
    <3>1. k - 1 \in 1 .. n - 1 /\ k - 1 \in 1 .. n /\ (k - 1) + 1 = k
      BY <2>2
    <3> QED
      BY <1>3, <1>5, <3>1
  <2> QED
    BY <2>1, <2>2
<1>8. n = 1 => (x[n] = 0 => d > MaxSmall) /\ (x[n] = -1 => d < B - 1)
  BY <1>1, <1>2, IntegerIs DEF Zero, Neg1, IsSmall
<1>9. Shortest(y)
  BY <1>2, <1>3, <1>5, <1>6, <1>7, <1>8 DEF Shortest
<1> QED
  BY <1>3, <1>4, <1>9 DEF Numeral, y

\* norm: a digit in front, in the shortest form.
LEMMA AttachNumeral ==
  ASSUME NEW d \in Digit, NEW x \in Numeral
  PROVE  Attach(d, x) \in Numeral /\ Value[Attach(d, x)] = d + B * Value[x]
<1>1. d \in Int /\ B \in Nat /\ d < B /\ d >= 0
  BY DigitAssumption DEF Digit
<1>2. CASE x = Zero /\ d <= MaxSmall
  <2>1. d \in Small /\ Attach(d, x) = <<d>>
    BY <1>1, <1>2 DEF Small, Attach
  <2> QED
    BY <1>1, <1>2, <2>1, SmallNumeral, ConstantNumerals
<1>3. CASE x = Neg1 /\ d >= B - 1
  <2>1. d - B = -1
    BY <1>1, <1>3
  <2>2. -1 \in Small /\ Attach(d, x) = <<-1>>
    BY <1>3, <2>1, ConstantsAre, DigitAssumption DEF Small, Attach
  <2>3. Attach(d, x) \in Numeral /\ Value[Attach(d, x)] = -1
    BY <2>2, SmallNumeral
  <2> QED
    BY <1>1, <1>3, <2>1, <2>3, ConstantNumerals
<1>4. CASE ~(x = Zero /\ d <= MaxSmall) /\ ~(x = Neg1 /\ d >= B - 1)
  <2>1. Attach(d, x) = <<d>> \o x
    BY <1>4 DEF Attach
  <2>2. (x = Zero => d > MaxSmall) /\ (x = Neg1 => d < B - 1)
    BY <1>1, <1>4, DigitAssumption
  <2> QED
    BY <2>1, <2>2, PutNumeral
<1> QED
  BY <1>2, <1>3, <1>4

\* integer_lo and integer_hi: the digit and what is above it.
LEMMA HiNumeral ==
  ASSUME NEW x \in Numeral
  PROVE  /\ x \in Integer /\ Hi(x) \in Numeral /\ Lo(x) \in Digit
         /\ Value[x] \in Int /\ Value[Hi(x)] \in Int
         /\ Value[x] = Lo(x) + B * Value[Hi(x)]
<1>1. x \in Integer /\ Lo(x) \in Digit /\ Hi(x) \in Integer
  BY NumeralIs, HiLo
<1>2. Value[x] \in Int /\ Value[Hi(x)] \in Int
  BY <1>1, ValueIs
<1>3. B \in Nat /\ B > 1 /\ MaxSmall \in 0 .. B - 1
  BY DigitAssumption
<1>4. CASE IsSmall(x)
  <2>1. PICK c \in Small : x = <<c>>
    BY <1>1, <1>4, NumeralIs, IntegerIs
  <2>2. Value[x] = c /\ Lo(x) = c % B /\ c \in Int
    BY <1>3, <2>1, SmallNumeral DEF Lo, Small
  <2>3. CASE c = -1
    <3>1. Hi(x) = Neg1 /\ Lo(x) = B - 1
      BY <1>4, <2>1, <2>2, <2>3, MinusOne DEF Hi, Neg1
    <3>2. Value[Hi(x)] = -1 /\ Hi(x) \in Numeral
      BY <3>1, ConstantNumerals
    <3> QED
      BY <1>1, <1>2, <1>3, <2>2, <2>3, <3>1, <3>2
  <2>4. CASE c # -1
    <3>0. x # Neg1
      BY <2>1, <2>2, <2>4, OneIs DEF Neg1
    <3>1. Hi(x) = Zero /\ Lo(x) = c
      BY <1>3, <1>4, <2>2, <2>4, <3>0 DEF Hi, Small
    <3>2. Value[Hi(x)] = 0 /\ Hi(x) \in Numeral
      BY <3>1, ConstantNumerals
    <3> QED
      BY <1>1, <1>2, <1>3, <2>2, <3>1, <3>2
  <2> QED
    BY <2>3, <2>4
<1>5. CASE ~IsSmall(x)
  <2>1. Hi(x) = Tail(x) /\ Tail(x) \in Numeral /\ x[1] \in Digit
    BY <1>5, NumeralIs DEF Hi
  <2>2. Lo(x) = x[1]
    <3>1. x[1] \in 0 .. B-1
      BY <2>1 DEF Digit
    <3> QED
      BY <3>1, ModBelow DEF Lo
  <2>3. Value[x] = x[1] + B * Value[Tail(x)]
    BY <1>1, <1>5, ValueIs
  <2> QED
    BY <1>1, <1>2, <2>1, <2>2, <2>3
<1> QED
  BY <1>4, <1>5

\* Division of an integer by B gives its digit and what is above it.
LEMMA DivModOf ==
  ASSUME NEW d \in Digit, NEW n \in Int
  PROVE  (d + B * n) % B = d /\ (d + B * n) \div B = n /\ d + B * n \in Int
<1>1. B \in Nat /\ B > 1 /\ d \in Nat /\ d < B
  BY DigitAssumption DEF Digit
<1> DEFINE z == d + B * n
           q == z \div B
           r == z % B
<1>2. z \in Int
  BY <1>1
<1>3. q \in Int /\ r \in 0 .. B - 1 /\ z = B * q + r
  BY <1>1, <1>2
<1>4. B * (q - n) = d - r
  BY <1>1, <1>3
<1> HIDE DEF q, r, z
<1>5. q = n
  <2>1. q - n <= -1 => B * (q - n) <= -B
    BY <1>1, <1>3
  <2>2. q - n >= 1 => B * (q - n) >= B
    BY <1>1, <1>3
  <2> QED
    BY <1>1, <1>3, <1>4, <2>1, <2>2
<1>6. r = d
  BY <1>1, <1>3, <1>4, <1>5
<1> QED
  BY <1>2, <1>5, <1>6 DEF q, r, z

\* An integer has one shortest form.
LEMMA Unique ==
  ASSUME NEW z \in Numeral
  PROVE  Canonical[Value[z]] = z
<1> DEFINE m == [x \in Numeral |-> Len(x)]
           T == {x \in Numeral : Canonical[Value[x]] = x}
<1>1. m \in [Numeral -> Nat]
  BY NumeralIs, IntegerIs
<1>2. ASSUME NEW x \in Numeral, \A y \in Numeral : m[y] < m[x] => y \in T
      PROVE  x \in T
  <2>1. x \in Integer /\ Value[x] \in Int /\ Value[x] = IF IsSmall(x) THEN x[1] ELSE x[1] + B * Value[Tail(x)]
    BY NumeralIs, ValueIs
  <2>2. CASE IsSmall(x)
    <3>1. x = <<x[1]>> /\ Value[x] = x[1] /\ x[1] \in Small
      BY <2>1, <2>2, IntegerIs, NumeralIs
    <3> QED
      BY <2>1, <3>1, CanonicalIs
  <2>3. CASE ~IsSmall(x)
    <3> DEFINE d == x[1]
               y == Tail(x)
               n == Value[Tail(x)]
    <3>1. /\ y \in Numeral /\ d \in Digit /\ n \in Int /\ Len(y) = Len(x) - 1 /\ Len(x) \in Nat
          /\ y = Zero => d > MaxSmall
          /\ y = Neg1 => d < B - 1
      BY <2>1, <2>3, NumeralIs, IntegerIs, ValueIs
    <3>2. Canonical[n] = y
      <4>1. m[y] < m[x]
        BY <3>1
      <4>2. y \in T
        BY <1>2, <3>1, <4>1
      <4> QED
        BY <4>2
    <3>3. Value[x] = d + B * n
      BY <2>1, <2>3
    <3>4. Value[x] % B = d /\ Value[x] \div B = n
      BY <3>1, <3>3, DivModOf
    <3>5. x = <<d>> \o y
      <4>1. x \in Seq(Int) /\ x # << >>
        BY <2>1 DEF Integer
      <4> QED
        BY <4>1
    <3>6. (n = 0 => d > MaxSmall) /\ (n = -1 => d < B - 1)
      <4>1. 0 \in Small /\ -1 \in Small /\ 0 \in Int /\ -1 \in Int
        BY DigitAssumption DEF Small
      <4>2. Canonical[0] = Zero /\ Canonical[-1] = Neg1
        BY <4>1, CanonicalIs DEF Zero, Neg1
      <4> QED
        BY <3>1, <3>2, <4>2
    <3> HIDE DEF d, y, n
    <3>7. Value[x] \notin Small
      <4>1. B \in Nat /\ B > 1 /\ d \in 0 .. B - 1 /\ MaxSmall \in 0 .. B - 1
        BY <3>1, DigitAssumption DEF Digit
      <4>2. n >= 1 => B * n >= B
        BY <3>1, <4>1
      <4>3. n <= -2 => B * n <= -(2 * B)
        BY <3>1, <4>1
      <4>4. (n = 0 => B * n = 0) /\ (n = -1 => B * n = -B)
        BY <4>1
      <4>5. n >= 1 \/ n <= -2 \/ n = 0 \/ n = -1
        BY <3>1
      <4>6. B * n \in Int
        BY <3>1, <4>1
      <4> QED
        BY <3>1, <3>3, <3>6, <4>1, <4>2, <4>3, <4>4, <4>5, <4>6 DEF Small
    <3> QED
      BY <2>1, <3>2, <3>4, <3>5, <3>7, CanonicalIs
  <2> QED
    BY <2>2, <2>3
<1> HIDE DEF T, m
<1>3. \A x \in Numeral : x \in T
  BY <1>1, <1>2, Induction
<1> QED
  BY <1>3 DEF T

\* An integer has one shortest form.
COROLLARY SameValue ==
  ASSUME NEW x \in Numeral, NEW y \in Numeral
  PROVE  Value[x] = Value[y] <=> x = y
  BY Unique

-----------------------------------------------------------------------------
(* Sums and differences.                                                   *)

Sums == Integer \X Integer \X Carry

\* The loops of add and sub run on two integers and a carry.
LEMMA SumsAre ==
  /\ \A a \in Sums : a[1] \in Integer /\ a[2] \in Integer /\ a[3] \in Carry
  /\ \A x \in Integer, y \in Integer, c \in Carry :
       <<x, y, c>> \in Sums /\ <<x, y, c>>[1] = x /\ <<x, y, c>>[2] = y /\ <<x, y, c>>[3] = c
  BY DEF Sums

\* How long add and sub take: as long as the operands, and when both have come
\* to their sign one round more to make the carry the same.
SumRank(a) == 2 * (Rank(a[1]) + Rank(a[2])) + (IF a[1] = <<a[3]>> THEN 0 ELSE 1)

AddRound(a) == AddDigit(Lo(a[1]), Lo(a[2]), a[3])
AddEnds(a)  == a[1] = <<a[3]>> \/ a[2] = <<a[3]>>
AddNext(a)  == <<Hi(a[1]), Hi(a[2]), AddRound(a).negc>>

\* How long add and sub take is a number.
LEMMA SumRankNat == ASSUME NEW a \in Sums PROVE SumRank(a) \in Nat
<1>1. Rank(a[1]) \in Nat /\ Rank(a[2]) \in Nat
  BY SumsAre, HiLo
<1> QED
  BY <1>1 DEF SumRank

\* A round of add comes closer to its end: either an operand gets shorter, or both
\* are signs and the carry becomes the same.
LEMMA AddGoesOn ==
  ASSUME NEW a \in Sums
  PROVE  /\ AddRound(a).digit \in Digit /\ AddNext(a) \in Sums
         /\ ~AddEnds(a) => SumRank(AddNext(a)) < SumRank(a)
<1> DEFINE x == a[1]
           y == a[2]
           c == a[3]
           s == AddRound(a)
<1>1. x \in Integer /\ y \in Integer /\ c \in Carry
  BY SumsAre
<1>2. /\ Hi(x) \in Integer /\ Lo(x) \in Digit /\ Rank(x) \in Nat /\ Rank(Hi(x)) \in Nat
      /\ Hi(y) \in Integer /\ Lo(y) \in Digit /\ Rank(y) \in Nat /\ Rank(Hi(y)) \in Nat
  BY <1>1, HiLo
<1>3. s.digit \in Digit /\ s.negc \in Carry
  BY <1>1, <1>2, AddDigitExact DEF AddRound
<1>4. AddNext(a) \in Sums /\ AddNext(a)[1] = Hi(x) /\ AddNext(a)[2] = Hi(y) /\ AddNext(a)[3] = s.negc
  BY <1>2, <1>3, SumsAre DEF AddNext
<1>5. ASSUME ~AddEnds(a)
      PROVE  SumRank(AddNext(a)) < SumRank(a)
  <2>1. x # <<c>> /\ y # <<c>>
    BY <1>5 DEF AddEnds
  <2>2. CASE x \in {Zero, Neg1} /\ y \in {Zero, Neg1}
    <3>1. Rank(x) = 0 /\ Rank(y) = 0 /\ Hi(x) = x /\ Hi(y) = y
      BY <1>1, <2>2, HiLo
    <3>2. x = <<s.negc>>
      <4>1. CASE c = 0
        <5>1. x = Neg1 /\ y = Neg1
          BY <2>1, <2>2, <4>1 DEF Zero
        <5>2. Lo(x) = B - 1 /\ Lo(y) = B - 1
          BY <5>1, MinusOne DEF Lo, Neg1
        <5>3. s.digit - B * s.negc = (B - 1) + (B - 1) - 0
          BY <1>2, <1>1, <4>1, <5>2, AddDigitExact DEF AddRound
        <5>4. s.negc = -1
          BY <1>3, <5>3, DigitAssumption DEF Carry, Digit
        <5> QED
          BY <5>1, <5>4 DEF Neg1
      <4>2. CASE c = -1
        <5>1. x = Zero /\ y = Zero
          BY <2>1, <2>2, <4>2 DEF Neg1
        <5>2. Lo(x) = 0 /\ Lo(y) = 0
          BY <5>1, DigitAssumption DEF Lo, Zero
        <5>3. s.digit - B * s.negc = 1
          BY <1>2, <1>1, <4>2, <5>2, AddDigitExact DEF AddRound
        <5>4. s.negc = 0
          BY <1>3, <5>3, DigitAssumption DEF Carry, Digit
        <5> QED
          BY <5>1, <5>4 DEF Zero
      <4> QED
        BY <1>1, <4>1, <4>2 DEF Carry
    <3> QED
      BY <1>4, <2>1, <3>1, <3>2 DEF SumRank
  <2>3. CASE ~(x \in {Zero, Neg1} /\ y \in {Zero, Neg1})
    <3>1. Rank(Hi(x)) + Rank(Hi(y)) + 1 <= Rank(x) + Rank(y)
      <4>1. CASE x \notin {Zero, Neg1}
        <5>1. Rank(Hi(x)) < Rank(x) /\ Rank(Hi(y)) <= Rank(y)
          BY <1>1, <1>2, <4>1, HiLo
        <5> QED
          BY <1>2, <5>1
      <4>2. CASE y \notin {Zero, Neg1}
        <5>1. Rank(Hi(y)) < Rank(y) /\ Rank(Hi(x)) <= Rank(x)
          BY <1>1, <1>2, <4>2, HiLo
        <5> QED
          BY <1>2, <5>1
      <4> QED
        BY <2>3, <4>1, <4>2
    <3> QED
      BY <1>2, <1>4, <2>1, <3>1 DEF SumRank
  <2> QED
    BY <2>2, <2>3
<1> QED
  BY <1>3, <1>4, <1>5

\* The recursive function is what its definition says, on all its domain.
LEMMA AddFromIs ==
  ASSUME NEW a \in Sums
  PROVE  /\ AddFrom[a] \in Integer
         /\ a[1] = <<a[3]>> => AddFrom[a] = a[2]
         /\ a[2] = <<a[3]>> /\ a[1] # <<a[3]>> => AddFrom[a] = a[1]
         /\ ~AddEnds(a) => AddFrom[a] = Attach(AddRound(a).digit, AddFrom[AddNext(a)])
<1> DEFINE Base == {t \in Sums : AddEnds(t)}
           b == [t \in Sums |-> IF t[1] = <<t[3]>> THEN t[2] ELSE t[1]]
           next == [t \in Sums |-> AddNext(t)]
           g == [p \in Sums \X Integer |-> Attach(AddRound(p[1]).digit, p[2])]
           m == [t \in Sums |-> SumRank(t)]
           Body(f) == [t \in Sums |-> IF t[1] = <<t[3]>> THEN t[2] ELSE IF t[2] = <<t[3]>> THEN t[1]
                                      ELSE Attach(AddRound(t).digit, f[AddNext(t)])]
<1>1. m \in [Sums -> Nat]
  BY SumRankNat
<1>2. b \in [Sums -> Integer]
  BY SumsAre
<1>3. next \in [Sums -> Sums]
  BY AddGoesOn
<1>4. g \in [Sums \X Integer -> Integer]
  <2> SUFFICES ASSUME NEW p \in Sums \X Integer PROVE Attach(AddRound(p[1]).digit, p[2]) \in Integer
    OBVIOUS
  <2>1. p[1] \in Sums /\ p[2] \in Integer
    OBVIOUS
  <2>2. AddRound(p[1]).digit \in Int
    BY <2>1, AddGoesOn, DigitAssumption DEF Digit
  <2> QED
    BY <2>1, <2>2, AttachIs
<1>5. \A t \in Sums : t \notin Base => m[next[t]] < m[t]
  BY AddGoesOn
<1>6. PICK f \in [Sums -> Integer] : Computes(f, Sums, Base, b, next, g)
  <2> HIDE DEF Base, b, next, g, m
  <2> QED
    BY <1>1, <1>2, <1>3, <1>4, <1>5, Recursion
<1>7. f = Body(f)
  <2>1. \A t \in Sums : f[t] = IF t \in Base THEN b[t] ELSE g[<<t, f[next[t]]>>]
    BY <1>6 DEF Computes
  <2>2. ASSUME NEW t \in Sums PROVE f[t] = Body(f)[t]
    <3>1. AddNext(t) \in Sums /\ f[AddNext(t)] \in Integer
      BY AddGoesOn
    <3>2. <<t, f[AddNext(t)]>> \in Sums \X Integer
      BY <3>1
    <3>3. g[<<t, f[AddNext(t)]>>] = Attach(AddRound(t).digit, f[AddNext(t)])
      BY <3>2
    <3> QED
      BY <2>1, <3>3 DEF AddEnds
  <2> QED
    BY <2>2
<1>8. AddFrom = CHOOSE h : h = Body(h)
  BY DEF AddFrom, Sums, AddRound, AddNext
<1>9. AddFrom = Body(AddFrom)
  <2> HIDE DEF Body
  <2> QED
    BY <1>7, <1>8
<1>10. \A t \in Sums : AddFrom[t] = IF t[1] = <<t[3]>> THEN t[2] ELSE IF t[2] = <<t[3]>> THEN t[1]
                                    ELSE Attach(AddRound(t).digit, AddFrom[AddNext(t)])
  <2> HIDE DEF m
  <2> QED
    BY <1>9
<1>11. AddFrom[a] \in Integer
  <2> DEFINE T == {t \in Sums : AddFrom[t] \in Integer}
  <2>1. ASSUME NEW t \in Sums, \A u \in Sums : m[u] < m[t] => u \in T
        PROVE  t \in T
    <3>1. CASE AddEnds(t)
      BY <1>10, <3>1, SumsAre DEF AddEnds
    <3>2. CASE ~AddEnds(t)
      <4>1. AddFrom[AddNext(t)] \in Integer /\ AddRound(t).digit \in Int
        BY <1>5, <2>1, <3>2, AddGoesOn, DigitAssumption DEF Digit
      <4> QED
        BY <1>10, <3>2, <4>1, AttachIs DEF AddEnds
    <3> QED
      BY <3>1, <3>2
  <2>2. \A t \in Sums : t \in T
    <3> HIDE DEF T, m
    <3> QED
      BY <1>1, <2>1, Induction
  <2> QED
    BY <2>2
<1> QED
  BY <1>10, <1>11, Zenon DEF AddEnds

\* What the low digits leave over is made good by the high parts.
LEMMA CarriedSum ==
  ASSUME NEW d \in Int, NEW n \in Int, NEW c \in Int,
         NEW lx \in Int, NEW hx \in Int, NEW ly \in Int, NEW hy \in Int,
         d - B * n = lx + ly - c
  PROVE  d + B * (hx + hy - n) = (lx + B * hx) + (ly + B * hy) - c
<1>1. B \in Int
  BY DigitAssumption
<1>2. B * (hx + hy - n) = B * hx + B * hy - B * n
  BY <1>1
<1>3. B * hx \in Int /\ B * hy \in Int /\ B * n \in Int
  BY <1>1
<1> QED
  BY <1>2, <1>3

\* add, from any round on: the sum of what is left of the operands and the carry.
LEMMA AddFromExact ==
  ASSUME NEW a \in Sums, a[1] \in Numeral, a[2] \in Numeral
  PROVE  AddFrom[a] \in Numeral /\ Value[AddFrom[a]] = Value[a[1]] + Value[a[2]] - a[3]
<1> DEFINE m == [t \in Sums |-> SumRank(t)]
           T == {t \in Sums : t[1] \in Numeral /\ t[2] \in Numeral =>
                   AddFrom[t] \in Numeral /\ Value[AddFrom[t]] = Value[t[1]] + Value[t[2]] - t[3]}
<1>1. m \in [Sums -> Nat]
  BY SumRankNat
<1>2. ASSUME NEW t \in Sums, \A u \in Sums : m[u] < m[t] => u \in T
      PROVE  t \in T
  <2> SUFFICES ASSUME t[1] \in Numeral, t[2] \in Numeral
               PROVE  AddFrom[t] \in Numeral /\ Value[AddFrom[t]] = Value[t[1]] + Value[t[2]] - t[3]
    OBVIOUS
  <2> DEFINE x == t[1]
             y == t[2]
             c == t[3]
             s == AddRound(t)
  <2>1. /\ Value[x] \in Int /\ Value[Hi(x)] \in Int /\ Value[x] = Lo(x) + B * Value[Hi(x)]
        /\ Value[y] \in Int /\ Value[Hi(y)] \in Int /\ Value[y] = Lo(y) + B * Value[Hi(y)]
        /\ Hi(x) \in Numeral /\ Hi(y) \in Numeral /\ Lo(x) \in Digit /\ Lo(y) \in Digit
        /\ c \in Carry
    BY HiNumeral, SumsAre
  <2>2. Value[<<c>>] = c
    BY <2>1, SmallNumeral, DigitAssumption DEF Carry, Small
  <2>3. CASE x = <<c>>
    <3>1. AddFrom[t] = y /\ Value[x] = c
      BY <2>2, <2>3, AddFromIs
    <3> QED
      BY <2>1, <3>1
  <2>4. CASE x # <<c>> /\ y = <<c>>
    <3>1. AddFrom[t] = x /\ Value[y] = c
      BY <2>2, <2>4, AddFromIs
    <3> QED
      BY <2>1, <3>1
  <2>5. CASE ~AddEnds(t)
    <3>1. /\ s.digit \in Digit /\ s.negc \in Carry /\ s.digit - B * s.negc = Lo(x) + Lo(y) - c
      BY <2>1, AddDigitExact DEF AddRound
    <3>2. AddNext(t) \in Sums /\ AddNext(t)[1] = Hi(x) /\ AddNext(t)[2] = Hi(y) /\ AddNext(t)[3] = s.negc
      BY <2>1, <3>1, NumeralIs, SumsAre DEF AddNext
    <3>3. m[AddNext(t)] < m[t]
      BY <2>5, <3>2, AddGoesOn
    <3>4. AddFrom[AddNext(t)] \in Numeral /\ Value[AddFrom[AddNext(t)]] = Value[Hi(x)] + Value[Hi(y)] - s.negc
      BY <1>2, <2>1, <3>2, <3>3
    <3>5. /\ AddFrom[t] \in Numeral
          /\ Value[AddFrom[t]] = s.digit + B * (Value[Hi(x)] + Value[Hi(y)] - s.negc)
      BY <2>5, <3>1, <3>4, AddFromIs, AttachNumeral
    <3>6. /\ s.digit \in Int /\ s.negc \in Int /\ c \in Int /\ Lo(x) \in Int /\ Lo(y) \in Int
      BY <2>1, <3>1, DigitAssumption DEF Carry, Digit
    <3>7. s.digit + B * (Value[Hi(x)] + Value[Hi(y)] - s.negc)
            = (Lo(x) + B * Value[Hi(x)]) + (Lo(y) + B * Value[Hi(y)]) - c
      <4> HIDE DEF x, y, c, s
      <4> QED
        BY <2>1, <3>1, <3>6, CarriedSum
    <3> QED
      BY <2>1, <3>5, <3>7, Zenon
  <2> QED
    BY <2>3, <2>4, <2>5 DEF AddEnds
<1> HIDE DEF T, m
<1>3. \A t \in Sums : t \in T
  BY <1>1, <1>2, Induction
<1> QED
  BY <1>3 DEF T

\* add returns the sum.
COROLLARY AddExact ==
  ASSUME NEW x \in Numeral, NEW y \in Numeral
  PROVE  Add(x, y) \in Numeral /\ Value[Add(x, y)] = Value[x] + Value[y]
<1>1. <<x, y, 0>> \in Sums /\ <<x, y, 0>>[1] = x /\ <<x, y, 0>>[2] = y /\ <<x, y, 0>>[3] = 0
  BY NumeralIs, SumsAre DEF Carry
<1>2. Value[x] \in Int /\ Value[y] \in Int
  BY HiNumeral
<1> QED
  BY <1>1, <1>2, AddFromExact DEF Add

SubRound(a) == AddDigit(Lo(a[1]), Complement(Lo(a[2])), a[3])
SubEnds(a)  == (a[1] = <<a[3]>> /\ a[2] \in {Zero, Neg1}) \/ a[2] = Invert(<<a[3]>>)
SubEnd(a)   ==
  IF a[1] = <<a[3]>> /\ a[2] \in {Zero, Neg1} THEN Invert(a[2]) ELSE a[1]
SubNext(a)  == <<Hi(a[1]), Hi(a[2]), SubRound(a).negc>>

\* A round of sub comes closer to its end, as one of add.
LEMMA SubGoesOn ==
  ASSUME NEW a \in Sums
  PROVE  /\ SubRound(a).digit \in Digit /\ SubNext(a) \in Sums /\ SumRank(a) \in Nat
         /\ ~SubEnds(a) => SumRank(SubNext(a)) < SumRank(a)
<1> DEFINE x == a[1]
           y == a[2]
           c == a[3]
           s == SubRound(a)
<1>1. x \in Integer /\ y \in Integer /\ c \in Carry
  BY SumsAre
<1>2. /\ Hi(x) \in Integer /\ Lo(x) \in Digit /\ Rank(x) \in Nat /\ Rank(Hi(x)) \in Nat
      /\ Hi(y) \in Integer /\ Lo(y) \in Digit /\ Rank(y) \in Nat /\ Rank(Hi(y)) \in Nat
      /\ Complement(Lo(y)) \in Digit
  <2>1. /\ Hi(x) \in Integer /\ Lo(x) \in Digit /\ Rank(x) \in Nat
        /\ Hi(y) \in Integer /\ Lo(y) \in Digit /\ Rank(y) \in Nat
    BY <1>1, HiLo
  <2>2. Rank(Hi(x)) \in Nat /\ Rank(Hi(y)) \in Nat
    BY <2>1, HiLo
  <2>3. Complement(Lo(y)) \in Digit
    BY <2>1, DigitAssumption DEF Complement, Digit
  <2> QED
    BY <2>1, <2>2, <2>3
<1>3. s.digit \in Digit /\ s.negc \in Carry
  BY <1>1, <1>2, AddDigitExact DEF SubRound
<1>4. SubNext(a) \in Sums /\ SubNext(a)[1] = Hi(x) /\ SubNext(a)[2] = Hi(y) /\ SubNext(a)[3] = s.negc
  BY <1>2, <1>3, SumsAre DEF SubNext
<1>5. ASSUME ~SubEnds(a)
      PROVE  SumRank(SubNext(a)) < SumRank(a)
  <2>1. ~(x = <<c>> /\ y \in {Zero, Neg1}) /\ y # Invert(<<c>>)
    BY <1>5 DEF SubEnds
  <2>2. CASE x \in {Zero, Neg1} /\ y \in {Zero, Neg1}
    <3>1. Rank(x) = 0 /\ Rank(y) = 0 /\ Hi(x) = x /\ Hi(y) = y
      BY <1>1, <2>2, HiLo
    <3>2. x # <<c>> /\ x = <<s.negc>>
      <4>1. CASE c = 0
        <5>1. x = Neg1 /\ y = Zero
          BY <2>1, <2>2, <4>1 DEF Zero, Invert
        <5>2. Lo(x) = B - 1 /\ Complement(Lo(y)) = B - 1
          BY <5>1, MinusOne, DigitAssumption DEF Lo, Neg1, Zero, Complement
        <5>3. s.digit - B * s.negc = (B - 1) + (B - 1) - 0
          BY <1>2, <1>1, <4>1, <5>2, AddDigitExact DEF SubRound
        <5>4. s.negc = -1
          BY <1>3, <5>3, DigitAssumption DEF Carry, Digit
        <5> QED
          BY <2>1, <2>2, <5>1, <5>4 DEF Neg1
      <4>2. CASE c = -1
        <5>1. x = Zero /\ y = Neg1
          BY <2>1, <2>2, <4>2, ConstantsAre DEF Invert
        <5>2. Lo(x) = 0 /\ Complement(Lo(y)) = 0
          BY <5>1, MinusOne, DigitAssumption DEF Lo, Neg1, Zero, Complement
        <5>3. s.digit - B * s.negc = 1
          BY <1>2, <1>1, <4>2, <5>2, AddDigitExact DEF SubRound
        <5>4. s.negc = 0
          BY <1>3, <5>3, DigitAssumption DEF Carry, Digit
        <5> QED
          BY <2>1, <2>2, <5>1, <5>4 DEF Zero
      <4> QED
        BY <1>1, <4>1, <4>2 DEF Carry
    <3> QED
      BY <1>4, <3>1, <3>2 DEF SumRank
  <2>3. CASE ~(x \in {Zero, Neg1} /\ y \in {Zero, Neg1})
    <3>1. Rank(Hi(x)) + Rank(Hi(y)) + 1 <= Rank(x) + Rank(y)
      <4>1. CASE x \notin {Zero, Neg1}
        <5>1. Rank(Hi(x)) < Rank(x) /\ Rank(Hi(y)) <= Rank(y)
          BY <1>1, <1>2, <4>1, HiLo
        <5> QED
          BY <1>2, <5>1
      <4>2. CASE y \notin {Zero, Neg1}
        <5>1. Rank(Hi(y)) < Rank(y) /\ Rank(Hi(x)) <= Rank(x)
          BY <1>1, <1>2, <4>2, HiLo
        <5> QED
          BY <1>2, <5>1
      <4> QED
        BY <2>3, <4>1, <4>2
    <3> QED
      BY <1>2, <1>4, <3>1 DEF SumRank
  <2> QED
    BY <2>2, <2>3
<1> QED
  BY <1>3, <1>4, <1>5, SumRankNat

\* SubFrom is what its definition says.
LEMMA SubFromIs ==
  ASSUME NEW a \in Sums
  PROVE  /\ SubFrom[a] \in Integer
         /\ SubEnds(a) => SubFrom[a] = SubEnd(a)
         /\ ~SubEnds(a) => SubFrom[a] = Attach(SubRound(a).digit, SubFrom[SubNext(a)])
<1> DEFINE Base == {t \in Sums : SubEnds(t)}
           b == [t \in Sums |-> SubEnd(t)]
           next == [t \in Sums |-> SubNext(t)]
           g == [p \in Sums \X Integer |-> Attach(SubRound(p[1]).digit, p[2])]
           m == [t \in Sums |-> SumRank(t)]
           Body(f) == [t \in Sums |-> IF t[1] = <<t[3]>> /\ t[2] \in {Zero, Neg1} THEN Invert(t[2])
             ELSE IF t[2] = Invert(<<t[3]>>) THEN t[1]
             ELSE Attach(SubRound(t).digit, f[SubNext(t)])]
<1>1. m \in [Sums -> Nat] /\ next \in [Sums -> Sums]
  BY SubGoesOn
<1>2. \A t \in Sums : (SubEnd(t)) \in Integer
  BY SumsAre, ConstantsAre DEF Invert, SubEnd
<1>3. ASSUME NEW t \in Sums, NEW z \in Integer
      PROVE  Attach(SubRound(t).digit, z) \in Integer
  BY SubGoesOn, AttachIs, DigitAssumption DEF Digit
<1>4. b \in [Sums -> Integer] /\ g \in [Sums \X Integer -> Integer]
  BY <1>2, <1>3
<1>5. \A t \in Sums : t \notin Base => m[next[t]] < m[t]
  BY SubGoesOn
<1>6. PICK f \in [Sums -> Integer] : Computes(f, Sums, Base, b, next, g)
  <2> HIDE DEF Base, b, next, g, m
  <2> QED
    BY <1>1, <1>4, <1>5, Recursion
<1>7. f = Body(f)
  <2>1. ASSUME NEW t \in Sums PROVE f[t] = Body(f)[t]
    <3>1. f[t] = IF t \in Base THEN b[t] ELSE g[<<t, f[next[t]]>>]
      BY <1>6 DEF Computes
    <3>2. (SubNext(t)) \in Sums /\ f[SubNext(t)] \in Integer
      BY SubGoesOn
    <3>3. g[<<t, f[SubNext(t)]>>] = Attach(SubRound(t).digit, f[SubNext(t)])
      BY <3>2
    <3>4. f[t] = IF SubEnds(t) THEN SubEnd(t) ELSE Attach(SubRound(t).digit, f[SubNext(t)])
      BY <3>1, <3>3
    <3> HIDE DEF Base, b, next, g
    <3> QED
      BY <3>4, Zenon DEF SubEnds, SubEnd
  <2> QED
    BY <2>1
<1>8. SubFrom = CHOOSE h : h = Body(h)
  BY DEF SubFrom, Sums, SubRound, SubNext
<1>9. SubFrom = Body(SubFrom)
  <2> HIDE DEF Body
  <2> QED
    BY <1>7, <1>8
<1>10. \A t \in Sums : SubFrom[t] = IF SubEnds(t) THEN SubEnd(t) ELSE Attach(SubRound(t).digit, SubFrom[SubNext(t)])
  <2> SUFFICES ASSUME NEW t \in Sums
               PROVE  SubFrom[t] = IF SubEnds(t) THEN SubEnd(t) ELSE Attach(SubRound(t).digit, SubFrom[SubNext(t)])
    OBVIOUS
  <2>1. SubFrom[t] = IF t[1] = <<t[3]>> /\ t[2] \in {Zero, Neg1} THEN Invert(t[2])
             ELSE IF t[2] = Invert(<<t[3]>>) THEN t[1]
             ELSE Attach(SubRound(t).digit, SubFrom[SubNext(t)])
    <3> HIDE DEF Base, b, next, g, m
    <3> QED
      BY <1>9
  <2> HIDE DEF Base, b, next, g, m, Body
  <2> QED
    BY <2>1, Zenon DEF SubEnds, SubEnd
<1>11. \A t \in Sums : SubFrom[t] \in Integer
  <2> DEFINE T == {t \in Sums : SubFrom[t] \in Integer}
  <2>1. ASSUME NEW t \in Sums, \A u \in Sums : m[u] < m[t] => u \in T
        PROVE  t \in T
    <3>1. ASSUME ~(SubEnds(t)) PROVE SubFrom[SubNext(t)] \in Integer
      BY <1>5, <2>1, <3>1, SubGoesOn
    <3> HIDE DEF Base, b, next, g, m, Body
    <3> QED
      BY <1>2, <1>3, <1>10, <3>1
  <2> HIDE DEF T, m, Base, b, next, g, Body
  <2>2. \A t \in Sums : t \in T
    BY <1>1, <2>1, Induction
  <2> QED
    BY <2>2 DEF T
<1> HIDE DEF Base, b, next, g, m, Body
<1> QED
  BY <1>10, <1>11, Zenon DEF SubEnds, SubEnd

\* The same for a difference.
LEMMA CarriedDifference ==
  ASSUME NEW d \in Int, NEW n \in Int, NEW c \in Int,
         NEW lx \in Int, NEW hx \in Int, NEW ly \in Int, NEW hy \in Int,
         d - B * n - B = lx - ly - (c + 1)
  PROVE  d + B * (hx - hy - 1 - n) = (lx + B * hx) - (ly + B * hy) - 1 - c
<1>1. B \in Int
  BY DigitAssumption
<1>2. B * (hx - hy - 1 - n) = B * hx - B * hy - B * n - B
  BY <1>1
<1>3. B * hx \in Int /\ B * hy \in Int /\ B * n \in Int
  BY <1>1
<1> QED
  BY <1>1, <1>2, <1>3

\* invert: the other sign.
LEMMA InvertExact ==
  ASSUME NEW x \in {Zero, Neg1}
  PROVE  Invert(x) \in Numeral /\ Value[Invert(x)] = -Value[x] - 1
  BY ConstantNumerals, ConstantsAre DEF Invert

\* sub, from any round on: the difference of what is left of the operands, less the
\* borrow.
LEMMA SubFromExact ==
  ASSUME NEW a \in Sums, a[1] \in Numeral, a[2] \in Numeral
  PROVE  SubFrom[a] \in Numeral /\ Value[SubFrom[a]] = Value[a[1]] - Value[a[2]] - 1 - a[3]
<1> DEFINE m == [t \in Sums |-> SumRank(t)]
           T == {t \in Sums : t[1] \in Numeral /\ t[2] \in Numeral =>
                   SubFrom[t] \in Numeral /\ Value[SubFrom[t]] = Value[t[1]] - Value[t[2]] - 1 - t[3]}
<1>1. m \in [Sums -> Nat]
  BY SumRankNat
<1>2. ASSUME NEW t \in Sums, \A u \in Sums : m[u] < m[t] => u \in T
      PROVE  t \in T
  <2> SUFFICES ASSUME t[1] \in Numeral, t[2] \in Numeral
               PROVE  SubFrom[t] \in Numeral /\ Value[SubFrom[t]] = Value[t[1]] - Value[t[2]] - 1 - t[3]
    OBVIOUS
  <2> DEFINE x == t[1]
             y == t[2]
             c == t[3]
             s == SubRound(t)
  <2>1. /\ Value[x] \in Int /\ Value[Hi(x)] \in Int /\ Value[x] = Lo(x) + B * Value[Hi(x)]
        /\ Value[y] \in Int /\ Value[Hi(y)] \in Int /\ Value[y] = Lo(y) + B * Value[Hi(y)]
        /\ Hi(x) \in Numeral /\ Hi(y) \in Numeral /\ Lo(x) \in Digit /\ Lo(y) \in Digit
        /\ c \in Carry
    BY HiNumeral, SumsAre
  <2>2. <<c>> \in {Zero, Neg1} /\ Value[<<c>>] = c /\ c \in Int
    BY <2>1, ConstantNumerals DEF Carry, Zero, Neg1
  <2>3. CASE x = <<c>> /\ y \in {Zero, Neg1}
    <3>1. SubFrom[t] = Invert(y) /\ Value[x] = c
      BY <2>2, <2>3, SubFromIs DEF SubEnds, SubEnd
    <3>2. Invert(y) \in Numeral /\ Value[Invert(y)] = -Value[y] - 1
      BY <2>3, InvertExact
    <3> QED
      BY <2>1, <2>2, <3>1, <3>2
  <2>4. CASE ~(x = <<c>> /\ y \in {Zero, Neg1}) /\ y = Invert(<<c>>)
    <3>1. SubFrom[t] = x
      BY <2>4, SubFromIs DEF SubEnds, SubEnd
    <3>2. Value[y] = -c - 1
      BY <2>2, <2>4, InvertExact
    <3> QED
      BY <2>1, <2>2, <3>1, <3>2
  <2>5. CASE ~SubEnds(t)
    <3>1. s.digit \in Digit /\ s.negc \in Carry /\ s.digit - B * s.negc - B = Lo(x) - Lo(y) - (c + 1)
      <4>1. Complement(Lo(y)) \in Digit /\ Complement(Lo(y)) = B - 1 - Lo(y)
        BY <2>1, DigitAssumption DEF Complement, Digit
      <4>2. s.digit \in Digit /\ s.negc \in Carry /\ s.digit - B * s.negc = Lo(x) + Complement(Lo(y)) - c
        BY <2>1, <4>1, AddDigitExact DEF SubRound
      <4>3. B * s.negc \in Int
        BY <4>2, DigitAssumption DEF Carry
      <4> HIDE DEF x, y, c, s
      <4> QED
        BY <2>1, <4>1, <4>2, <4>3, DigitAssumption DEF Digit, Carry
    <3>2. SubNext(t) \in Sums /\ SubNext(t)[1] = Hi(x) /\ SubNext(t)[2] = Hi(y) /\ SubNext(t)[3] = s.negc
      BY <2>1, <3>1, NumeralIs, SumsAre DEF SubNext
    <3>3. m[SubNext(t)] < m[t]
      BY <2>5, <3>2, SubGoesOn
    <3>4. SubFrom[SubNext(t)] \in Numeral /\ Value[SubFrom[SubNext(t)]] = Value[Hi(x)] - Value[Hi(y)] - 1 - s.negc
      BY <1>2, <2>1, <3>2, <3>3
    <3>0. SubFrom[t] = Attach(s.digit, SubFrom[SubNext(t)])
      BY <2>5, SubFromIs
    <3>5. /\ SubFrom[t] \in Numeral
          /\ Value[SubFrom[t]] = s.digit + B * (Value[Hi(x)] - Value[Hi(y)] - 1 - s.negc)
      BY <3>0, <3>1, <3>4, AttachNumeral
    <3>6. /\ s.digit \in Int /\ s.negc \in Int /\ c \in Int /\ Lo(x) \in Int /\ Lo(y) \in Int
      BY <2>1, <3>1, DigitAssumption DEF Carry, Digit
    <3>7. s.digit + B * (Value[Hi(x)] - Value[Hi(y)] - 1 - s.negc)
            = (Lo(x) + B * Value[Hi(x)]) - (Lo(y) + B * Value[Hi(y)]) - 1 - c
      <4> HIDE DEF x, y, c, s
      <4> QED
        BY <2>1, <3>1, <3>6, CarriedDifference
    <3> QED
      BY <2>1, <3>5, <3>7, Zenon
  <2> QED
    BY <2>3, <2>4, <2>5 DEF SubEnds
<1> HIDE DEF T, m
<1>3. \A t \in Sums : t \in T
  BY <1>1, <1>2, Induction
<1> QED
  BY <1>3 DEF T

\* sub returns the difference.
COROLLARY SubExact ==
  ASSUME NEW x \in Numeral, NEW y \in Numeral
  PROVE  Sub(x, y) \in Numeral /\ Value[Sub(x, y)] = Value[x] - Value[y]
<1>1. <<x, y, -1>> \in Sums /\ <<x, y, -1>>[1] = x /\ <<x, y, -1>>[2] = y /\ <<x, y, -1>>[3] = -1
  BY NumeralIs, SumsAre DEF Carry
<1>2. Value[x] \in Int /\ Value[y] \in Int
  BY HiNumeral
<1> QED
  BY <1>1, <1>2, SubFromExact DEF Sub

-----------------------------------------------------------------------------
(* Order.                                                                  *)

\* The sign of an integer is that of its high part, if that is another one.
LEMMA SignOfHigh ==
  ASSUME NEW x \in Numeral
  PROVE  (Value[x] < 0) <=> (Value[Hi(x)] < 0)
<1> DEFINE v == Value[x]
           h == Value[Hi(x)]
           d == Lo(x)
<1>1. v \in Int /\ h \in Int /\ v = d + B * h /\ d \in 0 .. B - 1 /\ B \in Nat /\ B > 1
  BY HiNumeral, DigitAssumption DEF Digit
<1> HIDE DEF v, h, d
<1>2. h < 0 => B * h <= -B
  BY <1>1
<1>3. h >= 0 => B * h >= 0
  BY <1>1
<1>4. B * h \in Int
  BY <1>1
<1>5. v < 0 <=> h < 0
  BY <1>1, <1>2, <1>3, <1>4
<1> QED
  BY <1>5 DEF v, h

\* negp tells the sign.
LEMMA NegpExact ==
  ASSUME NEW z \in Numeral
  PROVE  Negp[z] <=> Value[z] < 0
<1> DEFINE m == [x \in Numeral |-> Rank(x)]
           T == {x \in Numeral : Negp[x] <=> Value[x] < 0}
<1>1. m \in [Numeral -> Nat]
  BY NumeralIs, HiLo
<1>2. ASSUME NEW x \in Numeral, \A y \in Numeral : m[y] < m[x] => y \in T
      PROVE  x \in T
  <2>1. x \in Integer /\ Hi(x) \in Numeral /\ Value[x] \in Int /\ Value[Hi(x)] \in Int
    BY HiNumeral
  <2>2. (Value[x] < 0) <=> (Value[Hi(x)] < 0)
    BY SignOfHigh
  <2>3. CASE Hi(x) = Zero
    <3>1. ~Negp[x]
      BY <2>1, <2>3, NegpIs, Zenon
    <3>2. Value[Hi(x)] = 0
      BY <2>3, ConstantNumerals
    <3> QED
      BY <2>2, <3>1, <3>2
  <2>4. CASE Hi(x) = Neg1
    <3>1. Negp[x]
      BY <2>1, <2>4, NegpIs, Zenon
    <3>2. Value[Hi(x)] = -1
      BY <2>4, ConstantNumerals
    <3> QED
      BY <2>2, <3>1, <3>2
  <2>5. CASE Hi(x) \notin {Zero, Neg1}
    <3>1. m[Hi(x)] < m[x]
      BY <2>1, <2>5, HiGoesOn
    <3>2. Negp[Hi(x)] <=> Value[Hi(x)] < 0
      BY <1>2, <2>1, <3>1
    <3>3. Negp[x] <=> Negp[Hi(x)]
      BY <2>1, <2>5, NegpIs, Zenon
    <3> QED
      BY <2>2, <3>2, <3>3, Zenon
  <2> QED
    BY <2>3, <2>4, <2>5
<1> HIDE DEF T, m
<1>3. \A x \in Numeral : x \in T
  BY <1>1, <1>2, Induction
<1> QED
  BY <1>3 DEF T

Pairs == Integer \X Integer \X (0 .. 2)

CmpEnds(a) == a[1] \in {Zero, Neg1} \/ a[2] \in {Zero, Neg1}
CmpEnd(a)  ==
  IF a[1] \in {Zero, Neg1} THEN IF a[1] = a[2] THEN a[3] ELSE IF Negp[a[2]] THEN 2 ELSE 0
  ELSE IF Negp[a[1]] THEN 0 ELSE 2
CmpLast(a) == IF Lo(a[1]) = Lo(a[2]) THEN a[3] ELSE IF Lo(a[1]) < Lo(a[2]) THEN 0 ELSE 2
CmpNext(a) == <<Hi(a[1]), Hi(a[2]), CmpLast(a)>>

\* A round of cmp shortens x.
LEMMA CmpGoesOn ==
  ASSUME NEW a \in Pairs
  PROVE  /\ a[1] \in Integer /\ a[2] \in Integer /\ a[3] \in 0 .. 2
         /\ Rank(a[1]) \in Nat /\ CmpLast(a) \in 0 .. 2 /\ CmpNext(a) \in Pairs
         /\ CmpNext(a)[1] = Hi(a[1]) /\ CmpNext(a)[2] = Hi(a[2]) /\ CmpNext(a)[3] = CmpLast(a)
         /\ ~CmpEnds(a) => Rank(CmpNext(a)[1]) < Rank(a[1])
<1>1. a[1] \in Integer /\ a[2] \in Integer /\ a[3] \in 0 .. 2
  BY DEF Pairs
<1>2. Hi(a[1]) \in Integer /\ Hi(a[2]) \in Integer
  BY <1>1, HiLo
<1>3. CmpLast(a) \in 0 .. 2
  BY <1>1 DEF CmpLast
<1>4. /\ CmpNext(a) \in Pairs
      /\ CmpNext(a)[1] = Hi(a[1]) /\ CmpNext(a)[2] = Hi(a[2]) /\ CmpNext(a)[3] = CmpLast(a)
  BY <1>2, <1>3 DEF CmpNext, Pairs
<1>5. ~CmpEnds(a) => Rank(CmpNext(a)[1]) < Rank(a[1])
  BY <1>1, <1>4, HiLo DEF CmpEnds
<1> QED
  BY <1>1, <1>3, <1>4, <1>5, HiLo

\* CmpFrom is what its definition says.
LEMMA CmpFromIs ==
  ASSUME NEW a \in Pairs
  PROVE  /\ CmpFrom[a] \in 0 .. 2
         /\ CmpEnds(a) => CmpFrom[a] = CmpEnd(a)
         /\ ~CmpEnds(a) => CmpFrom[a] = CmpFrom[CmpNext(a)]
<1> DEFINE Base == {t \in Pairs : CmpEnds(t)}
           b == [t \in Pairs |-> CmpEnd(t)]
           next == [t \in Pairs |-> CmpNext(t)]
           g == [p \in Pairs \X (0 .. 2) |-> p[2]]
           m == [t \in Pairs |-> Rank(t[1])]
           Body(f) == [t \in Pairs |-> IF t[1] \in {Zero, Neg1}
             THEN IF t[1] = t[2] THEN t[3] ELSE IF Negp[t[2]] THEN 2 ELSE 0
             ELSE IF t[2] \in {Zero, Neg1} THEN IF Negp[t[1]] THEN 0 ELSE 2
             ELSE f[CmpNext(t)]]
<1>1. m \in [Pairs -> Nat] /\ next \in [Pairs -> Pairs]
  BY CmpGoesOn
<1>2. \A t \in Pairs : (CmpEnd(t)) \in (0 .. 2)
  BY CmpGoesOn DEF CmpEnd
<1>3. ASSUME NEW t \in Pairs, NEW z \in (0 .. 2)
      PROVE  z \in (0 .. 2)
  OBVIOUS
<1>4. b \in [Pairs -> (0 .. 2)] /\ g \in [Pairs \X (0 .. 2) -> (0 .. 2)]
  BY <1>2, <1>3
<1>5. \A t \in Pairs : t \notin Base => m[next[t]] < m[t]
  BY CmpGoesOn
<1>6. PICK f \in [Pairs -> (0 .. 2)] : Computes(f, Pairs, Base, b, next, g)
  <2> HIDE DEF Base, b, next, g, m
  <2> QED
    BY <1>1, <1>4, <1>5, Recursion
<1>7. f = Body(f)
  <2>1. ASSUME NEW t \in Pairs PROVE f[t] = Body(f)[t]
    <3>1. f[t] = IF t \in Base THEN b[t] ELSE g[<<t, f[next[t]]>>]
      BY <1>6 DEF Computes
    <3>2. (CmpNext(t)) \in Pairs /\ f[CmpNext(t)] \in (0 .. 2)
      BY CmpGoesOn
    <3>3. g[<<t, f[CmpNext(t)]>>] = f[CmpNext(t)]
      BY <3>2
    <3>4. f[t] = IF CmpEnds(t) THEN CmpEnd(t) ELSE f[CmpNext(t)]
      BY <3>1, <3>3
    <3> HIDE DEF Base, b, next, g
    <3> QED
      BY <3>4, Zenon DEF CmpEnds, CmpEnd
  <2> QED
    BY <2>1
<1>8. CmpFrom = CHOOSE h : h = Body(h)
  BY DEF CmpFrom, Pairs, CmpNext, CmpLast
<1>9. CmpFrom = Body(CmpFrom)
  <2> HIDE DEF Body
  <2> QED
    BY <1>7, <1>8
<1>10. \A t \in Pairs : CmpFrom[t] = IF CmpEnds(t) THEN CmpEnd(t) ELSE CmpFrom[CmpNext(t)]
  <2> SUFFICES ASSUME NEW t \in Pairs
               PROVE  CmpFrom[t] = IF CmpEnds(t) THEN CmpEnd(t) ELSE CmpFrom[CmpNext(t)]
    OBVIOUS
  <2>1. CmpFrom[t] = IF t[1] \in {Zero, Neg1}
             THEN IF t[1] = t[2] THEN t[3] ELSE IF Negp[t[2]] THEN 2 ELSE 0
             ELSE IF t[2] \in {Zero, Neg1} THEN IF Negp[t[1]] THEN 0 ELSE 2
             ELSE CmpFrom[CmpNext(t)]
    <3> HIDE DEF Base, b, next, g, m
    <3> QED
      BY <1>9
  <2> HIDE DEF Base, b, next, g, m, Body
  <2> QED
    BY <2>1, Zenon DEF CmpEnds, CmpEnd
<1>11. \A t \in Pairs : CmpFrom[t] \in (0 .. 2)
  <2> DEFINE T == {t \in Pairs : CmpFrom[t] \in (0 .. 2)}
  <2>1. ASSUME NEW t \in Pairs, \A u \in Pairs : m[u] < m[t] => u \in T
        PROVE  t \in T
    <3>1. ASSUME ~(CmpEnds(t)) PROVE CmpFrom[CmpNext(t)] \in (0 .. 2)
      BY <1>5, <2>1, <3>1, CmpGoesOn
    <3> HIDE DEF Base, b, next, g, m, Body
    <3> QED
      BY <1>2, <1>3, <1>10, <3>1
  <2> HIDE DEF T, m, Base, b, next, g, Body
  <2>2. \A t \in Pairs : t \in T
    BY <1>1, <2>1, Induction
  <2> QED
    BY <2>2 DEF T
<1> HIDE DEF Base, b, next, g, m, Body
<1> QED
  BY <1>10, <1>11, Zenon DEF CmpEnds, CmpEnd

\* The digits of two integers decide when the high parts are equal.
LEMMA OrderOfHigh ==
  ASSUME NEW x \in Numeral, NEW y \in Numeral
  PROVE  /\ Value[Hi(x)] < Value[Hi(y)] => Value[x] < Value[y]
         /\ Value[Hi(x)] = Value[Hi(y)] => (Value[x] < Value[y] <=> Lo(x) < Lo(y)) /\ (Value[x] = Value[y] <=> Lo(x) = Lo(y))
<1> DEFINE i == Value[Hi(x)]
           j == Value[Hi(y)]
           d == Lo(x)
           e == Lo(y)
<1>1. /\ i \in Int /\ j \in Int /\ Value[x] = d + B * i /\ Value[y] = e + B * j
      /\ d \in 0 .. B - 1 /\ e \in 0 .. B - 1 /\ B \in Nat /\ B > 1
  BY HiNumeral, DigitAssumption DEF Digit
<1> HIDE DEF i, j, d, e
<1>2. B * i \in Int /\ B * j \in Int /\ B * (j - i) = B * j - B * i
  BY <1>1
<1>3. ASSUME i < j PROVE Value[x] < Value[y]
  <2>1. j - i >= 1
    BY <1>1, <1>3
  <2>2. B * (j - i) >= B
    BY <1>1, <2>1
  <2> QED
    BY <1>1, <1>2, <2>2
<1>4. ASSUME i = j PROVE (Value[x] < Value[y] <=> d < e) /\ (Value[x] = Value[y] <=> d = e)
  <2>1. B * i = B * j
    BY <1>4
  <2> QED
    BY <1>1, <1>2, <2>1
<1> QED
  BY <1>3, <1>4 DEF i, j, d, e

Comparison(i, j, r) == IF i < j THEN 0 ELSE IF i = j THEN r ELSE 2

\* cmp, from any round on: the high parts decide, or else what was found before.
LEMMA CmpFromExact ==
  ASSUME NEW a \in Pairs, a[1] \in Numeral, a[2] \in Numeral
  PROVE  CmpFrom[a] = Comparison(Value[a[1]], Value[a[2]], a[3])
<1> DEFINE m == [t \in Pairs |-> Rank(t[1])]
           T == {t \in Pairs : t[1] \in Numeral /\ t[2] \in Numeral =>
                   CmpFrom[t] = Comparison(Value[t[1]], Value[t[2]], t[3])}
<1>1. m \in [Pairs -> Nat]
  BY CmpGoesOn
<1>2. ASSUME NEW t \in Pairs, \A u \in Pairs : m[u] < m[t] => u \in T
      PROVE  t \in T
  <2> SUFFICES ASSUME t[1] \in Numeral, t[2] \in Numeral
               PROVE  CmpFrom[t] = Comparison(Value[t[1]], Value[t[2]], t[3])
    OBVIOUS
  <2> DEFINE x == t[1]
             y == t[2]
             i == Value[x]
             j == Value[y]
  <2>1. /\ i \in Int /\ j \in Int /\ Value[Hi(x)] \in Int /\ Value[Hi(y)] \in Int
        /\ Hi(x) \in Numeral /\ Hi(y) \in Numeral
        /\ Lo(x) \in Int /\ Lo(y) \in Int
    BY HiNumeral, DigitAssumption DEF Digit
  <2>2. (x = y <=> i = j) /\ (x = Zero <=> i = 0) /\ (x = Neg1 <=> i = -1) /\ (y = Zero <=> j = 0) /\ (y = Neg1 <=> j = -1)
    BY SameValue, ConstantNumerals
  <2>3. (Negp[x] <=> i < 0) /\ (Negp[y] <=> j < 0)
    BY NegpExact
  <2>4. CASE x \in {Zero, Neg1}
    <3>1. CmpFrom[t] = IF x = y THEN t[3] ELSE IF Negp[y] THEN 2 ELSE 0
      BY <2>4, CmpFromIs, Zenon DEF CmpEnds, CmpEnd
    <3>3. CmpFrom[t] = IF i = j THEN t[3] ELSE IF j < 0 THEN 2 ELSE 0
      <4> HIDE DEF x, y, i, j
      <4> QED
        BY <2>2, <2>3, <3>1, Zenon
    <3>4. i = 0 \/ i = -1
      BY <2>2, <2>4
    <3> HIDE DEF x, y, i, j
    <3>2. CmpFrom[t] = Comparison(i, j, t[3])
      BY <2>1, <3>3, <3>4 DEF Comparison
    <3> QED
      BY <3>2 DEF x, y, i, j
  <2>5. CASE x \notin {Zero, Neg1} /\ y \in {Zero, Neg1}
    <3>1. CmpFrom[t] = IF Negp[x] THEN 0 ELSE 2
      BY <2>5, CmpFromIs, Zenon DEF CmpEnds, CmpEnd
    <3>3. CmpFrom[t] = IF i < 0 THEN 0 ELSE 2
      <4> HIDE DEF x, y, i, j
      <4> QED
        BY <2>3, <3>1, Zenon
    <3>4. (j = 0 \/ j = -1) /\ i # 0 /\ i # -1
      BY <2>2, <2>5
    <3> HIDE DEF x, y, i, j
    <3>2. CmpFrom[t] = Comparison(i, j, t[3])
      BY <2>1, <3>3, <3>4 DEF Comparison
    <3> QED
      BY <3>2 DEF x, y, i, j
  <2>6. CASE ~CmpEnds(t)
    <3>1. CmpFrom[t] = CmpFrom[CmpNext(t)]
      BY <2>6, CmpFromIs
    <3>2. /\ CmpNext(t) \in Pairs /\ m[CmpNext(t)] < m[t]
          /\ CmpNext(t)[1] = Hi(x) /\ CmpNext(t)[2] = Hi(y) /\ CmpNext(t)[3] = CmpLast(t)
      BY <2>6, CmpGoesOn
    <3>3. CmpFrom[CmpNext(t)] = Comparison(Value[Hi(x)], Value[Hi(y)], CmpLast(t))
      BY <1>2, <2>1, <3>2
    <3>4. Comparison(Value[Hi(x)], Value[Hi(y)], CmpLast(t)) = Comparison(i, j, t[3])
      <4>1. /\ Value[Hi(x)] < Value[Hi(y)] => i < j
            /\ Value[Hi(y)] < Value[Hi(x)] => j < i
            /\ Value[Hi(x)] = Value[Hi(y)] => (i < j <=> Lo(x) < Lo(y)) /\ (i = j <=> Lo(x) = Lo(y))
        BY OrderOfHigh
      <4>2. CmpLast(t) = IF Lo(x) = Lo(y) THEN t[3] ELSE IF Lo(x) < Lo(y) THEN 0 ELSE 2
        BY DEF CmpLast
      <4> HIDE DEF x, y, i, j
      <4> QED
        BY <2>1, <4>1, <4>2 DEF Comparison
    <3> QED
      BY <3>1, <3>3, <3>4
  <2> QED
    BY <2>4, <2>5, <2>6 DEF CmpEnds
<1> HIDE DEF T, m
<1>3. \A t \in Pairs : t \in T
  BY <1>1, <1>2, Induction
<1> QED
  BY <1>3 DEF T

\* cmp returns the order of its operands.
COROLLARY CmpExact ==
  ASSUME NEW x \in Numeral, NEW y \in Numeral
  PROVE  Cmp(x, y) = IF Value[x] < Value[y] THEN 0 ELSE IF Value[x] = Value[y] THEN 1 ELSE 2
<1>1. <<x, y, 1>> \in Pairs /\ <<x, y, 1>>[1] = x /\ <<x, y, 1>>[2] = y /\ <<x, y, 1>>[3] = 1
  BY NumeralIs DEF Pairs
<1> QED
  BY <1>1, CmpFromExact DEF Cmp, Comparison

-----------------------------------------------------------------------------
(* Complement.                                                             *)

\* A round of bitwise_not.
LEMMA NotGoesOn ==
  ASSUME NEW a \in Integer
  PROVE  /\ Rank(a) \in Nat /\ Hi(a) \in Integer /\ Complement(Lo(a)) \in Digit /\ Complement(Lo(a)) = B - 1 - Lo(a)
         /\ a \notin {Zero, Neg1} => Rank(Hi(a)) < Rank(a)
<1>1. Lo(a) \in Digit
  BY HiLo
<1>2. Complement(Lo(a)) \in Digit /\ Complement(Lo(a)) = B - 1 - Lo(a)
  BY <1>1, DigitAssumption DEF Complement, Digit
<1> QED
  BY <1>2, HiLo

\* NotFrom is what its definition says.
LEMMA NotFromIs ==
  ASSUME NEW a \in Integer
  PROVE  NotFrom[a] \in Integer /\ NotFrom[a] = IF a \in {Zero, Neg1} THEN Invert(a) ELSE Attach(Complement(Lo(a)), NotFrom[Hi(a)])
<1> DEFINE Base == {t \in Integer : t \in {Zero, Neg1}}
           b == [t \in Integer |-> Invert(t)]
           next == [t \in Integer |-> Hi(t)]
           g == [p \in Integer \X Integer |-> Attach(Complement(Lo(p[1])), p[2])]
           m == [t \in Integer |-> Rank(t)]
           Body(f) == [t \in Integer |-> IF t \in {Zero, Neg1} THEN Invert(t) ELSE Attach(Complement(Lo(t)), f[Hi(t)])]
<1>1. m \in [Integer -> Nat] /\ next \in [Integer -> Integer]
  BY NotGoesOn
<1>2. \A t \in Integer : (Invert(t)) \in Integer
  BY ConstantsAre DEF Invert
<1>3. ASSUME NEW t \in Integer, NEW z \in Integer
      PROVE  Attach(Complement(Lo(t)), z) \in Integer
  BY NotGoesOn, AttachIs, DigitAssumption DEF Digit
<1>4. b \in [Integer -> Integer] /\ g \in [Integer \X Integer -> Integer]
  BY <1>2, <1>3
<1>5. \A t \in Integer : t \notin Base => m[next[t]] < m[t]
  BY NotGoesOn
<1>6. PICK f \in [Integer -> Integer] : Computes(f, Integer, Base, b, next, g)
  <2> HIDE DEF Base, b, next, g, m
  <2> QED
    BY <1>1, <1>4, <1>5, Recursion
<1>7. f = Body(f)
  <2>1. ASSUME NEW t \in Integer PROVE f[t] = Body(f)[t]
    <3>1. f[t] = IF t \in Base THEN b[t] ELSE g[<<t, f[next[t]]>>]
      BY <1>6 DEF Computes
    <3>2. (Hi(t)) \in Integer /\ f[Hi(t)] \in Integer
      BY NotGoesOn
    <3>3. g[<<t, f[Hi(t)]>>] = Attach(Complement(Lo(t)), f[Hi(t)])
      BY <3>2
    <3>4. f[t] = IF t \in {Zero, Neg1} THEN Invert(t) ELSE Attach(Complement(Lo(t)), f[Hi(t)])
      BY <3>1, <3>3
    <3> HIDE DEF Base, b, next, g
    <3> QED
      BY <3>4
  <2> QED
    BY <2>1
<1>8. NotFrom = CHOOSE h : h = Body(h)
  BY DEF NotFrom
<1>9. NotFrom = Body(NotFrom)
  <2> HIDE DEF Body
  <2> QED
    BY <1>7, <1>8
<1>10. \A t \in Integer : NotFrom[t] = IF t \in {Zero, Neg1} THEN Invert(t) ELSE Attach(Complement(Lo(t)), NotFrom[Hi(t)])
  <2> SUFFICES ASSUME NEW t \in Integer
               PROVE  NotFrom[t] = IF t \in {Zero, Neg1} THEN Invert(t) ELSE Attach(Complement(Lo(t)), NotFrom[Hi(t)])
    OBVIOUS
  <2>1. NotFrom[t] = IF t \in {Zero, Neg1} THEN Invert(t) ELSE Attach(Complement(Lo(t)), NotFrom[Hi(t)])
    <3> HIDE DEF Base, b, next, g, m
    <3> QED
      BY <1>9
  <2> HIDE DEF Base, b, next, g, m, Body
  <2> QED
    BY <2>1
<1>11. \A t \in Integer : NotFrom[t] \in Integer
  <2> DEFINE T == {t \in Integer : NotFrom[t] \in Integer}
  <2>1. ASSUME NEW t \in Integer, \A u \in Integer : m[u] < m[t] => u \in T
        PROVE  t \in T
    <3>1. ASSUME ~(t \in {Zero, Neg1}) PROVE NotFrom[Hi(t)] \in Integer
      BY <1>5, <2>1, <3>1, NotGoesOn
    <3> HIDE DEF Base, b, next, g, m, Body
    <3> QED
      BY <1>2, <1>3, <1>10, <3>1
  <2> HIDE DEF T, m, Base, b, next, g, Body
  <2>2. \A t \in Integer : t \in T
    BY <1>1, <2>1, Induction
  <2> QED
    BY <2>2 DEF T
<1> HIDE DEF Base, b, next, g, m, Body
<1> QED
  BY <1>10, <1>11

\* bitwise_not returns -x - 1.
LEMMA NotFromExact ==
  ASSUME NEW z \in Numeral
  PROVE  NotFrom[z] \in Numeral /\ Value[NotFrom[z]] = -Value[z] - 1
<1> DEFINE m == [x \in Numeral |-> Rank(x)]
           T == {x \in Numeral : NotFrom[x] \in Numeral /\ Value[NotFrom[x]] = -Value[x] - 1}
<1>1. m \in [Numeral -> Nat]
  BY NumeralIs, HiLo
<1>2. ASSUME NEW x \in Numeral, \A y \in Numeral : m[y] < m[x] => y \in T
      PROVE  x \in T
  <2>1. /\ x \in Integer /\ Hi(x) \in Numeral /\ Lo(x) \in Digit
        /\ Value[Hi(x)] \in Int /\ Value[x] = Lo(x) + B * Value[Hi(x)]
    BY HiNumeral
  <2>2. CASE x \in {Zero, Neg1}
    <3>1. NotFrom[x] = Invert(x)
      BY <2>1, <2>2, NotFromIs
    <3> QED
      BY <2>2, <3>1, InvertExact
  <2>3. CASE x \notin {Zero, Neg1}
    <3>1. m[Hi(x)] < m[x]
      BY <2>1, <2>3, HiLo
    <3>2. NotFrom[Hi(x)] \in Numeral /\ Value[NotFrom[Hi(x)]] = -Value[Hi(x)] - 1
      BY <1>2, <2>1, <3>1
    <3>3. NotFrom[x] = Attach(Complement(Lo(x)), NotFrom[Hi(x)])
      BY <2>1, <2>3, NotFromIs
    <3>4. /\ NotFrom[x] \in Numeral
          /\ Value[NotFrom[x]] = (B - 1 - Lo(x)) + B * (-Value[Hi(x)] - 1)
      BY <2>1, <3>2, <3>3, NotGoesOn, AttachNumeral
    <3>5. B * (-Value[Hi(x)] - 1) = -(B * Value[Hi(x)]) - B /\ B * Value[Hi(x)] \in Int
      BY <2>1, DigitAssumption
    <3> QED
      BY <2>1, <3>4, <3>5, DigitAssumption DEF Digit
  <2> QED
    BY <2>2, <2>3
<1> HIDE DEF T, m
<1>3. \A x \in Numeral : x \in T
  BY <1>1, <1>2, Induction
<1> QED
  BY <1>3 DEF T

-----------------------------------------------------------------------------
(* Products.                                                               *)

\* The high part of an integer that is not negative is not negative.
LEMMA HiNonNegative ==
  ASSUME NEW x \in NonNegative
  PROVE  /\ x \in Integer /\ x # Neg1 /\ Hi(x) \in NonNegative /\ Lo(x) \in Digit /\ Rank(x) \in Nat
         /\ Hi(x) # Zero => Rank(Hi(x)) < Rank(x)
<1>1. x \in Integer /\ x[Len(x)] >= 0
  BY DEF NonNegative
<1>2. x # Neg1
  <2>1. Neg1[Len(Neg1)] = -1
    BY OneIs DEF Neg1
  <2> QED
    BY <1>1, <2>1
<1>3. Zero \in NonNegative
  <2>1. Zero[Len(Zero)] = 0
    BY OneIs DEF Zero
  <2> QED
    BY <2>1, ConstantsAre DEF NonNegative
<1>4. Hi(x) \in NonNegative
  <2>1. CASE IsSmall(x)
    BY <1>2, <1>3, <2>1 DEF Hi
  <2>2. CASE ~IsSmall(x)
    <3>1. PICK n \in Nat : n = Len(x) /\ n >= 1
      BY <1>1, IntegerIs
    <3>2. /\ Hi(x) = Tail(x) /\ Tail(x) \in Integer /\ Len(Tail(x)) = n - 1 /\ n - 1 >= 1
          /\ \A k \in 1 .. n - 1 : Tail(x)[k] = x[k + 1]
      <4>1. /\ Tail(x) \in Integer /\ Len(Tail(x)) = n - 1
            /\ \A k \in 1 .. n - 1 : Tail(x)[k] = x[k + 1]
        BY <1>1, <2>2, <3>1, IntegerIs
      <4>2. n - 1 >= 1
        BY <3>1, <4>1, IntegerIs
      <4> QED
        BY <2>2, <4>1, <4>2 DEF Hi
    <3>3. Tail(x)[n - 1] = x[n]
      BY <3>2
    <3> QED
      BY <1>1, <3>1, <3>2, <3>3 DEF NonNegative
  <2> QED
    BY <2>1, <2>2
<1>5. Hi(x) # Zero => Rank(Hi(x)) < Rank(x)
  <2>1. CASE x = Zero
    BY <1>1, <2>1, HiLo
  <2>2. CASE x # Zero
    BY <1>1, <1>2, <2>2, HiLo
  <2> QED
    BY <2>1, <2>2
<1> QED
  BY <1>1, <1>2, <1>4, <1>5, HiLo

\* The sign of an integer is that of its last part.
LEMMA SignIs ==
  ASSUME NEW z \in Numeral
  PROVE  Value[z] >= 0 => z \in NonNegative
<1> DEFINE m == [x \in Numeral |-> Len(x)]
           T == {x \in Numeral : Value[x] >= 0 => x \in NonNegative}
<1>1. m \in [Numeral -> Nat]
  BY NumeralIs, IntegerIs
<1>2. ASSUME NEW x \in Numeral, \A y \in Numeral : m[y] < m[x] => y \in T
      PROVE  x \in T
  <2> SUFFICES ASSUME Value[x] >= 0 PROVE x \in NonNegative
    OBVIOUS
  <2>1. x \in Integer
    BY NumeralIs
  <2>2. CASE IsSmall(x)
    <3>1. Value[x] = x[1] /\ Len(x) = 1
      BY <2>1, <2>2, ValueIs DEF IsSmall
    <3> QED
      BY <2>1, <3>1 DEF NonNegative
  <2>3. CASE ~IsSmall(x)
    <3>1. PICK n \in Nat : n = Len(x) /\ n >= 1
      BY <2>1, IntegerIs
    <3>2. /\ Hi(x) = Tail(x) /\ Tail(x) \in Numeral /\ Tail(x) \in Integer /\ Len(Tail(x)) = n - 1 /\ n - 1 >= 1
          /\ \A k \in 1 .. n - 1 : Tail(x)[k] = x[k + 1]
      <4>1. /\ Tail(x) \in Integer /\ Len(Tail(x)) = n - 1
            /\ \A k \in 1 .. n - 1 : Tail(x)[k] = x[k + 1]
        BY <2>1, <2>3, <3>1, IntegerIs
      <4>2. n - 1 >= 1
        BY <3>1, <4>1, IntegerIs
      <4> QED
        BY <2>3, <4>1, <4>2, NumeralIs DEF Hi
    <3>3. m[Tail(x)] < m[x]
      BY <3>1, <3>2
    <3>4. Value[x] \in Int /\ Value[Hi(x)] \in Int /\ (Value[x] < 0 <=> Value[Hi(x)] < 0)
      BY HiNumeral, SignOfHigh
    <3>5. Value[Tail(x)] >= 0
      BY <3>2, <3>4
    <3>6. Tail(x) \in NonNegative
      BY <1>2, <3>2, <3>3, <3>5
    <3>7. Tail(x)[n - 1] = x[n]
      BY <3>2
    <3> QED
      BY <2>1, <3>1, <3>2, <3>6, <3>7 DEF NonNegative
  <2> QED
    BY <2>2, <2>3
<1> HIDE DEF T, m
<1>3. \A x \in Numeral : x \in T
  BY <1>1, <1>2, Induction
<1> QED
  BY <1>3 DEF T

Scalings == Digit \X Integer \X Digit

ScaleRound(a) == ScaleDigit(Lo(a[2]), a[1], a[3])
ScaleEnd(a)   ==
  IF a[2] = Zero THEN IF a[3] <= MaxSmall THEN <<a[3]>> ELSE <<a[3], 0>>
  ELSE IF ScaleSign(a[1], a[3]) >= B - 1 THEN Neg1 ELSE <<ScaleSign(a[1], a[3]), -1>>
ScaleNext(a)  == <<a[1], Hi(a[2]), ScaleRound(a).carry>>

\* A round of scale.
LEMMA ScaleGoesOn ==
  ASSUME NEW a \in Scalings
  PROVE  /\ a[1] \in Digit /\ a[2] \in Integer /\ a[3] \in Digit /\ Lo(a[2]) \in Digit
         /\ ScaleRound(a).digit \in Digit /\ ScaleRound(a).carry \in Digit
         /\ ScaleRound(a).digit + B * ScaleRound(a).carry = Lo(a[2]) * a[1] + a[3]
         /\ ScaleNext(a) \in Scalings /\ Rank(a[2]) \in Nat
         /\ ScaleNext(a)[1] = a[1] /\ ScaleNext(a)[2] = Hi(a[2]) /\ ScaleNext(a)[3] = ScaleRound(a).carry
         /\ a[2] \notin {Zero, Neg1} => Rank(ScaleNext(a)[2]) < Rank(a[2])
         /\ ScaleSign(a[1], a[3]) \in Digit
<1>1. a[1] \in Digit /\ a[2] \in Integer /\ a[3] \in Digit
  BY DEF Scalings
<1>2. Hi(a[2]) \in Integer /\ Lo(a[2]) \in Digit
  BY <1>1, HiLo
<1>3. /\ ScaleRound(a).digit \in Digit /\ ScaleRound(a).carry \in Digit
      /\ ScaleRound(a).digit + B * ScaleRound(a).carry = Lo(a[2]) * a[1] + a[3]
  BY <1>1, <1>2, ScaleDigitExact DEF ScaleRound
<1>4. /\ ScaleNext(a) \in Scalings
      /\ ScaleNext(a)[1] = a[1] /\ ScaleNext(a)[2] = Hi(a[2]) /\ ScaleNext(a)[3] = ScaleRound(a).carry
  BY <1>1, <1>2, <1>3 DEF ScaleNext, Scalings
<1>5. ScaleSign(a[1], a[3]) \in Digit
  BY <1>1, DigitAssumption DEF ScaleSign, Digit
<1> QED
  BY <1>1, <1>2, <1>3, <1>4, <1>5, HiLo

\* An integer of one digit.
LEMMA TwoParts ==
  ASSUME NEW d \in Int, NEW c \in Int
  PROVE  <<d, c>> \in Integer /\ <<d, c>> = <<d>> \o <<c>>
<1> DEFINE z == <<d>> \o <<c>>
<1>1. <<c>> \in Integer /\ <<c>>[1] = c /\ Len(<<c>>) = 1
  BY OneIs
<1>2. /\ z \in Integer /\ Len(z) = 2 /\ z[1] = d
      /\ \A k \in 1 .. 1 : z[k + 1] = c
  BY <1>1, PutIs
<1>3. z[2] = c
  <2>1. z[1 + 1] = c /\ 1 + 1 = 2
    BY <1>2
  <2> QED
    BY <2>1
<1> HIDE DEF z
<1>4. z \in Seq(Int)
  BY <1>2 DEF Integer
<1>5. z = <<z[1], z[2]>>
  BY <1>2, <1>4
<1> QED
  BY <1>2, <1>3, <1>5 DEF z

\* The end of scale.
LEMMA ScaleParts ==
  ASSUME NEW t \in Scalings
  PROVE  ScaleEnd(t) \in Integer
<1>1. t[3] \in Int /\ ScaleSign(t[1], t[3]) \in Int
  BY ScaleGoesOn, DigitAssumption DEF Digit
<1>2. 0 \in Int /\ -1 \in Int
  OBVIOUS
<1>3. <<t[3]>> \in Integer /\ <<t[3], 0>> \in Integer /\ Neg1 \in Integer
  BY <1>1, <1>2, OneIs, TwoParts, ConstantsAre, Zenon
<1>4. <<ScaleSign(t[1], t[3]), -1>> \in Integer
  BY <1>1, <1>2, TwoParts, Zenon
<1> QED
  BY <1>3, <1>4 DEF ScaleEnd

\* ScaleFrom is what its definition says.
LEMMA ScaleFromIs ==
  ASSUME NEW a \in Scalings
  PROVE  /\ ScaleFrom[a] \in Integer
         /\ a[2] \in {Zero, Neg1} => ScaleFrom[a] = ScaleEnd(a)
         /\ a[2] \notin {Zero, Neg1} => ScaleFrom[a] = Attach(ScaleRound(a).digit, ScaleFrom[ScaleNext(a)])
<1> DEFINE Base == {t \in Scalings : t[2] \in {Zero, Neg1}}
           b == [t \in Scalings |-> ScaleEnd(t)]
           next == [t \in Scalings |-> ScaleNext(t)]
           g == [p \in Scalings \X Integer |-> Attach(ScaleRound(p[1]).digit, p[2])]
           m == [t \in Scalings |-> Rank(t[2])]
           Body(f) == [t \in Scalings |-> IF t[2] = Zero THEN IF t[3] <= MaxSmall THEN <<t[3]>> ELSE <<t[3], 0>>
             ELSE IF t[2] = Neg1
             THEN IF ScaleSign(t[1], t[3]) >= B - 1 THEN Neg1 ELSE <<ScaleSign(t[1], t[3]), -1>>
             ELSE Attach(ScaleRound(t).digit, f[ScaleNext(t)])]
<1>1. m \in [Scalings -> Nat] /\ next \in [Scalings -> Scalings]
  BY ScaleGoesOn
<1>2. \A t \in Scalings : (ScaleEnd(t)) \in Integer
  BY ScaleParts
<1>3. ASSUME NEW t \in Scalings, NEW z \in Integer
      PROVE  Attach(ScaleRound(t).digit, z) \in Integer
  BY ScaleGoesOn, AttachIs, DigitAssumption DEF Digit
<1>4. b \in [Scalings -> Integer] /\ g \in [Scalings \X Integer -> Integer]
  BY <1>2, <1>3
<1>5. \A t \in Scalings : t \notin Base => m[next[t]] < m[t]
  BY ScaleGoesOn
<1>6. PICK f \in [Scalings -> Integer] : Computes(f, Scalings, Base, b, next, g)
  <2> HIDE DEF Base, b, next, g, m
  <2> QED
    BY <1>1, <1>4, <1>5, Recursion
<1>7. f = Body(f)
  <2>1. ASSUME NEW t \in Scalings PROVE f[t] = Body(f)[t]
    <3>1. f[t] = IF t \in Base THEN b[t] ELSE g[<<t, f[next[t]]>>]
      BY <1>6 DEF Computes
    <3>2. (ScaleNext(t)) \in Scalings /\ f[ScaleNext(t)] \in Integer
      BY ScaleGoesOn
    <3>3. g[<<t, f[ScaleNext(t)]>>] = Attach(ScaleRound(t).digit, f[ScaleNext(t)])
      BY <3>2
    <3>4. f[t] = IF t[2] \in {Zero, Neg1} THEN ScaleEnd(t) ELSE Attach(ScaleRound(t).digit, f[ScaleNext(t)])
      BY <3>1, <3>3
    <3> HIDE DEF Base, b, next, g
    <3> QED
      BY <3>4, ConstantsAre, Zenon DEF ScaleEnd
  <2> QED
    BY <2>1
<1>8. ScaleFrom = CHOOSE h : h = Body(h)
  BY DEF ScaleFrom, Scalings, ScaleNext, ScaleRound
<1>9. ScaleFrom = Body(ScaleFrom)
  <2> HIDE DEF Body
  <2> QED
    BY <1>7, <1>8
<1>10. \A t \in Scalings : ScaleFrom[t] = IF t[2] \in {Zero, Neg1} THEN ScaleEnd(t) ELSE Attach(ScaleRound(t).digit, ScaleFrom[ScaleNext(t)])
  <2> SUFFICES ASSUME NEW t \in Scalings
               PROVE  ScaleFrom[t] = IF t[2] \in {Zero, Neg1} THEN ScaleEnd(t) ELSE Attach(ScaleRound(t).digit, ScaleFrom[ScaleNext(t)])
    OBVIOUS
  <2>1. ScaleFrom[t] = IF t[2] = Zero THEN IF t[3] <= MaxSmall THEN <<t[3]>> ELSE <<t[3], 0>>
             ELSE IF t[2] = Neg1
             THEN IF ScaleSign(t[1], t[3]) >= B - 1 THEN Neg1 ELSE <<ScaleSign(t[1], t[3]), -1>>
             ELSE Attach(ScaleRound(t).digit, ScaleFrom[ScaleNext(t)])
    <3> HIDE DEF Base, b, next, g, m
    <3> QED
      BY <1>9
  <2> HIDE DEF Base, b, next, g, m, Body
  <2> QED
    BY <2>1, ConstantsAre, Zenon DEF ScaleEnd
<1>11. \A t \in Scalings : ScaleFrom[t] \in Integer
  <2> DEFINE T == {t \in Scalings : ScaleFrom[t] \in Integer}
  <2>1. ASSUME NEW t \in Scalings, \A u \in Scalings : m[u] < m[t] => u \in T
        PROVE  t \in T
    <3>1. ASSUME ~(t[2] \in {Zero, Neg1}) PROVE ScaleFrom[ScaleNext(t)] \in Integer
      BY <1>5, <2>1, <3>1, ScaleGoesOn
    <3> HIDE DEF Base, b, next, g, m, Body
    <3> QED
      BY <1>2, <1>3, <1>10, <3>1
  <2> HIDE DEF T, m, Base, b, next, g, Body
  <2>2. \A t \in Scalings : t \in T
    BY <1>1, <2>1, Induction
  <2> QED
    BY <2>2 DEF T
<1> HIDE DEF Base, b, next, g, m, Body
<1> QED
  BY <1>10, <1>11, ConstantsAre, Zenon DEF ScaleEnd

\* The carry of a product by n stays below n.
LEMMA CarryBelow ==
  ASSUME NEW n \in Int, NEW d \in Int, NEW e \in Int, NEW c \in Int, NEW k \in Int,
         d < B, c < n, e >= 0, n >= 1, e + B * k = d * n + c
  PROVE  k < n
<1>1. B \in Nat /\ B > 1
  BY DigitAssumption
<1>2. d * n <= (B - 1) * n
  BY <1>1
<1>3. B * k < B * n
  BY <1>1, <1>2
<1>4. k >= n => B * k >= B * n
  BY <1>1
<1> QED
  BY <1>1, <1>3, <1>4

\* scale, from any round on, as long as the carry is below n.
LEMMA ScaleFromExact ==
  ASSUME NEW a \in Scalings, a[2] \in Numeral, a[3] < a[1]
  PROVE  ScaleFrom[a] \in Numeral /\ Value[ScaleFrom[a]] = a[1] * Value[a[2]] + a[3]
<1> DEFINE m == [t \in Scalings |-> Rank(t[2])]
           T == {t \in Scalings : t[2] \in Numeral /\ t[3] < t[1] =>
                   ScaleFrom[t] \in Numeral /\ Value[ScaleFrom[t]] = t[1] * Value[t[2]] + t[3]}
<1>1. m \in [Scalings -> Nat]
  BY ScaleGoesOn
<1>2. ASSUME NEW t \in Scalings, \A u \in Scalings : m[u] < m[t] => u \in T
      PROVE  t \in T
  <2> SUFFICES ASSUME t[2] \in Numeral, t[3] < t[1]
               PROVE  ScaleFrom[t] \in Numeral /\ Value[ScaleFrom[t]] = t[1] * Value[t[2]] + t[3]
    OBVIOUS
  <2> DEFINE n == t[1]
             x == t[2]
             c == t[3]
             s == ScaleRound(t)
  <2>1. /\ Value[x] \in Int /\ Value[Hi(x)] \in Int /\ Value[x] = Lo(x) + B * Value[Hi(x)]
        /\ Hi(x) \in Numeral /\ Lo(x) \in Digit
        /\ n \in 0 .. B - 1 /\ c \in 0 .. B - 1 /\ c < n /\ B \in Nat /\ B > 1 /\ MaxSmall \in 0 .. B - 1
    BY HiNumeral, ScaleGoesOn, DigitAssumption DEF Digit
  <2>2. CASE x = Zero
    <3>1. ScaleFrom[t] = IF c <= MaxSmall THEN <<c>> ELSE <<c, 0>>
      BY <2>2, ScaleFromIs DEF ScaleEnd
    <3>2. Value[x] = 0
      BY <2>2, ConstantNumerals
    <3>3. n * Value[x] + c = c
      BY <2>1, <3>2
    <3>4. CASE c <= MaxSmall
      <4>1. c \in Small
        BY <2>1, <3>4 DEF Small
      <4> QED
        BY <3>1, <3>3, <3>4, <4>1, SmallNumeral
    <3>5. CASE ~(c <= MaxSmall)
      <4>0. c > MaxSmall /\ c \in Digit /\ c \in Int /\ 0 \in Int
        BY <2>1, <3>5 DEF Digit
      <4>1. <<c, 0>> = <<c>> \o Zero
        BY <4>0, TwoParts, Zenon DEF Zero
      <4>2. <<c>> \o Zero \in Numeral /\ Value[<<c>> \o Zero] = c + B * 0
        BY <4>0, PutNumeral, ConstantNumerals, ConstantsAre
      <4>3. c + B * 0 = c
        BY <2>1
      <4> QED
        BY <3>1, <3>3, <3>5, <4>1, <4>2, <4>3, Zenon
    <3> QED
      BY <3>4, <3>5
  <2>3. CASE x = Neg1
    <3> DEFINE d == ScaleSign(n, c)
    <3>1. ScaleFrom[t] = IF d >= B - 1 THEN Neg1 ELSE <<d, -1>>
      BY <2>3, ConstantsAre, ScaleFromIs DEF ScaleEnd
    <3>2. Value[x] = -1
      BY <2>3, ConstantNumerals
    <3>3. n * Value[x] + c = c - n
      BY <2>1, <3>2
    <3>4. d = B + c - n /\ d \in 0 .. B - 1
      BY <2>1 DEF ScaleSign
    <3> HIDE DEF d
    <3>5. CASE d >= B - 1
      <4>1. c - n = -1
        BY <2>1, <3>4, <3>5
      <4> QED
        BY <3>1, <3>3, <3>5, <4>1, ConstantNumerals
    <3>6. CASE ~(d >= B - 1)
      <4>0. d < B - 1 /\ d \in Digit /\ d \in Int /\ -1 \in Int
        BY <2>1, <3>4, <3>6 DEF Digit
      <4>1. <<d, -1>> = <<d>> \o Neg1
        BY <4>0, TwoParts, Zenon DEF Neg1
      <4>2. <<d>> \o Neg1 \in Numeral /\ Value[<<d>> \o Neg1] = d + B * (-1)
        BY <4>0, PutNumeral, ConstantNumerals, ConstantsAre
      <4>3. d + B * (-1) = c - n
        BY <2>1, <3>4
      <4> QED
        BY <3>1, <3>3, <3>6, <4>1, <4>2, <4>3, Zenon
    <3> QED
      BY <3>5, <3>6
  <2>4. CASE x \notin {Zero, Neg1}
    <3>1. /\ s.digit \in Digit /\ s.carry \in Digit /\ s.digit + B * s.carry = Lo(x) * n + c
          /\ ScaleNext(t) \in Scalings /\ ScaleNext(t)[1] = n /\ ScaleNext(t)[2] = Hi(x) /\ ScaleNext(t)[3] = s.carry
          /\ m[ScaleNext(t)] < m[t]
      BY <2>4, ScaleGoesOn
    <3>2. ScaleFrom[t] = Attach(s.digit, ScaleFrom[ScaleNext(t)])
      BY <2>4, ScaleFromIs
    <3>3. /\ s.digit \in Int /\ s.carry \in Int /\ Lo(x) \in Int /\ n \in Int /\ c \in Int
          /\ s.digit >= 0 /\ Lo(x) < B /\ n >= 1
      BY <2>1, <3>1, DigitAssumption DEF Digit
    <3>4. s.carry < n
      <4> HIDE DEF n, x, c, s
      <4> QED
        BY <2>1, <3>1, <3>3, CarryBelow
    <3>5. ScaleFrom[ScaleNext(t)] \in Numeral /\ Value[ScaleFrom[ScaleNext(t)]] = n * Value[Hi(x)] + s.carry
      BY <1>2, <2>1, <3>1, <3>4
    <3>6. ScaleFrom[t] \in Numeral /\ Value[ScaleFrom[t]] = s.digit + B * (n * Value[Hi(x)] + s.carry)
      BY <3>1, <3>2, <3>5, AttachNumeral
    <3>7. s.digit + B * (n * Value[Hi(x)] + s.carry) = n * (Lo(x) + B * Value[Hi(x)]) + c
      <4> HIDE DEF n, x, c, s
      <4>1. B * (n * Value[Hi(x)] + s.carry) = n * (B * Value[Hi(x)]) + B * s.carry
        BY <2>1, <3>3
      <4>2. n * (Lo(x) + B * Value[Hi(x)]) = Lo(x) * n + n * (B * Value[Hi(x)])
        BY <2>1, <3>3
      <4>3. n * (B * Value[Hi(x)]) \in Int /\ B * s.carry \in Int /\ Lo(x) * n \in Int
        BY <2>1, <3>3
      <4> QED
        BY <3>1, <3>3, <4>1, <4>2, <4>3
    <3> QED
      BY <2>1, <3>6, <3>7, Zenon
  <2> QED
    BY <2>2, <2>3, <2>4
<1> HIDE DEF T, m
<1>3. \A t \in Scalings : t \in T
  BY <1>1, <1>2, Induction
<1> QED
  BY <1>3 DEF T

\* scale returns n * x.
COROLLARY ScaleExact ==
  ASSUME NEW n \in Digit, NEW x \in Numeral
  PROVE  Scale(n, x) \in Numeral /\ Value[Scale(n, x)] = n * Value[x]
<1>1. n \in Nat /\ n < B /\ B \in Nat /\ Value[x] \in Int
  BY HiNumeral, DigitAssumption DEF Digit
<1>2. CASE n = 0 \/ x = Zero
  <2>1. n * Value[x] = 0
    BY <1>1, <1>2, ConstantNumerals
  <2> QED
    BY <1>2, <2>1, ConstantNumerals DEF Scale
<1>3. CASE ~(n = 0 \/ x = Zero) /\ n = 1
  BY <1>1, <1>3 DEF Scale
<1>4. CASE ~(n = 0 \/ x = Zero) /\ n # 1
  <2>1. <<n, x, 0>> \in Scalings /\ <<n, x, 0>>[1] = n /\ <<n, x, 0>>[2] = x /\ <<n, x, 0>>[3] = 0
    BY <1>1, NumeralIs, DigitAssumption DEF Scalings, Digit
  <2>2. 0 < n
    BY <1>1, <1>4
  <2>3. ScaleFrom[<<n, x, 0>>] \in Numeral /\ Value[ScaleFrom[<<n, x, 0>>]] = n * Value[x] + 0
    BY <2>1, <2>2, ScaleFromExact
  <2>4. Scale(n, x) = ScaleFrom[<<n, x, 0>>]
    BY <1>4 DEF Scale
  <2>5. n * Value[x] \in Int
    BY <1>1
  <2> QED
    BY <2>3, <2>4, <2>5
<1> QED
  BY <1>2, <1>3, <1>4

Products == Integer \X NonNegative \X Integer

MulNext(a) == <<Add(Hi(a[1]), Scale(Lo(Hi(a[2])), a[3])), Hi(a[2]), a[3]>>

\* A round of mulnonneg.
LEMMA MulGoesOn ==
  ASSUME NEW a \in Products
  PROVE  /\ a[1] \in Integer /\ a[2] \in NonNegative /\ a[3] \in Integer
         /\ Lo(a[1]) \in Digit /\ Hi(a[1]) \in Integer
         /\ Rank(a[2]) \in Nat /\ MulNext(a) \in Products
         /\ MulNext(a)[1] = Add(Hi(a[1]), Scale(Lo(Hi(a[2])), a[3])) /\ MulNext(a)[2] = Hi(a[2]) /\ MulNext(a)[3] = a[3]
         /\ Hi(a[2]) # Zero => Rank(MulNext(a)[2]) < Rank(a[2])
<1>1. a[1] \in Integer /\ a[2] \in NonNegative /\ a[3] \in Integer
  BY DEF Products
<1>2. Lo(a[1]) \in Digit /\ Hi(a[1]) \in Integer /\ Hi(a[2]) \in NonNegative /\ Hi(a[2]) \in Integer /\ Rank(a[2]) \in Nat
  BY <1>1, HiLo, HiNonNegative
<1>3. Scale(Lo(Hi(a[2])), a[3]) \in Integer
  <2> DEFINE n == Lo(Hi(a[2]))
  <2>1. n \in Digit /\ 0 \in Digit
    BY <1>2, HiLo, DigitAssumption DEF Digit
  <2> HIDE DEF n
  <2>2. <<n, a[3], 0>> \in Scalings
    BY <1>1, <2>1 DEF Scalings
  <2>3. ScaleFrom[<<n, a[3], 0>>] \in Integer
    BY <2>2, ScaleFromIs
  <2>4. Scale(n, a[3]) \in Integer
    BY <1>1, <2>3, ConstantsAre DEF Scale
  <2> QED
    BY <2>4 DEF n
<1>4. Add(Hi(a[1]), Scale(Lo(Hi(a[2])), a[3])) \in Integer
  <2>1. 0 \in Carry
    BY DEF Carry
  <2>2. <<Hi(a[1]), Scale(Lo(Hi(a[2])), a[3]), 0>> \in Sums
    BY <1>2, <1>3, <2>1, SumsAre
  <2> QED
    BY <2>2, AddFromIs DEF Add
<1>5. /\ MulNext(a) \in Products
      /\ MulNext(a)[1] = Add(Hi(a[1]), Scale(Lo(Hi(a[2])), a[3])) /\ MulNext(a)[2] = Hi(a[2]) /\ MulNext(a)[3] = a[3]
  BY <1>1, <1>2, <1>4 DEF MulNext, Products
<1>6. Hi(a[2]) # Zero => Rank(MulNext(a)[2]) < Rank(a[2])
  BY <1>1, <1>5, HiNonNegative
<1> QED
  BY <1>1, <1>2, <1>5, <1>6

\* MulFrom is what its definition says.
LEMMA MulFromIs ==
  ASSUME NEW a \in Products
  PROVE  /\ MulFrom[a] \in Integer
         /\ MulFrom[a] = IF Hi(a[2]) = Zero THEN Attach(Lo(a[1]), Hi(a[1])) ELSE Attach(Lo(a[1]), MulFrom[MulNext(a)])
<1> DEFINE Base == {t \in Products : Hi(t[2]) = Zero}
           b == [t \in Products |-> Attach(Lo(t[1]), Hi(t[1]))]
           next == [t \in Products |-> MulNext(t)]
           g == [p \in Products \X Integer |-> Attach(Lo(p[1][1]), p[2])]
           m == [t \in Products |-> Rank(t[2])]
           Body(f) == [t \in Products |-> Attach(Lo(t[1]), IF Hi(t[2]) = Zero THEN Hi(t[1]) ELSE f[MulNext(t)])]
<1>1. m \in [Products -> Nat] /\ next \in [Products -> Products]
  BY MulGoesOn
<1>2. \A t \in Products : (Attach(Lo(t[1]), Hi(t[1]))) \in Integer
  BY MulGoesOn, AttachIs, DigitAssumption DEF Digit
<1>3. ASSUME NEW t \in Products, NEW z \in Integer
      PROVE  Attach(Lo(t[1]), z) \in Integer
  BY MulGoesOn, AttachIs, DigitAssumption DEF Digit
<1>4. b \in [Products -> Integer] /\ g \in [Products \X Integer -> Integer]
  BY <1>2, <1>3
<1>5. \A t \in Products : t \notin Base => m[next[t]] < m[t]
  BY MulGoesOn
<1>6. PICK f \in [Products -> Integer] : Computes(f, Products, Base, b, next, g)
  <2> HIDE DEF Base, b, next, g, m
  <2> QED
    BY <1>1, <1>4, <1>5, Recursion
<1>7. f = Body(f)
  <2>1. ASSUME NEW t \in Products PROVE f[t] = Body(f)[t]
    <3>1. f[t] = IF t \in Base THEN b[t] ELSE g[<<t, f[next[t]]>>]
      BY <1>6 DEF Computes
    <3>2. (MulNext(t)) \in Products /\ f[MulNext(t)] \in Integer
      BY MulGoesOn
    <3>3. g[<<t, f[MulNext(t)]>>] = Attach(Lo(t[1]), f[MulNext(t)])
      BY <3>2
    <3>4. f[t] = IF Hi(t[2]) = Zero THEN Attach(Lo(t[1]), Hi(t[1])) ELSE Attach(Lo(t[1]), f[MulNext(t)])
      BY <3>1, <3>3
    <3> HIDE DEF Base, b, next, g
    <3> QED
      BY <3>4, Zenon
  <2> QED
    BY <2>1
<1>8. MulFrom = CHOOSE h : h = Body(h)
  BY DEF MulFrom, Products, MulNext
<1>9. MulFrom = Body(MulFrom)
  <2> HIDE DEF Body
  <2> QED
    BY <1>7, <1>8
<1>10. \A t \in Products : MulFrom[t] = IF Hi(t[2]) = Zero THEN Attach(Lo(t[1]), Hi(t[1])) ELSE Attach(Lo(t[1]), MulFrom[MulNext(t)])
  <2> SUFFICES ASSUME NEW t \in Products
               PROVE  MulFrom[t] = IF Hi(t[2]) = Zero THEN Attach(Lo(t[1]), Hi(t[1])) ELSE Attach(Lo(t[1]), MulFrom[MulNext(t)])
    OBVIOUS
  <2>1. MulFrom[t] = Attach(Lo(t[1]), IF Hi(t[2]) = Zero THEN Hi(t[1]) ELSE MulFrom[MulNext(t)])
    <3> HIDE DEF Base, b, next, g, m
    <3> QED
      BY <1>9
  <2> HIDE DEF Base, b, next, g, m, Body
  <2> QED
    BY <2>1, Zenon
<1>11. \A t \in Products : MulFrom[t] \in Integer
  <2> DEFINE T == {t \in Products : MulFrom[t] \in Integer}
  <2>1. ASSUME NEW t \in Products, \A u \in Products : m[u] < m[t] => u \in T
        PROVE  t \in T
    <3>1. ASSUME ~(Hi(t[2]) = Zero) PROVE MulFrom[MulNext(t)] \in Integer
      BY <1>5, <2>1, <3>1, MulGoesOn
    <3> HIDE DEF Base, b, next, g, m, Body
    <3> QED
      BY <1>2, <1>3, <1>10, <3>1
  <2> HIDE DEF T, m
  <2>2. \A t \in Products : t \in T
    BY <1>1, <2>1, Induction
  <2> QED
    BY <2>2 DEF T
<1> HIDE DEF Base, b, next, g, m, Body
<1> QED
  BY <1>10, <1>11, Zenon

\* mulnonneg, from any round on: what was summed up and the product of the rest.
LEMMA MulFromExact ==
  ASSUME NEW a \in Products, a[1] \in Numeral, a[2] \in Numeral, a[3] \in Numeral
  PROVE  /\ MulFrom[a] \in Numeral
         /\ Value[MulFrom[a]] = Value[a[1]] + B * (Value[Hi(a[2])] * Value[a[3]])
<1> DEFINE m == [t \in Products |-> Rank(t[2])]
           T == {t \in Products : t[1] \in Numeral /\ t[2] \in Numeral /\ t[3] \in Numeral =>
                   /\ MulFrom[t] \in Numeral
                   /\ Value[MulFrom[t]] = Value[t[1]] + B * (Value[Hi(t[2])] * Value[t[3]])}
<1>1. m \in [Products -> Nat]
  BY MulGoesOn
<1>2. ASSUME NEW t \in Products, \A u \in Products : m[u] < m[t] => u \in T
      PROVE  t \in T
  <2> SUFFICES ASSUME t[1] \in Numeral, t[2] \in Numeral, t[3] \in Numeral
               PROVE  /\ MulFrom[t] \in Numeral
                      /\ Value[MulFrom[t]] = Value[t[1]] + B * (Value[Hi(t[2])] * Value[t[3]])
    OBVIOUS
  <2> DEFINE p == t[1]
             x == t[2]
             y == t[3]
             h == Hi(t[2])
  <2>1. /\ Value[p] \in Int /\ Value[Hi(p)] \in Int /\ Value[p] = Lo(p) + B * Value[Hi(p)]
        /\ Hi(p) \in Numeral /\ Lo(p) \in Digit
        /\ h \in Numeral /\ Value[h] \in Int /\ Value[y] \in Int
        /\ Value[Hi(h)] \in Int /\ Value[h] = Lo(h) + B * Value[Hi(h)] /\ Lo(h) \in Digit
        /\ B \in Int
    <3>1. B \in Int
      BY DigitAssumption
    <3>2. /\ Value[p] \in Int /\ Value[Hi(p)] \in Int /\ Value[p] = Lo(p) + B * Value[Hi(p)]
          /\ Hi(p) \in Numeral /\ Lo(p) \in Digit /\ h \in Numeral /\ Value[y] \in Int
      BY HiNumeral
    <3> HIDE DEF p, y, h
    <3> QED
      BY <3>1, <3>2, HiNumeral
  <2>2. Attach(Lo(p), Hi(p)) \in Numeral /\ Value[Attach(Lo(p), Hi(p))] = Value[p]
    BY <2>1, AttachNumeral
  <2>3. CASE h = Zero
    <3>1. MulFrom[t] = Attach(Lo(p), Hi(p))
      BY <2>3, MulFromIs
    <3>2. Value[h] = 0
      BY <2>3, ConstantNumerals
    <3>3. Value[p] + B * (Value[h] * Value[y]) = Value[p]
      BY <2>1, <3>2
    <3> QED
      BY <2>2, <3>1, <3>3
  <2>4. CASE h # Zero
    <3> DEFINE n == Scale(Lo(h), y)
               q == Add(Hi(p), n)
    <3>1. n \in Numeral /\ Value[n] = Lo(h) * Value[y]
      BY <2>1, ScaleExact
    <3>2. q \in Numeral /\ Value[q] = Value[Hi(p)] + Lo(h) * Value[y]
      BY <2>1, <3>1, AddExact
    <3>3. /\ MulNext(t) \in Products /\ m[MulNext(t)] < m[t]
          /\ MulNext(t)[1] = q /\ MulNext(t)[2] = h /\ MulNext(t)[3] = y
      BY <2>4, MulGoesOn
    <3>4. MulNext(t) \in T
      BY <1>2, <3>3
    <3> HIDE DEF n, q
    <3>5. MulFrom[MulNext(t)] \in Numeral /\ Value[MulFrom[MulNext(t)]] = Value[q] + B * (Value[Hi(h)] * Value[y])
      BY <2>1, <3>2, <3>3, <3>4
    <3>6. MulFrom[t] = Attach(Lo(p), MulFrom[MulNext(t)])
      BY <2>4, MulFromIs
    <3>7. MulFrom[t] \in Numeral /\ Value[MulFrom[t]] = Lo(p) + B * (Value[q] + B * (Value[Hi(h)] * Value[y]))
      BY <2>1, <3>5, <3>6, AttachNumeral
    <3>8. Lo(p) + B * (Value[q] + B * (Value[Hi(h)] * Value[y])) = Value[p] + B * (Value[h] * Value[y])
      <4>1. Lo(h) \in Int /\ Lo(p) \in Int
        BY <2>1, DigitAssumption DEF Digit
      <4> HIDE DEF p, x, y, h
      <4>2. Value[h] * Value[y] = Lo(h) * Value[y] + B * (Value[Hi(h)] * Value[y])
        BY <2>1, <4>1
      <4>3. Value[q] + B * (Value[Hi(h)] * Value[y]) = Value[Hi(p)] + Value[h] * Value[y]
        BY <2>1, <3>2, <4>1, <4>2
      <4>4. B * (Value[Hi(p)] + Value[h] * Value[y]) = B * Value[Hi(p)] + B * (Value[h] * Value[y])
        BY <2>1
      <4>5. B * Value[Hi(p)] \in Int /\ B * (Value[h] * Value[y]) \in Int
        BY <2>1
      <4>6. Lo(p) + B * (Value[q] + B * (Value[Hi(h)] * Value[y])) = Lo(p) + (B * Value[Hi(p)] + B * (Value[h] * Value[y]))
        BY <4>3, <4>4, Zenon
      <4> QED
        BY <2>1, <4>1, <4>5, <4>6
    <3> QED
      BY <3>7, <3>8, Zenon
  <2> QED
    BY <2>3, <2>4
<1> HIDE DEF T, m
<1>3. \A t \in Products : t \in T
  BY <1>1, <1>2, Induction
<1> QED
  BY <1>3 DEF T

\* mulnonneg returns the product, if x is not negative.
COROLLARY MulNonnegExact ==
  ASSUME NEW x \in Numeral, NEW y \in Numeral, Value[x] >= 0
  PROVE  MulNonneg(x, y) \in Numeral /\ Value[MulNonneg(x, y)] = Value[x] * Value[y]
<1> DEFINE p == Scale(Lo(x), y)
<1>1. /\ Lo(x) \in Digit /\ Value[x] \in Int /\ Value[Hi(x)] \in Int /\ Value[y] \in Int
      /\ Value[x] = Lo(x) + B * Value[Hi(x)] /\ Lo(x) \in Int /\ B \in Int
  <2>1. /\ Lo(x) \in Digit /\ Value[x] \in Int /\ Value[Hi(x)] \in Int /\ Value[y] \in Int
        /\ Value[x] = Lo(x) + B * Value[Hi(x)]
    BY HiNumeral
  <2>2. B \in Int /\ Lo(x) \in Int
    BY <2>1, DigitAssumption DEF Digit
  <2> QED
    BY <2>1, <2>2
<1>2. p \in Numeral /\ Value[p] = Lo(x) * Value[y]
  BY <1>1, ScaleExact
<1> HIDE DEF p
<1>3. <<p, x, y>> \in Products /\ <<p, x, y>>[1] = p /\ <<p, x, y>>[2] = x /\ <<p, x, y>>[3] = y
  BY <1>2, NumeralIs, SignIs DEF Products
<1>4. MulFrom[<<p, x, y>>] \in Numeral /\ Value[MulFrom[<<p, x, y>>]] = Lo(x) * Value[y] + B * (Value[Hi(x)] * Value[y])
  BY <1>2, <1>3, MulFromExact
<1>5. Lo(x) * Value[y] + B * (Value[Hi(x)] * Value[y]) = Value[x] * Value[y]
  BY <1>1
<1> QED
  BY <1>4, <1>5 DEF MulNonneg, p

-----------------------------------------------------------------------------
(* Shifts.                                                                 *)

\* The exponent goes down.
LEMMA PowerGoesOn ==
  ASSUME NEW a \in Nat
  PROVE  (IF a = 0 THEN 0 ELSE a - 1) \in Nat /\ (a # 0 => (IF a = 0 THEN 0 ELSE a - 1) < a)
  OBVIOUS

\* A power is positive.
LEMMA PowerParts ==
  1 \in Nat \ {0} /\ \A z \in Nat \ {0} : 2 * z \in Nat \ {0}
  OBVIOUS

\* Power2 is what its definition says.
LEMMA Power2Is ==
  ASSUME NEW a \in Nat
  PROVE  Power2[a] \in Nat \ {0} /\ Power2[a] = IF a = 0 THEN 1 ELSE 2 * Power2[a - 1]
<1> DEFINE Base == {t \in Nat : t = 0}
           b == [t \in Nat |-> 1]
           next == [t \in Nat |-> IF t = 0 THEN 0 ELSE t - 1]
           g == [p \in Nat \X (Nat \ {0}) |-> 2 * p[2]]
           m == [t \in Nat |-> t]
           Body(f) == [t \in Nat |-> IF t = 0 THEN 1 ELSE 2 * f[t - 1]]
<1>1. m \in [Nat -> Nat] /\ next \in [Nat -> Nat]
  BY PowerGoesOn
<1>2. \A t \in Nat : (1) \in (Nat \ {0})
  BY PowerParts
<1>3. ASSUME NEW t \in Nat, NEW z \in (Nat \ {0})
      PROVE  2 * z \in (Nat \ {0})
  BY PowerParts
<1>4. b \in [Nat -> (Nat \ {0})] /\ g \in [Nat \X (Nat \ {0}) -> (Nat \ {0})]
  BY <1>2, <1>3
<1>5. \A t \in Nat : t \notin Base => m[next[t]] < m[t]
  BY PowerGoesOn
<1>6. PICK f \in [Nat -> (Nat \ {0})] : Computes(f, Nat, Base, b, next, g)
  <2> HIDE DEF Base, b, next, g, m
  <2> QED
    BY <1>1, <1>4, <1>5, Recursion
<1>7. f = Body(f)
  <2>1. ASSUME NEW t \in Nat PROVE f[t] = Body(f)[t]
    <3>1. f[t] = IF t \in Base THEN b[t] ELSE g[<<t, f[next[t]]>>]
      BY <1>6 DEF Computes
    <3>2. (IF t = 0 THEN 0 ELSE t - 1) \in Nat /\ f[IF t = 0 THEN 0 ELSE t - 1] \in (Nat \ {0})
      BY PowerGoesOn
    <3>3. g[<<t, f[IF t = 0 THEN 0 ELSE t - 1]>>] = 2 * f[IF t = 0 THEN 0 ELSE t - 1]
      BY <3>2
    <3>4. f[t] = IF t = 0 THEN 1 ELSE 2 * f[IF t = 0 THEN 0 ELSE t - 1]
      BY <3>1, <3>3
    <3> HIDE DEF Base, b, next, g
    <3> QED
      BY <3>4
  <2> QED
    BY <2>1
<1>8. Power2 = CHOOSE h : h = Body(h)
  BY DEF Power2
<1>9. Power2 = Body(Power2)
  <2> HIDE DEF Body
  <2> QED
    BY <1>7, <1>8
<1>10. \A t \in Nat : Power2[t] = IF t = 0 THEN 1 ELSE 2 * Power2[IF t = 0 THEN 0 ELSE t - 1]
  <2> SUFFICES ASSUME NEW t \in Nat
               PROVE  Power2[t] = IF t = 0 THEN 1 ELSE 2 * Power2[IF t = 0 THEN 0 ELSE t - 1]
    OBVIOUS
  <2>1. Power2[t] = IF t = 0 THEN 1 ELSE 2 * Power2[t - 1]
    <3> HIDE DEF Base, b, next, g, m
    <3> QED
      BY <1>9
  <2> HIDE DEF Base, b, next, g, m, Body
  <2> QED
    BY <2>1
<1>11. \A t \in Nat : Power2[t] \in (Nat \ {0})
  <2> DEFINE T == {t \in Nat : Power2[t] \in (Nat \ {0})}
  <2>1. ASSUME NEW t \in Nat, \A u \in Nat : m[u] < m[t] => u \in T
        PROVE  t \in T
    <3>1. ASSUME ~(t = 0) PROVE Power2[IF t = 0 THEN 0 ELSE t - 1] \in (Nat \ {0})
      BY <1>5, <2>1, <3>1, PowerGoesOn
    <3> HIDE DEF Base, b, next, g, m, Body
    <3> QED
      BY <1>2, <1>3, <1>10, <3>1
  <2> DEFINE D == Nat
  <2> HIDE DEF T, m, Base, b, next, g, Body
  <2>2. m \in [D -> Nat] /\ \A t \in D : (\A u \in D : m[u] < m[t] => u \in T) => t \in T
    BY <1>1, <2>1
  <2> HIDE DEF D
  <2>3. \A t \in D : t \in T
    BY <2>2, Induction
  <2> QED
    BY <2>3 DEF T, D
<1> HIDE DEF Base, b, next, g, m, Body
<1> QED
  BY <1>10, <1>11

\* Powers of 2 add their exponents ...
LEMMA PowerSum ==
  ASSUME NEW k \in Nat, NEW n \in Nat
  PROVE  Power2[k + n] = Power2[k] * Power2[n]
<1> DEFINE m == [i \in Nat |-> i]
           T == {i \in Nat : Power2[i + n] = Power2[i] * Power2[n]}
<1>1. m \in [Nat -> Nat]
  OBVIOUS
<1>2. ASSUME NEW i \in Nat, \A j \in Nat : m[j] < m[i] => j \in T
      PROVE  i \in T
  <2>1. CASE i = 0
    <3>1. Power2[0] = 1 /\ Power2[n] \in Nat /\ 0 + n = n
      BY Power2Is
    <3> QED
      BY <2>1, <3>1
  <2>2. CASE i # 0
    <3>1. i - 1 \in Nat /\ i + n \in Nat /\ i + n # 0 /\ (i + n) - 1 = (i - 1) + n /\ m[i - 1] < m[i]
      BY <2>2
    <3>2. Power2[(i - 1) + n] = Power2[i - 1] * Power2[n]
      BY <1>2, <3>1
    <3>3. Power2[i] = 2 * Power2[i - 1] /\ Power2[i + n] = 2 * Power2[(i + n) - 1]
      BY <2>2, <3>1, Power2Is
    <3>4. Power2[i - 1] \in Nat /\ Power2[n] \in Nat
      BY <3>1, Power2Is
    <3>5. 2 * (Power2[i - 1] * Power2[n]) = (2 * Power2[i - 1]) * Power2[n]
      BY <3>4
    <3>6. Power2[i + n] = Power2[i] * Power2[n]
      BY <3>1, <3>2, <3>3, <3>5, Zenon
    <3> QED
      BY <3>6
  <2> QED
    BY <2>1, <2>2
<1> HIDE DEF T, m
<1>3. \A i \in Nat : i \in T
  BY <1>1, <1>2, Induction
<1> QED
  BY <1>3 DEF T

\* ... and grow with them.
LEMMA PowerOrder ==
  ASSUME NEW k \in Nat, NEW n \in Nat, k <= n
  PROVE  Power2[k] <= Power2[n]
<1>1. n - k \in Nat /\ k + (n - k) = n
  OBVIOUS
<1>2. Power2[n] = Power2[k] * Power2[n - k]
  BY <1>1, PowerSum
<1>3. Power2[k] \in Nat /\ Power2[n - k] \in Nat /\ Power2[n - k] >= 1
  BY <1>1, Power2Is
<1>4. Power2[k] * Power2[n - k] >= Power2[k]
  BY <1>3
<1> QED
  BY <1>2, <1>3, <1>4

\* A digit has at least one bit, so that B is even.
LEMMA EvenBase ==
  /\ B % 2 = 0 /\ B \div 2 \in Nat /\ B = 2 * (B \div 2) /\ B \div 2 >= 1
  /\ Width \in Nat /\ Width >= 1 /\ B = Power2[Width]
<1>1. Width \in Nat /\ Width # 0 /\ B = Power2[Width]
  BY WidthAssumption
<1>2. PICK k \in Nat : k >= 1 /\ B = 2 * k
  <2>1. Width - 1 \in Nat
    BY <1>1
  <2>2. Power2[Width - 1] \in Nat \ {0} /\ B = 2 * Power2[Width - 1]
    BY <1>1, <2>1, Power2Is
  <2> QED
    BY <2>2
<1>3. (2 * k) % 2 = 0 /\ (2 * k) \div 2 = k
  BY <1>2
<1> QED
  BY <1>1, <1>2, <1>3

Shifts == Integer \X Carry

ShlNext(a) == <<Hi(a[1]), NegativeCarry(TopBit(Lo(a[1])))>>
ShlRank(a) == 2 * Rank(a[1]) + (IF a[1] = <<a[2]>> THEN 0 ELSE 1)

\* A round of shl comes closer to its end.
LEMMA ShlGoesOn ==
  ASSUME NEW a \in Shifts
  PROVE  /\ a[1] \in Integer /\ a[2] \in Carry /\ ShlRank(a) \in Nat /\ ShlNext(a) \in Shifts
         /\ ShlDigit(Lo(a[1]), a[2]) \in Digit
         /\ ShlDigit(Lo(a[1]), a[2]) - B * ShlNext(a)[2] = 2 * Lo(a[1]) - a[2]
         /\ ShlNext(a)[1] = Hi(a[1]) /\ ShlNext(a)[2] \in Carry
         /\ a[1] # <<a[2]>> => ShlRank(ShlNext(a)) < ShlRank(a)
<1> DEFINE x == a[1]
           c == a[2]
           k == NegativeCarry(TopBit(Lo(a[1])))
<1>1. x \in Integer /\ c \in Carry
  BY DEF Shifts
<1>2. Hi(x) \in Integer /\ Lo(x) \in Digit /\ Rank(x) \in Nat
  BY <1>1, HiLo
<1>3. Rank(Hi(x)) \in Nat
  BY <1>2, HiLo
<1>4. k \in Carry
  BY DEF Carry, NegativeCarry
<1>5. ShlNext(a) \in Shifts /\ ShlNext(a)[1] = Hi(x) /\ ShlNext(a)[2] = k
  BY <1>2, <1>4 DEF ShlNext, Shifts
<1>6. ShlDigit(Lo(x), c) \in Digit /\ ShlDigit(Lo(x), c) - B * k = 2 * Lo(x) - c
  BY <1>1, <1>2, EvenBase, ShlDigitExact
<1>7. ASSUME x # <<c>>
      PROVE  ShlRank(ShlNext(a)) < ShlRank(a)
  <2>1. CASE x \in {Zero, Neg1}
    <3>1. Rank(x) = 0 /\ Hi(x) = x
      BY <1>1, <2>1, HiLo
    <3>2. x = <<k>>
      <4>1. CASE x = Zero
        <5>1. Lo(x) = 0
          BY <4>1, MinusOne DEF Lo, Zero
        <5>2. k = 0
          BY <5>1, EvenBase DEF NegativeCarry, TopBit
        <5> QED
          BY <4>1, <5>2 DEF Zero
      <4>2. CASE x = Neg1
        <5>1. Lo(x) = B - 1
          BY <4>2, MinusOne DEF Lo, Neg1
        <5>2. k = -1
          BY <5>1, EvenBase DEF NegativeCarry, TopBit
        <5> QED
          BY <4>2, <5>2 DEF Neg1
      <4> QED
        BY <2>1, <4>1, <4>2
    <3> QED
      BY <1>5, <1>7, <3>1, <3>2 DEF ShlRank
  <2>2. CASE x \notin {Zero, Neg1}
    <3>1. Rank(Hi(x)) < Rank(x)
      BY <1>1, <2>2, HiLo
    <3> QED
      BY <1>2, <1>3, <1>5, <1>7, <3>1 DEF ShlRank
  <2> QED
    BY <2>1, <2>2
<1>8. ShlRank(a) \in Nat
  BY <1>2 DEF ShlRank
<1> QED
  BY <1>1, <1>4, <1>5, <1>6, <1>7, <1>8

\* ShlFrom is what its definition says.
LEMMA ShlFromIs ==
  ASSUME NEW a \in Shifts
  PROVE  /\ ShlFrom[a] \in Integer
         /\ ShlFrom[a] = IF a[1] = <<a[2]>> THEN a[1] ELSE Attach(ShlDigit(Lo(a[1]), a[2]), ShlFrom[ShlNext(a)])
<1> DEFINE Base == {t \in Shifts : t[1] = <<t[2]>>}
           b == [t \in Shifts |-> t[1]]
           next == [t \in Shifts |-> ShlNext(t)]
           g == [p \in Shifts \X Integer |-> Attach(ShlDigit(Lo(p[1][1]), p[1][2]), p[2])]
           m == [t \in Shifts |-> ShlRank(t)]
           Body(f) == [t \in Shifts |-> IF t[1] = <<t[2]>> THEN t[1] ELSE Attach(ShlDigit(Lo(t[1]), t[2]), f[ShlNext(t)])]
<1>1. m \in [Shifts -> Nat] /\ next \in [Shifts -> Shifts]
  BY ShlGoesOn
<1>2. \A t \in Shifts : (t[1]) \in Integer
  BY ShlGoesOn
<1>3. ASSUME NEW t \in Shifts, NEW z \in Integer
      PROVE  Attach(ShlDigit(Lo(t[1]), t[2]), z) \in Integer
  BY ShlGoesOn, AttachIs, DigitAssumption DEF Digit
<1>4. b \in [Shifts -> Integer] /\ g \in [Shifts \X Integer -> Integer]
  BY <1>2, <1>3
<1>5. \A t \in Shifts : t \notin Base => m[next[t]] < m[t]
  BY ShlGoesOn
<1>6. PICK f \in [Shifts -> Integer] : Computes(f, Shifts, Base, b, next, g)
  <2> HIDE DEF Base, b, next, g, m
  <2> QED
    BY <1>1, <1>4, <1>5, Recursion
<1>7. f = Body(f)
  <2>1. ASSUME NEW t \in Shifts PROVE f[t] = Body(f)[t]
    <3>1. f[t] = IF t \in Base THEN b[t] ELSE g[<<t, f[next[t]]>>]
      BY <1>6 DEF Computes
    <3>2. (ShlNext(t)) \in Shifts /\ f[ShlNext(t)] \in Integer
      BY ShlGoesOn
    <3>3. g[<<t, f[ShlNext(t)]>>] = Attach(ShlDigit(Lo(t[1]), t[2]), f[ShlNext(t)])
      BY <3>2
    <3>4. f[t] = IF t[1] = <<t[2]>> THEN t[1] ELSE Attach(ShlDigit(Lo(t[1]), t[2]), f[ShlNext(t)])
      BY <3>1, <3>3
    <3> HIDE DEF Base, b, next, g
    <3> QED
      BY <3>4
  <2> QED
    BY <2>1
<1>8. ShlFrom = CHOOSE h : h = Body(h)
  BY DEF ShlFrom, Shifts, ShlNext
<1>9. ShlFrom = Body(ShlFrom)
  <2> HIDE DEF Body
  <2> QED
    BY <1>7, <1>8
<1>10. \A t \in Shifts : ShlFrom[t] = IF t[1] = <<t[2]>> THEN t[1] ELSE Attach(ShlDigit(Lo(t[1]), t[2]), ShlFrom[ShlNext(t)])
  <2> SUFFICES ASSUME NEW t \in Shifts
               PROVE  ShlFrom[t] = IF t[1] = <<t[2]>> THEN t[1] ELSE Attach(ShlDigit(Lo(t[1]), t[2]), ShlFrom[ShlNext(t)])
    OBVIOUS
  <2>1. ShlFrom[t] = IF t[1] = <<t[2]>> THEN t[1] ELSE Attach(ShlDigit(Lo(t[1]), t[2]), ShlFrom[ShlNext(t)])
    <3> HIDE DEF Base, b, next, g, m
    <3> QED
      BY <1>9
  <2> HIDE DEF Base, b, next, g, m, Body
  <2> QED
    BY <2>1
<1>11. \A t \in Shifts : ShlFrom[t] \in Integer
  <2> DEFINE T == {t \in Shifts : ShlFrom[t] \in Integer}
  <2>1. ASSUME NEW t \in Shifts, \A u \in Shifts : m[u] < m[t] => u \in T
        PROVE  t \in T
    <3>1. ASSUME ~(t[1] = <<t[2]>>) PROVE ShlFrom[ShlNext(t)] \in Integer
      BY <1>5, <2>1, <3>1, ShlGoesOn
    <3> HIDE DEF Base, b, next, g, m, Body
    <3> QED
      BY <1>2, <1>3, <1>10, <3>1
  <2> HIDE DEF T, m, Base, b, next, g, Body
  <2>2. \A t \in Shifts : t \in T
    BY <1>1, <2>1, Induction
  <2> QED
    BY <2>2 DEF T
<1> HIDE DEF Base, b, next, g, m, Body
<1> QED
  BY <1>10, <1>11

\* shl, from any round on.
LEMMA ShlFromExact ==
  ASSUME NEW a \in Shifts, a[1] \in Numeral
  PROVE  ShlFrom[a] \in Numeral /\ Value[ShlFrom[a]] = 2 * Value[a[1]] - a[2]
<1> DEFINE m == [t \in Shifts |-> ShlRank(t)]
           T == {t \in Shifts : t[1] \in Numeral =>
                   ShlFrom[t] \in Numeral /\ Value[ShlFrom[t]] = 2 * Value[t[1]] - t[2]}
<1>1. m \in [Shifts -> Nat]
  BY ShlGoesOn
<1>2. ASSUME NEW t \in Shifts, \A u \in Shifts : m[u] < m[t] => u \in T
      PROVE  t \in T
  <2> SUFFICES ASSUME t[1] \in Numeral
               PROVE  ShlFrom[t] \in Numeral /\ Value[ShlFrom[t]] = 2 * Value[t[1]] - t[2]
    OBVIOUS
  <2> DEFINE x == t[1]
             c == t[2]
             d == ShlDigit(Lo(x), c)
             k == ShlNext(t)[2]
  <2>1. /\ Value[x] \in Int /\ Value[Hi(x)] \in Int /\ Value[x] = Lo(x) + B * Value[Hi(x)]
        /\ Hi(x) \in Numeral /\ Lo(x) \in Digit
    BY HiNumeral
  <2>2. /\ c \in Carry /\ ShlNext(t) \in Shifts /\ d \in Digit /\ d - B * k = 2 * Lo(x) - c
        /\ ShlNext(t)[1] = Hi(x) /\ k \in Carry
        /\ x # <<c>> => m[ShlNext(t)] < m[t]
    BY ShlGoesOn
  <2>3. CASE x = <<c>>
    <3>1. ShlFrom[t] = x /\ c \in Int
      BY <2>2, <2>3, ShlFromIs DEF Carry
    <3>2. Value[x] = c
      BY <2>2, <2>3, ConstantNumerals DEF Carry, Zero, Neg1
    <3> QED
      BY <2>1, <3>1, <3>2
  <2>4. CASE x # <<c>>
    <3>1. ShlFrom[ShlNext(t)] \in Numeral /\ Value[ShlFrom[ShlNext(t)]] = 2 * Value[Hi(x)] - k
      <4>1. ShlNext(t) \in T
        BY <1>2, <2>2, <2>4
      <4> QED
        BY <2>1, <2>2, <4>1
    <3>2. ShlFrom[t] = Attach(d, ShlFrom[ShlNext(t)])
      BY <2>4, ShlFromIs
    <3>3. ShlFrom[t] \in Numeral /\ Value[ShlFrom[t]] = d + B * (2 * Value[Hi(x)] - k)
      BY <2>2, <3>1, <3>2, AttachNumeral
    <3>4. d + B * (2 * Value[Hi(x)] - k) = 2 * (Lo(x) + B * Value[Hi(x)]) - c
      <4>1. d \in Int /\ k \in Int /\ c \in Int /\ Lo(x) \in Int /\ B \in Int
        BY <2>1, <2>2, DigitAssumption DEF Digit, Carry
      <4> HIDE DEF d, k, c, x
      <4>2. B * (2 * Value[Hi(x)] - k) = 2 * (B * Value[Hi(x)]) - B * k
        BY <2>1, <4>1
      <4>3. B * Value[Hi(x)] \in Int /\ B * k \in Int
        BY <2>1, <4>1
      <4> QED
        BY <2>2, <4>1, <4>2, <4>3
    <3> QED
      BY <2>1, <3>3, <3>4, Zenon
  <2> QED
    BY <2>3, <2>4
<1> HIDE DEF T, m
<1>3. \A t \in Shifts : t \in T
  BY <1>1, <1>2, Induction
<1> QED
  BY <1>3 DEF T

\* shl returns 2 * x.
COROLLARY ShlExact ==
  ASSUME NEW x \in Numeral
  PROVE  Shl(x) \in Numeral /\ Value[Shl(x)] = 2 * Value[x]
<1>1. <<x, 0>> \in Shifts /\ <<x, 0>>[1] = x /\ <<x, 0>>[2] = 0
  BY NumeralIs DEF Shifts, Carry
<1>2. Value[x] \in Int
  BY HiNumeral
<1> QED
  BY <1>1, <1>2, ShlFromExact DEF Shl

\* A round of shr.
LEMMA ShrGoesOn ==
  ASSUME NEW a \in Integer
  PROVE  /\ Rank(a) \in Nat /\ Hi(a) \in Integer /\ ShrDigit(Lo(a), Lo(Hi(a))) \in Digit
         /\ a \notin {Zero, Neg1} => Rank(Hi(a)) < Rank(a)
<1>1. Hi(a) \in Integer /\ Lo(a) \in Digit
  BY HiLo
<1>2. Lo(Hi(a)) \in Digit
  BY <1>1, HiLo
<1>3. PICK b \in Nat : b = B \div 2 /\ B = 2 * b /\ b >= 1
  BY EvenBase
<1>4. Lo(a) \div 2 \in 0 .. b - 1
  BY <1>1, <1>3 DEF Digit
<1>5. ShrDigit(Lo(a), Lo(Hi(a))) \in Digit
  BY <1>3, <1>4 DEF ShrDigit, Digit
<1> QED
  BY <1>1, <1>5, HiLo

\* Shr is what its definition says.
LEMMA ShrIs ==
  ASSUME NEW a \in Integer
  PROVE  Shr[a] \in Integer /\ Shr[a] = IF a \in {Zero, Neg1} THEN a ELSE Attach(ShrDigit(Lo(a), Lo(Hi(a))), Shr[Hi(a)])
<1> DEFINE Base == {t \in Integer : t \in {Zero, Neg1}}
           b == [t \in Integer |-> t]
           next == [t \in Integer |-> Hi(t)]
           g == [p \in Integer \X Integer |-> Attach(ShrDigit(Lo(p[1]), Lo(Hi(p[1]))), p[2])]
           m == [t \in Integer |-> Rank(t)]
           Body(f) == [t \in Integer |-> IF t \in {Zero, Neg1} THEN t ELSE Attach(ShrDigit(Lo(t), Lo(Hi(t))), f[Hi(t)])]
<1>1. m \in [Integer -> Nat] /\ next \in [Integer -> Integer]
  BY ShrGoesOn
<1>2. \A t \in Integer : (t) \in Integer
  OBVIOUS
<1>3. ASSUME NEW t \in Integer, NEW z \in Integer
      PROVE  Attach(ShrDigit(Lo(t), Lo(Hi(t))), z) \in Integer
  BY ShrGoesOn, AttachIs, DigitAssumption DEF Digit
<1>4. b \in [Integer -> Integer] /\ g \in [Integer \X Integer -> Integer]
  BY <1>2, <1>3
<1>5. \A t \in Integer : t \notin Base => m[next[t]] < m[t]
  BY ShrGoesOn
<1>6. PICK f \in [Integer -> Integer] : Computes(f, Integer, Base, b, next, g)
  <2> HIDE DEF Base, b, next, g, m
  <2> QED
    BY <1>1, <1>4, <1>5, Recursion
<1>7. f = Body(f)
  <2>1. ASSUME NEW t \in Integer PROVE f[t] = Body(f)[t]
    <3>1. f[t] = IF t \in Base THEN b[t] ELSE g[<<t, f[next[t]]>>]
      BY <1>6 DEF Computes
    <3>2. (Hi(t)) \in Integer /\ f[Hi(t)] \in Integer
      BY ShrGoesOn
    <3>3. g[<<t, f[Hi(t)]>>] = Attach(ShrDigit(Lo(t), Lo(Hi(t))), f[Hi(t)])
      BY <3>2
    <3>4. f[t] = IF t \in {Zero, Neg1} THEN t ELSE Attach(ShrDigit(Lo(t), Lo(Hi(t))), f[Hi(t)])
      BY <3>1, <3>3
    <3> HIDE DEF Base, b, next, g
    <3> QED
      BY <3>4
  <2> QED
    BY <2>1
<1>8. Shr = CHOOSE h : h = Body(h)
  BY DEF Shr
<1>9. Shr = Body(Shr)
  <2> HIDE DEF Body
  <2> QED
    BY <1>7, <1>8
<1>10. \A t \in Integer : Shr[t] = IF t \in {Zero, Neg1} THEN t ELSE Attach(ShrDigit(Lo(t), Lo(Hi(t))), Shr[Hi(t)])
  <2> SUFFICES ASSUME NEW t \in Integer
               PROVE  Shr[t] = IF t \in {Zero, Neg1} THEN t ELSE Attach(ShrDigit(Lo(t), Lo(Hi(t))), Shr[Hi(t)])
    OBVIOUS
  <2>1. Shr[t] = IF t \in {Zero, Neg1} THEN t ELSE Attach(ShrDigit(Lo(t), Lo(Hi(t))), Shr[Hi(t)])
    <3> HIDE DEF Base, b, next, g, m
    <3> QED
      BY <1>9
  <2> HIDE DEF Base, b, next, g, m, Body
  <2> QED
    BY <2>1
<1>11. \A t \in Integer : Shr[t] \in Integer
  <2> DEFINE T == {t \in Integer : Shr[t] \in Integer}
  <2>1. ASSUME NEW t \in Integer, \A u \in Integer : m[u] < m[t] => u \in T
        PROVE  t \in T
    <3>1. ASSUME ~(t \in {Zero, Neg1}) PROVE Shr[Hi(t)] \in Integer
      BY <1>5, <2>1, <3>1, ShrGoesOn
    <3> HIDE DEF Base, b, next, g, m, Body
    <3> QED
      BY <1>2, <1>3, <1>10, <3>1
  <2> HIDE DEF T, m, Base, b, next, g, Body
  <2>2. \A t \in Integer : t \in T
    BY <1>1, <2>1, Induction
  <2> QED
    BY <2>2 DEF T
<1> HIDE DEF Base, b, next, g, m, Body
<1> QED
  BY <1>10, <1>11

\* The low bit of the high part is the one that the digit takes.
LEMMA HalfOf ==
  ASSUME NEW d \in Digit, NEW e \in Digit, NEW h \in Int, NEW g \in Int, h = e + B * g
  PROVE  ShrDigit(d, e) + B * (h \div 2) = (d + B * h) \div 2
<1>1. PICK b \in Nat : b = B \div 2 /\ B = 2 * b /\ b >= 1
  BY EvenBase
<1>2. d \in Int /\ e \in Int /\ d = 2 * (d \div 2) + (d % 2) /\ d % 2 \in 0 .. 1 /\ d \div 2 \in Int
  BY DigitAssumption DEF Digit
<1>3. h = 2 * (h \div 2) + (h % 2) /\ h % 2 \in 0 .. 1 /\ h \div 2 \in Int
  OBVIOUS
<1>4. e % 2 = h % 2
  <2>1. h = e + 2 * (b * g) /\ b * g \in Int
    BY <1>1
  <2>2. \A k \in Int : (e + 2 * k) % 2 = e % 2
    BY <1>2
  <2> QED
    BY <2>1, <2>2
<1>5. ShrDigit(d, e) = (d \div 2) + b * (h % 2)
  BY <1>1, <1>3, <1>4 DEF ShrDigit
<1>6. d + B * h = 2 * ((d \div 2) + b * h) + (d % 2) /\ (d \div 2) + b * h \in Int
  <2>1. B * h = 2 * (b * h) /\ b * h \in Int
    BY <1>1
  <2> QED
    BY <1>2, <2>1
<1>7. (d + B * h) \div 2 = (d \div 2) + b * h
  <2>1. \A k \in Int : \A r \in 0 .. 1 : (2 * k + r) \div 2 = k
    OBVIOUS
  <2> QED
    BY <1>2, <1>6, <2>1
<1>8. b * h = b * (h % 2) + B * (h \div 2)
  <2>1. b * h = b * (2 * (h \div 2) + (h % 2))
    BY <1>3
  <2>2. b * (2 * (h \div 2) + (h % 2)) = (2 * b) * (h \div 2) + b * (h % 2)
    BY <1>1, <1>3
  <2>3. b * (h % 2) \in Int /\ B * (h \div 2) \in Int
    BY <1>1, <1>3
  <2> QED
    BY <1>1, <2>1, <2>2, <2>3
<1>9. b * (h % 2) \in Int /\ B * (h \div 2) \in Int
  BY <1>1, <1>3
<1> QED
  BY <1>2, <1>5, <1>7, <1>8, <1>9

\* shr returns the half, rounded down.
LEMMA ShrExact ==
  ASSUME NEW z \in Numeral
  PROVE  Shr[z] \in Numeral /\ Value[Shr[z]] = Value[z] \div 2
<1> DEFINE m == [x \in Numeral |-> Rank(x)]
           T == {x \in Numeral : Shr[x] \in Numeral /\ Value[Shr[x]] = Value[x] \div 2}
<1>1. m \in [Numeral -> Nat]
  BY NumeralIs, HiLo
<1>2. ASSUME NEW x \in Numeral, \A y \in Numeral : m[y] < m[x] => y \in T
      PROVE  x \in T
  <2>1. /\ x \in Integer /\ Hi(x) \in Numeral /\ Lo(x) \in Digit
        /\ Value[Hi(x)] \in Int /\ Value[x] = Lo(x) + B * Value[Hi(x)]
    BY HiNumeral
  <2>2. CASE x \in {Zero, Neg1}
    <3>1. Shr[x] = x
      BY <2>1, <2>2, ShrIs
    <3>2. \A n \in Int : n = 2 * (n \div 2) + (n % 2) /\ n % 2 \in 0 .. 1 /\ n \div 2 \in Int
      OBVIOUS
    <3>3. PICK n \in Int : n = Value[x] /\ (n = 0 \/ n = -1)
      BY <2>2, ConstantNumerals
    <3>4. n \div 2 = n
      <4>1. PICK q \in Int, r \in 0 .. 1 : n = 2 * q + r /\ q = n \div 2
        BY <3>2
      <4>2. q = n
        BY <3>3, <4>1
      <4> QED
        BY <4>1, <4>2
    <3>5. Value[x] \div 2 = Value[x]
      BY <3>3, <3>4
    <3> QED
      BY <3>1, <3>5
  <2>3. CASE x \notin {Zero, Neg1}
    <3>1. m[Hi(x)] < m[x]
      BY <2>1, <2>3, HiLo
    <3>2. Shr[Hi(x)] \in Numeral /\ Value[Shr[Hi(x)]] = Value[Hi(x)] \div 2
      BY <1>2, <2>1, <3>1
    <3>3. Shr[x] = Attach(ShrDigit(Lo(x), Lo(Hi(x))), Shr[Hi(x)])
      BY <2>1, <2>3, ShrIs
    <3>4. /\ Shr[x] \in Numeral
          /\ Value[Shr[x]] = ShrDigit(Lo(x), Lo(Hi(x))) + B * (Value[Hi(x)] \div 2)
      BY <2>1, <3>2, <3>3, ShrGoesOn, AttachNumeral
    <3>5. /\ Lo(Hi(x)) \in Digit /\ Value[Hi(Hi(x))] \in Int
          /\ Value[Hi(x)] = Lo(Hi(x)) + B * Value[Hi(Hi(x))]
      BY <2>1, HiNumeral
    <3>6. ShrDigit(Lo(x), Lo(Hi(x))) + B * (Value[Hi(x)] \div 2) = (Lo(x) + B * Value[Hi(x)]) \div 2
      BY <2>1, <3>5, HalfOf
    <3> QED
      BY <2>1, <3>4, <3>6
  <2> QED
    BY <2>2, <2>3
<1> HIDE DEF T, m
<1>3. \A x \in Numeral : x \in T
  BY <1>1, <1>2, Induction
<1> QED
  BY <1>3 DEF T

-----------------------------------------------------------------------------
(* Lengths and shifts by many bits.                                        *)

\* A number and its half.
LEMMA BitsGoesOn ==
  ASSUME NEW a \in Nat
  PROVE  a \div 2 \in Nat /\ (a # 0 => a \div 2 < a) /\ a % 2 \in 0 .. 1 /\ a = 2 * (a \div 2) + (a % 2)
  OBVIOUS

\* Lengths are numbers.
LEMMA BitsParts ==
  0 \in Nat /\ \A z \in Nat : 1 + z \in Nat
  OBVIOUS

\* Bits is what its definition says.
LEMMA BitsIs ==
  ASSUME NEW a \in Nat
  PROVE  Bits[a] \in Nat /\ Bits[a] = IF a = 0 THEN 0 ELSE 1 + Bits[a \div 2]
<1> DEFINE Base == {t \in Nat : t = 0}
           b == [t \in Nat |-> 0]
           next == [t \in Nat |-> t \div 2]
           g == [p \in Nat \X Nat |-> 1 + p[2]]
           m == [t \in Nat |-> t]
           Body(f) == [t \in Nat |-> IF t = 0 THEN 0 ELSE 1 + f[t \div 2]]
<1>1. m \in [Nat -> Nat] /\ next \in [Nat -> Nat]
  BY BitsGoesOn
<1>2. \A t \in Nat : (0) \in Nat
  BY BitsParts
<1>3. ASSUME NEW t \in Nat, NEW z \in Nat
      PROVE  1 + z \in Nat
  BY BitsParts
<1>4. b \in [Nat -> Nat] /\ g \in [Nat \X Nat -> Nat]
  BY <1>2, <1>3
<1>5. \A t \in Nat : t \notin Base => m[next[t]] < m[t]
  BY BitsGoesOn
<1>6. PICK f \in [Nat -> Nat] : Computes(f, Nat, Base, b, next, g)
  <2> HIDE DEF Base, b, next, g, m
  <2> QED
    BY <1>1, <1>4, <1>5, Recursion
<1>7. f = Body(f)
  <2>1. ASSUME NEW t \in Nat PROVE f[t] = Body(f)[t]
    <3>1. f[t] = IF t \in Base THEN b[t] ELSE g[<<t, f[next[t]]>>]
      BY <1>6 DEF Computes
    <3>2. (t \div 2) \in Nat /\ f[t \div 2] \in Nat
      BY BitsGoesOn
    <3>3. g[<<t, f[t \div 2]>>] = 1 + f[t \div 2]
      BY <3>2
    <3>4. f[t] = IF t = 0 THEN 0 ELSE 1 + f[t \div 2]
      BY <3>1, <3>3
    <3> HIDE DEF Base, b, next, g
    <3> QED
      BY <3>4
  <2> QED
    BY <2>1
<1>8. Bits = CHOOSE h : h = Body(h)
  BY DEF Bits
<1>9. Bits = Body(Bits)
  <2> HIDE DEF Body
  <2> QED
    BY <1>7, <1>8
<1>10. \A t \in Nat : Bits[t] = IF t = 0 THEN 0 ELSE 1 + Bits[t \div 2]
  <2> SUFFICES ASSUME NEW t \in Nat
               PROVE  Bits[t] = IF t = 0 THEN 0 ELSE 1 + Bits[t \div 2]
    OBVIOUS
  <2>1. Bits[t] = IF t = 0 THEN 0 ELSE 1 + Bits[t \div 2]
    <3> HIDE DEF Base, b, next, g, m
    <3> QED
      BY <1>9
  <2> HIDE DEF Base, b, next, g, m, Body
  <2> QED
    BY <2>1
<1>11. \A t \in Nat : Bits[t] \in Nat
  <2> DEFINE T == {t \in Nat : Bits[t] \in Nat}
  <2>1. ASSUME NEW t \in Nat, \A u \in Nat : m[u] < m[t] => u \in T
        PROVE  t \in T
    <3>1. ASSUME ~(t = 0) PROVE Bits[t \div 2] \in Nat
      BY <1>5, <2>1, <3>1, BitsGoesOn
    <3> HIDE DEF Base, b, next, g, m, Body
    <3> QED
      BY <1>2, <1>3, <1>10, <3>1
  <2> DEFINE D == Nat
  <2> HIDE DEF T, m, Base, b, next, g, Body
  <2>2. m \in [D -> Nat] /\ \A t \in D : (\A u \in D : m[u] < m[t] => u \in T) => t \in T
    BY <1>1, <2>1
  <2> HIDE DEF D
  <2>3. \A t \in D : t \in T
    BY <2>2, Induction
  <2> QED
    BY <2>3 DEF T, D
<1> HIDE DEF Base, b, next, g, m, Body
<1> QED
  BY <1>10, <1>11

\* v has n bits.
HasBits(v, n) == (v = 0 /\ n = 0) \/ (v > 0 /\ n >= 1 /\ Power2[n - 1] <= v /\ v < Power2[n])

\* The bits of a digit, as integer_length counts them.
LEMMA BitsExact ==
  ASSUME NEW d \in Nat
  PROVE  HasBits(d, Bits[d])
<1> DEFINE D == Nat
           m == [i \in D |-> i]
           T == {i \in D : HasBits(i, Bits[i])}
<1>1. m \in [D -> Nat]
  OBVIOUS
<1>2. ASSUME NEW i \in D, \A j \in D : m[j] < m[i] => j \in T
      PROVE  i \in T
  <2>1. CASE i = 0
    BY <2>1, BitsIs DEF HasBits
  <2>2. CASE i # 0
    <3> DEFINE k == i \div 2
               n == Bits[k]
    <3>1. k \in Nat /\ k < i /\ (i = 2 * k \/ i = 2 * k + 1) /\ i \in Nat
      BY <2>2, BitsGoesOn
    <3>2. n \in Nat /\ Bits[i] = 1 + n
      BY <2>2, <3>1, BitsIs
    <3>3. HasBits(k, n)
      <4>1. k \in T
        BY <1>2, <3>1
      <4> QED
        BY <4>1
    <3> HIDE DEF k, n
    <3>4. HasBits(i, 1 + n)
      <4>1. Power2[0] = 1 /\ Power2[1] = 2
        BY Power2Is
      <4>2. CASE k = 0
        <5>1. n = 0 /\ i = 1
          BY <2>2, <3>1, <3>3, <4>2 DEF HasBits
        <5> QED
          BY <4>1, <5>1 DEF HasBits
      <4>3. CASE k # 0
        <5>1. n >= 1 /\ Power2[n - 1] <= k /\ k < Power2[n]
          BY <3>1, <3>3, <4>3 DEF HasBits
        <5>2. n - 1 \in Nat /\ n + 1 \in Nat /\ (n + 1) - 1 = n /\ n # 0
          BY <3>2, <5>1
        <5>3. Power2[n] = 2 * Power2[n - 1] /\ Power2[n + 1] = 2 * Power2[n] /\ Power2[n - 1] \in Nat /\ Power2[n] \in Nat
          BY <3>2, <5>2, Power2Is
        <5>4. (1 + n) - 1 = n /\ 1 + n = n + 1
          BY <3>2
        <5>5. Power2[(1 + n) - 1] <= i /\ i < Power2[1 + n]
          <6>1. Power2[n] <= i /\ i < Power2[n + 1]
            BY <3>1, <5>1, <5>3
          <6> QED
            BY <5>4, <6>1, Zenon
        <5> QED
          BY <3>1, <3>2, <4>3, <5>5 DEF HasBits
      <4> QED
        BY <4>2, <4>3
    <3> QED
      BY <3>1, <3>2, <3>4
  <2> QED
    BY <2>1, <2>2
<1> HIDE DEF T, m, D
<1>3. \A i \in D : i \in T
  BY <1>1, <1>2, Induction
<1> QED
  BY <1>3 DEF T, D

\* A round of integer_length.
LEMMA LengthGoesOn ==
  ASSUME NEW a \in NonNegative
  PROVE  /\ Rank(a) \in Nat /\ Hi(a) \in NonNegative /\ Bits[Lo(a)] \in Nat
         /\ Hi(a) # Zero => Rank(Hi(a)) < Rank(a)
<1>1. Lo(a) \in Nat
  BY HiNonNegative, DigitAssumption DEF Digit
<1> QED
  BY <1>1, BitsIs, HiNonNegative

\* Lengths are numbers.
LEMMA LengthParts ==
  \A z \in Nat : Width + z \in Nat
  BY EvenBase

\* IntegerLength is what its definition says.
LEMMA IntegerLengthIs ==
  ASSUME NEW a \in NonNegative
  PROVE  IntegerLength[a] \in Nat /\ IntegerLength[a] = IF Hi(a) = Zero THEN Bits[Lo(a)] ELSE Width + IntegerLength[Hi(a)]
<1> DEFINE Base == {t \in NonNegative : Hi(t) = Zero}
           b == [t \in NonNegative |-> Bits[Lo(t)]]
           next == [t \in NonNegative |-> Hi(t)]
           g == [p \in NonNegative \X Nat |-> Width + p[2]]
           m == [t \in NonNegative |-> Rank(t)]
           Body(f) == [t \in NonNegative |-> IF Hi(t) = Zero THEN Bits[Lo(t)] ELSE Width + f[Hi(t)]]
<1>1. m \in [NonNegative -> Nat] /\ next \in [NonNegative -> NonNegative]
  BY LengthGoesOn
<1>2. \A t \in NonNegative : (Bits[Lo(t)]) \in Nat
  BY LengthGoesOn
<1>3. ASSUME NEW t \in NonNegative, NEW z \in Nat
      PROVE  Width + z \in Nat
  BY LengthParts
<1>4. b \in [NonNegative -> Nat] /\ g \in [NonNegative \X Nat -> Nat]
  BY <1>2, <1>3
<1>5. \A t \in NonNegative : t \notin Base => m[next[t]] < m[t]
  BY LengthGoesOn
<1>6. PICK f \in [NonNegative -> Nat] : Computes(f, NonNegative, Base, b, next, g)
  <2> HIDE DEF Base, b, next, g, m
  <2> QED
    BY <1>1, <1>4, <1>5, Recursion
<1>7. f = Body(f)
  <2>1. ASSUME NEW t \in NonNegative PROVE f[t] = Body(f)[t]
    <3>1. f[t] = IF t \in Base THEN b[t] ELSE g[<<t, f[next[t]]>>]
      BY <1>6 DEF Computes
    <3>2. (Hi(t)) \in NonNegative /\ f[Hi(t)] \in Nat
      BY LengthGoesOn
    <3>3. g[<<t, f[Hi(t)]>>] = Width + f[Hi(t)]
      BY <3>2
    <3>4. f[t] = IF Hi(t) = Zero THEN Bits[Lo(t)] ELSE Width + f[Hi(t)]
      BY <3>1, <3>3
    <3> HIDE DEF Base, b, next, g
    <3> QED
      BY <3>4
  <2> QED
    BY <2>1
<1>8. IntegerLength = CHOOSE h : h = Body(h)
  BY DEF IntegerLength
<1>9. IntegerLength = Body(IntegerLength)
  <2> HIDE DEF Body
  <2> QED
    BY <1>7, <1>8
<1>10. \A t \in NonNegative : IntegerLength[t] = IF Hi(t) = Zero THEN Bits[Lo(t)] ELSE Width + IntegerLength[Hi(t)]
  <2> SUFFICES ASSUME NEW t \in NonNegative
               PROVE  IntegerLength[t] = IF Hi(t) = Zero THEN Bits[Lo(t)] ELSE Width + IntegerLength[Hi(t)]
    OBVIOUS
  <2>1. IntegerLength[t] = IF Hi(t) = Zero THEN Bits[Lo(t)] ELSE Width + IntegerLength[Hi(t)]
    <3> HIDE DEF Base, b, next, g, m
    <3> QED
      BY <1>9
  <2> HIDE DEF Base, b, next, g, m, Body
  <2> QED
    BY <2>1
<1>11. \A t \in NonNegative : IntegerLength[t] \in Nat
  <2> DEFINE T == {t \in NonNegative : IntegerLength[t] \in Nat}
  <2>1. ASSUME NEW t \in NonNegative, \A u \in NonNegative : m[u] < m[t] => u \in T
        PROVE  t \in T
    <3>1. ASSUME ~(Hi(t) = Zero) PROVE IntegerLength[Hi(t)] \in Nat
      BY <1>5, <2>1, <3>1, LengthGoesOn
    <3> HIDE DEF Base, b, next, g, m, Body
    <3> QED
      BY <1>2, <1>3, <1>10, <3>1
  <2> HIDE DEF T, m, Base, b, next, g, Body
  <2>2. \A t \in NonNegative : t \in T
    BY <1>1, <2>1, Induction
  <2> QED
    BY <2>2 DEF T
<1> HIDE DEF Base, b, next, g, m, Body
<1> QED
  BY <1>10, <1>11

\* integer_length returns the number of bits, if x is not negative.
LEMMA LengthExact ==
  ASSUME NEW z \in Numeral, Value[z] >= 0
  PROVE  IntegerLength[z] \in Nat /\ HasBits(Value[z], IntegerLength[z])
<1> DEFINE D == {x \in Numeral : Value[x] >= 0}
           m == [x \in D |-> Rank(x)]
           T == {x \in D : HasBits(Value[x], IntegerLength[x])}
<1>1. m \in [D -> Nat]
  BY NumeralIs, HiLo
<1>2. ASSUME NEW x \in D, \A y \in D : m[y] < m[x] => y \in T
      PROVE  x \in T
  <2>1. /\ x \in NonNegative /\ Hi(x) \in Numeral /\ Lo(x) \in 0 .. B - 1 /\ B \in Nat
        /\ Value[x] \in Int /\ Value[Hi(x)] \in Int /\ Value[x] = Lo(x) + B * Value[Hi(x)]
        /\ Value[Hi(x)] >= 0
    <3>1. x \in NonNegative
      BY SignIs
    <3>2. /\ Hi(x) \in Numeral /\ Lo(x) \in 0 .. B - 1 /\ B \in Nat
          /\ Value[x] \in Int /\ Value[Hi(x)] \in Int /\ Value[x] = Lo(x) + B * Value[Hi(x)]
      BY HiNumeral, DigitAssumption DEF Digit
    <3>3. Value[Hi(x)] >= 0
      BY <3>2, SignOfHigh
    <3> QED
      BY <3>1, <3>2, <3>3
  <2>2. CASE Hi(x) = Zero
    <3>1. Value[Hi(x)] = 0
      BY <2>2, ConstantNumerals
    <3>2. Value[x] = Lo(x) /\ Lo(x) \in Nat
      BY <2>1, <3>1
    <3>3. IntegerLength[x] = Bits[Lo(x)]
      BY <2>1, <2>2, IntegerLengthIs
    <3> QED
      BY <3>2, <3>3, BitsExact
  <2>3. CASE Hi(x) # Zero
    <3> DEFINE h == Value[Hi(x)]
               n == IntegerLength[Hi(x)]
    <3>1. n \in Nat /\ IntegerLength[x] = Width + n /\ Hi(x) \in D /\ m[Hi(x)] < m[x]
      BY <2>1, <2>3, LengthGoesOn, IntegerLengthIs
    <3>2. h # 0
      BY <2>1, <2>3, SameValue, ConstantNumerals
    <3>3. HasBits(h, n)
      <4>1. Hi(x) \in T
        BY <1>2, <3>1
      <4> QED
        BY <4>1
    <3>4. h \in Nat /\ h >= 1 /\ n >= 1 /\ Power2[n - 1] <= h /\ h < Power2[n]
      BY <2>1, <3>2, <3>3 DEF HasBits
    <3>5. /\ Width \in Nat /\ Width + n \in Nat /\ n - 1 \in Nat /\ (Width + n) - 1 = Width + (n - 1)
          /\ Width + n >= 1
      BY <3>1, <3>4, EvenBase
    <3>6. /\ Power2[Width + (n - 1)] = B * Power2[n - 1] /\ Power2[Width + n] = B * Power2[n]
          /\ Power2[n - 1] \in Nat /\ Power2[n] \in Nat
      BY <3>1, <3>5, EvenBase, PowerSum, Power2Is
    <3> HIDE DEF h, n
    <3>7. B * Power2[n - 1] <= Lo(x) + B * h /\ Lo(x) + B * h < B * Power2[n] /\ Lo(x) + B * h > 0
      <4>1. B * h >= B * Power2[n - 1] /\ B * h \in Int
        BY <2>1, <3>4, <3>6
      <4>2. B * (h + 1) <= B * Power2[n] /\ B * (h + 1) = B * h + B
        BY <2>1, <3>4, <3>6
      <4>3. B * h >= B /\ B > 1
        BY <2>1, <3>4, DigitAssumption
      <4>4. B * Power2[n - 1] \in Int /\ B * Power2[n] \in Int
        BY <2>1, <3>6
      <4> QED
        BY <2>1, <4>1, <4>2, <4>3, <4>4
    <3>8. Value[x] = Lo(x) + B * h
      BY <2>1 DEF h
    <3>9. /\ Value[x] > 0 /\ Power2[(Width + n) - 1] <= Value[x] /\ Value[x] < Power2[Width + n]
      BY <3>5, <3>6, <3>7, <3>8, Zenon
    <3>10. HasBits(Value[x], Width + n)
      BY <3>5, <3>9 DEF HasBits
    <3> QED
      BY <3>1, <3>10
  <2> QED
    BY <2>2, <2>3
<1> HIDE DEF T, m
<1>3. \A x \in D : x \in T
  <2> HIDE DEF D
  <2> QED
    BY <1>1, <1>2, Induction
<1>4. z \in T
  BY <1>3
<1> QED
  BY <1>4, SignIs, IntegerLengthIs DEF T

Lefts == Integer \X Nat

LeftEnds(a) == a[1] = Zero \/ a[2] = 0
LeftNext(a) ==
  IF LeftEnds(a) THEN a
  ELSE IF a[2] % Width # 0 THEN <<Shl(a[1]), a[2] - 1>> ELSE <<<<0>> \o a[1], a[2] - Width>>

\* A round of shift_left: one bit, or a whole digit.
LEMMA LeftGoesOn ==
  ASSUME NEW a \in Lefts
  PROVE  /\ a[1] \in Integer /\ a[2] \in Nat /\ LeftNext(a) \in Lefts
         /\ ~LeftEnds(a) => LeftNext(a)[2] < a[2]
         /\ ~LeftEnds(a) /\ a[2] % Width # 0 =>
              /\ LeftNext(a) = <<Shl(a[1]), a[2] - 1>>
              /\ LeftNext(a)[1] = Shl(a[1]) /\ LeftNext(a)[2] = a[2] - 1 /\ a[2] - 1 \in Nat
         /\ ~LeftEnds(a) /\ a[2] % Width = 0 =>
              /\ LeftNext(a) = <<<<0>> \o a[1], a[2] - Width>>
              /\ LeftNext(a)[1] = <<0>> \o a[1] /\ LeftNext(a)[2] = a[2] - Width /\ a[2] - Width \in Nat
<1>1. a[1] \in Integer /\ a[2] \in Nat /\ a \in Lefts
  BY DEF Lefts
<1>2. Shl(a[1]) \in Integer
  <2>1. <<a[1], 0>> \in Shifts
    BY <1>1 DEF Shifts, Carry
  <2> QED
    BY <2>1, ShlFromIs DEF Shl
<1>3. <<0>> \o a[1] \in Integer
  BY <1>1, PutIs
<1>4. ASSUME ~LeftEnds(a), a[2] % Width # 0
      PROVE  /\ LeftNext(a) = <<Shl(a[1]), a[2] - 1>> /\ LeftNext(a) \in Lefts
             /\ LeftNext(a)[1] = Shl(a[1]) /\ LeftNext(a)[2] = a[2] - 1 /\ a[2] - 1 \in Nat
  <2>1. a[2] - 1 \in Nat
    BY <1>1, <1>4 DEF LeftEnds
  <2>2. LeftNext(a) = <<Shl(a[1]), a[2] - 1>>
    BY <1>4, Zenon DEF LeftNext
  <2> QED
    BY <1>2, <2>1, <2>2 DEF Lefts
<1>5. ASSUME ~LeftEnds(a), a[2] % Width = 0
      PROVE  /\ LeftNext(a) = <<<<0>> \o a[1], a[2] - Width>> /\ LeftNext(a) \in Lefts
             /\ LeftNext(a)[1] = <<0>> \o a[1] /\ LeftNext(a)[2] = a[2] - Width /\ a[2] - Width \in Nat
             /\ Width >= 1
  <2>1. a[2] # 0
    BY <1>5 DEF LeftEnds
  <2>2. Width \in Nat /\ Width >= 1
    BY EvenBase
  <2>3. a[2] >= Width
    <3> SUFFICES ASSUME a[2] < Width PROVE FALSE
      BY <1>1, <2>2
    <3>1. a[2] % Width = a[2]
      BY <1>1, <2>2
    <3> QED
      BY <1>5, <2>1, <3>1
  <2>4. a[2] - Width \in Nat
    BY <1>1, <2>2, <2>3
  <2>5. LeftNext(a) = <<<<0>> \o a[1], a[2] - Width>>
    BY <1>5, Zenon DEF LeftNext
  <2> DEFINE z == <<0>> \o a[1]
  <2>6. z \in Integer /\ LeftNext(a) = <<z, a[2] - Width>>
    BY <1>3, <2>5
  <2> HIDE DEF z
  <2>7. LeftNext(a) \in Lefts /\ LeftNext(a)[1] = z /\ LeftNext(a)[2] = a[2] - Width
    BY <2>4, <2>6 DEF Lefts
  <2> QED
    BY <2>2, <2>4, <2>5, <2>7 DEF z
<1>6. LeftEnds(a) => LeftNext(a) \in Lefts
  BY <1>1 DEF LeftNext
<1>7. Width \in Nat
  BY EvenBase
<1>8. LeftNext(a) \in Lefts /\ (~LeftEnds(a) => LeftNext(a)[2] < a[2])
  BY <1>1, <1>4, <1>5, <1>6, <1>7
<1> QED
  BY <1>1, <1>4, <1>5, <1>8

\* ShiftFrom is what its definition says.
LEMMA ShiftFromIs ==
  ASSUME NEW a \in Lefts
  PROVE  /\ ShiftFrom[a] \in Integer
         /\ LeftEnds(a) => ShiftFrom[a] = a[1]
         /\ ~LeftEnds(a) => ShiftFrom[a] = ShiftFrom[LeftNext(a)]
<1> DEFINE Base == {t \in Lefts : LeftEnds(t)}
           b == [t \in Lefts |-> t[1]]
           next == [t \in Lefts |-> LeftNext(t)]
           g == [p \in Lefts \X Integer |-> p[2]]
           m == [t \in Lefts |-> t[2]]
           Body(f) == [t \in Lefts |-> IF t[1] = Zero \/ t[2] = 0 THEN t[1] ELSE IF t[2] % Width # 0 THEN f[<<Shl(t[1]), t[2] - 1>>] ELSE f[<<<<0>> \o t[1], t[2] - Width>>]]
<1>1. m \in [Lefts -> Nat] /\ next \in [Lefts -> Lefts]
  BY LeftGoesOn
<1>2. \A t \in Lefts : (t[1]) \in Integer
  BY LeftGoesOn
<1>3. ASSUME NEW t \in Lefts, NEW z \in Integer
      PROVE  z \in Integer
  OBVIOUS
<1>4. b \in [Lefts -> Integer] /\ g \in [Lefts \X Integer -> Integer]
  BY <1>2, <1>3
<1>5. \A t \in Lefts : t \notin Base => m[next[t]] < m[t]
  BY LeftGoesOn
<1>6. PICK f \in [Lefts -> Integer] : Computes(f, Lefts, Base, b, next, g)
  <2> HIDE DEF Base, b, next, g, m
  <2> QED
    BY <1>1, <1>4, <1>5, Recursion
<1>7. f = Body(f)
  <2>1. ASSUME NEW t \in Lefts PROVE f[t] = Body(f)[t]
    <3>1. f[t] = IF t \in Base THEN b[t] ELSE g[<<t, f[next[t]]>>]
      BY <1>6 DEF Computes
    <3>2. (LeftNext(t)) \in Lefts /\ f[LeftNext(t)] \in Integer
      BY LeftGoesOn
    <3>3. g[<<t, f[LeftNext(t)]>>] = f[LeftNext(t)]
      BY <3>2
    <3>4. f[t] = IF LeftEnds(t) THEN t[1] ELSE f[LeftNext(t)]
      BY <3>1, <3>3
    <3> HIDE DEF Base, b, next, g
    <3> QED
      BY <3>4, LeftGoesOn, Zenon DEF LeftEnds
  <2> QED
    BY <2>1
<1>8. ShiftFrom = CHOOSE h : h = Body(h)
  BY DEF ShiftFrom, Lefts
<1>9. ShiftFrom = Body(ShiftFrom)
  <2> HIDE DEF Body
  <2> QED
    BY <1>7, <1>8
<1>10. \A t \in Lefts : ShiftFrom[t] = IF LeftEnds(t) THEN t[1] ELSE ShiftFrom[LeftNext(t)]
  <2> SUFFICES ASSUME NEW t \in Lefts
               PROVE  ShiftFrom[t] = IF LeftEnds(t) THEN t[1] ELSE ShiftFrom[LeftNext(t)]
    OBVIOUS
  <2>1. ShiftFrom[t] = IF t[1] = Zero \/ t[2] = 0 THEN t[1] ELSE IF t[2] % Width # 0 THEN ShiftFrom[<<Shl(t[1]), t[2] - 1>>] ELSE ShiftFrom[<<<<0>> \o t[1], t[2] - Width>>]
    <3> HIDE DEF Base, b, next, g, m
    <3> QED
      BY <1>9
  <2> HIDE DEF Base, b, next, g, m, Body
  <2> QED
    BY <2>1, LeftGoesOn, Zenon DEF LeftEnds
<1>11. \A t \in Lefts : ShiftFrom[t] \in Integer
  <2> DEFINE T == {t \in Lefts : ShiftFrom[t] \in Integer}
  <2>1. ASSUME NEW t \in Lefts, \A u \in Lefts : m[u] < m[t] => u \in T
        PROVE  t \in T
    <3>1. ASSUME ~(LeftEnds(t)) PROVE ShiftFrom[LeftNext(t)] \in Integer
      BY <1>5, <2>1, <3>1, LeftGoesOn
    <3> HIDE DEF Base, b, next, g, m, Body
    <3> QED
      BY <1>2, <1>3, <1>10, <3>1
  <2> HIDE DEF T, m, Base, b, next, g, Body
  <2>2. \A t \in Lefts : t \in T
    BY <1>1, <2>1, Induction
  <2> QED
    BY <2>2 DEF T
<1> HIDE DEF Base, b, next, g, m, Body
<1> QED
  BY <1>10, <1>11, LeftGoesOn, Zenon DEF LeftEnds

\* shift_left, from any round on.
LEMMA ShiftFromExact ==
  ASSUME NEW a \in Lefts, a[1] \in Numeral
  PROVE  ShiftFrom[a] \in Numeral /\ Value[ShiftFrom[a]] = Value[a[1]] * Power2[a[2]]
<1> DEFINE m == [t \in Lefts |-> t[2]]
           T == {t \in Lefts : t[1] \in Numeral =>
                   ShiftFrom[t] \in Numeral /\ Value[ShiftFrom[t]] = Value[t[1]] * Power2[t[2]]}
<1>1. m \in [Lefts -> Nat]
  BY LeftGoesOn
<1>2. ASSUME NEW t \in Lefts, \A u \in Lefts : m[u] < m[t] => u \in T
      PROVE  t \in T
  <2> SUFFICES ASSUME t[1] \in Numeral
               PROVE  ShiftFrom[t] \in Numeral /\ Value[ShiftFrom[t]] = Value[t[1]] * Power2[t[2]]
    OBVIOUS
  <2> DEFINE x == t[1]
             n == t[2]
             u == LeftNext(t)
  <2>1. x \in Numeral /\ Value[x] \in Int /\ n \in Nat /\ Power2[n] \in Nat /\ u \in Lefts
    BY HiNumeral, LeftGoesOn, Power2Is
  <2>2. CASE LeftEnds(t)
    <3>1. ShiftFrom[t] = x
      BY <2>2, ShiftFromIs
    <3>2. CASE x = Zero
      <4>1. Value[x] = 0
        BY <3>2, ConstantNumerals
      <4> QED
        BY <2>1, <3>1, <4>1
    <3>3. CASE n = 0
      <4>1. Power2[n] = 1
        BY <3>3, Power2Is
      <4> QED
        BY <2>1, <3>1, <4>1
    <3> QED
      BY <2>2, <3>2, <3>3 DEF LeftEnds
  <2>3. ASSUME ~LeftEnds(t), NEW k \in Nat, u[2] = n - k, n - k \in Nat,
               u[1] \in Numeral, Value[u[1]] = Power2[k] * Value[x]
        PROVE  ShiftFrom[t] \in Numeral /\ Value[ShiftFrom[t]] = Value[x] * Power2[n]
    <3>1. u \in T
      <4>1. m[u] < m[t]
        BY <2>1, <2>3, LeftGoesOn
      <4> QED
        BY <1>2, <2>1, <4>1
    <3>2. ShiftFrom[t] \in Numeral /\ Value[ShiftFrom[t]] = (Power2[k] * Value[x]) * Power2[n - k]
      BY <2>3, <3>1, ShiftFromIs
    <3>3. Power2[n] = Power2[k] * Power2[n - k]
      <4>1. k + (n - k) = n
        BY <2>1
      <4> QED
        BY <2>3, <4>1, PowerSum
    <3>4. Power2[k] \in Nat /\ Power2[n - k] \in Nat
      BY <2>3, Power2Is
    <3>5. (Power2[k] * Value[x]) * Power2[n - k] = Value[x] * (Power2[k] * Power2[n - k])
      BY <2>1, <3>4
    <3> QED
      BY <3>2, <3>3, <3>5, Zenon
  <2>4. CASE ~LeftEnds(t) /\ n % Width # 0
    <3>1. u[1] = Shl(x) /\ u[2] = n - 1 /\ n - 1 \in Nat
      BY <2>4, LeftGoesOn
    <3>2. Shl(x) \in Numeral /\ Value[Shl(x)] = 2 * Value[x]
      BY ShlExact
    <3>3. Power2[1] = 2
      BY Power2Is
    <3>4. u[1] \in Numeral /\ Value[u[1]] = Power2[1] * Value[x] /\ 1 \in Nat
      BY <3>1, <3>2, <3>3
    <3> HIDE DEF u
    <3> QED
      BY <2>3, <2>4, <3>1, <3>4, Zenon
  <2>5. CASE ~LeftEnds(t) /\ n % Width = 0
    <3>1. u[1] = <<0>> \o x /\ u[2] = n - Width /\ n - Width \in Nat
      BY <2>5, LeftGoesOn
    <3>2. x # Zero /\ 0 \in Digit /\ (x = Neg1 => 0 < B - 1)
      BY <2>5, DigitAssumption DEF LeftEnds, Digit
    <3>3. <<0>> \o x \in Numeral /\ Value[<<0>> \o x] = 0 + B * Value[x]
      BY <2>1, <3>2, PutNumeral
    <3>4. 0 + B * Value[x] = Power2[Width] * Value[x] /\ Width \in Nat
      BY <2>1, EvenBase
    <3>5. u[1] \in Numeral /\ Value[u[1]] = Power2[Width] * Value[x]
      BY <3>1, <3>3, <3>4, Zenon
    <3> HIDE DEF u
    <3> QED
      BY <2>3, <2>5, <3>1, <3>4, <3>5, Zenon
  <2> QED
    BY <2>2, <2>4, <2>5
<1> HIDE DEF T, m
<1>3. \A t \in Lefts : t \in T
  BY <1>1, <1>2, Induction
<1> QED
  BY <1>3 DEF T

\* shift_left returns x * 2^n.
COROLLARY ShiftLeftExact ==
  ASSUME NEW x \in Numeral, NEW n \in Nat
  PROVE  ShiftLeft(x, n) \in Numeral /\ Value[ShiftLeft(x, n)] = Value[x] * Power2[n]
<1>1. <<x, n>> \in Lefts /\ <<x, n>>[1] = x /\ <<x, n>>[2] = n
  BY NumeralIs DEF Lefts
<1> QED
  BY <1>1, ShiftFromExact DEF ShiftLeft

-----------------------------------------------------------------------------
(* Quotients.                                                              *)

Divisions == Integer \X Integer \X Integer \X Nat

DivFits(a)      == Cmp(a[2], a[3]) >= 1
DivQuotient(a)  == IF DivFits(a) THEN Add(Pos1, Shl(a[1])) ELSE Shl(a[1])
DivRemainder(a) == IF DivFits(a) THEN Sub(a[2], a[3]) ELSE a[2]
DivNext(a) ==
  IF a[4] = 0 THEN a ELSE <<DivQuotient(a), DivRemainder(a), Shr[a[3]], a[4] - 1>>

\* add, sub and shl make integers of integers.
LEMMA AddIsInteger ==
  ASSUME NEW x \in Integer, NEW y \in Integer
  PROVE  Add(x, y) \in Integer /\ Sub(x, y) \in Integer /\ Shl(x) \in Integer
<1>1. 0 \in Carry /\ -1 \in Carry
  BY DEF Carry
<1>2. <<x, y, 0>> \in Sums /\ <<x, y, -1>> \in Sums
  BY <1>1, SumsAre
<1>3. <<x, 0>> \in Shifts
  BY <1>1 DEF Shifts
<1> QED
  BY <1>2, <1>3, AddFromIs, SubFromIs, ShlFromIs DEF Add, Sub, Shl

\* A round of divnonneg.
LEMMA DivGoesOn ==
  ASSUME NEW a \in Divisions
  PROVE  /\ a[1] \in Integer /\ a[2] \in Integer /\ a[3] \in Integer /\ a[4] \in Nat
         /\ DivQuotient(a) \in Integer /\ DivNext(a) \in Divisions
         /\ a[4] # 0 => /\ DivNext(a) = <<DivQuotient(a), DivRemainder(a), Shr[a[3]], a[4] - 1>>
                        /\ DivNext(a)[1] = DivQuotient(a) /\ DivNext(a)[2] = DivRemainder(a)
                        /\ DivNext(a)[3] = Shr[a[3]] /\ DivNext(a)[4] = a[4] - 1
                        /\ a[4] - 1 \in Nat /\ DivNext(a)[4] < a[4]
<1>1. a[1] \in Integer /\ a[2] \in Integer /\ a[3] \in Integer /\ a[4] \in Nat /\ a \in Divisions
  BY DEF Divisions
<1>2. DivQuotient(a) \in Integer
  BY <1>1, AddIsInteger, ConstantsAre DEF DivQuotient
<1>3. DivRemainder(a) \in Integer
  BY <1>1, AddIsInteger DEF DivRemainder
<1>4. Shr[a[3]] \in Integer
  BY <1>1, ShrIs
<1>5. CASE a[4] = 0
  BY <1>1, <1>2, <1>5 DEF DivNext
<1>6. CASE a[4] # 0
  <2>1. a[4] - 1 \in Nat
    BY <1>1, <1>6
  <2>2. DivNext(a) = <<DivQuotient(a), DivRemainder(a), Shr[a[3]], a[4] - 1>>
    BY <1>6 DEF DivNext
  <2> QED
    BY <1>1, <1>2, <1>3, <1>4, <2>1, <2>2 DEF Divisions
<1> QED
  BY <1>5, <1>6

\* DivFrom is what its definition says.
LEMMA DivFromIs ==
  ASSUME NEW a \in Divisions
  PROVE  /\ DivFrom[a] \in Integer
         /\ a[4] = 0 => DivFrom[a] = DivQuotient(a)
         /\ a[4] # 0 => DivFrom[a] = DivFrom[DivNext(a)]
<1> DEFINE Base == {t \in Divisions : t[4] = 0}
           b == [t \in Divisions |-> DivQuotient(t)]
           next == [t \in Divisions |-> DivNext(t)]
           g == [p \in Divisions \X Integer |-> p[2]]
           m == [t \in Divisions |-> t[4]]
           Body(f) == [t \in Divisions |-> IF t[4] = 0 THEN DivQuotient(t) ELSE f[<<DivQuotient(t), DivRemainder(t), Shr[t[3]], t[4] - 1>>]]
<1>1. m \in [Divisions -> Nat] /\ next \in [Divisions -> Divisions]
  BY DivGoesOn
<1>2. \A t \in Divisions : (DivQuotient(t)) \in Integer
  BY DivGoesOn
<1>3. ASSUME NEW t \in Divisions, NEW z \in Integer
      PROVE  z \in Integer
  OBVIOUS
<1>4. b \in [Divisions -> Integer] /\ g \in [Divisions \X Integer -> Integer]
  BY <1>2, <1>3
<1>5. \A t \in Divisions : t \notin Base => m[next[t]] < m[t]
  BY DivGoesOn
<1>6. PICK f \in [Divisions -> Integer] : Computes(f, Divisions, Base, b, next, g)
  <2> HIDE DEF Base, b, next, g, m
  <2> QED
    BY <1>1, <1>4, <1>5, Recursion
<1>7. f = Body(f)
  <2>1. ASSUME NEW t \in Divisions PROVE f[t] = Body(f)[t]
    <3>1. f[t] = IF t \in Base THEN b[t] ELSE g[<<t, f[next[t]]>>]
      BY <1>6 DEF Computes
    <3>2. (DivNext(t)) \in Divisions /\ f[DivNext(t)] \in Integer
      BY DivGoesOn
    <3>3. g[<<t, f[DivNext(t)]>>] = f[DivNext(t)]
      BY <3>2
    <3>4. f[t] = IF t[4] = 0 THEN DivQuotient(t) ELSE f[DivNext(t)]
      BY <3>1, <3>3
    <3> HIDE DEF Base, b, next, g
    <3> QED
      BY <3>4, DivGoesOn, Zenon
  <2> QED
    BY <2>1
<1>8. DivFrom = CHOOSE h : h = Body(h)
  BY DEF DivFrom, Divisions, DivQuotient, DivRemainder, DivFits
<1>9. DivFrom = Body(DivFrom)
  <2> HIDE DEF Body
  <2> QED
    BY <1>7, <1>8
<1>10. \A t \in Divisions : DivFrom[t] = IF t[4] = 0 THEN DivQuotient(t) ELSE DivFrom[DivNext(t)]
  <2> SUFFICES ASSUME NEW t \in Divisions
               PROVE  DivFrom[t] = IF t[4] = 0 THEN DivQuotient(t) ELSE DivFrom[DivNext(t)]
    OBVIOUS
  <2>1. DivFrom[t] = IF t[4] = 0 THEN DivQuotient(t) ELSE DivFrom[<<DivQuotient(t), DivRemainder(t), Shr[t[3]], t[4] - 1>>]
    <3> HIDE DEF Base, b, next, g, m
    <3> QED
      BY <1>9
  <2> HIDE DEF Base, b, next, g, m, Body
  <2> QED
    BY <2>1, DivGoesOn, Zenon
<1>11. \A t \in Divisions : DivFrom[t] \in Integer
  <2> DEFINE T == {t \in Divisions : DivFrom[t] \in Integer}
  <2>1. ASSUME NEW t \in Divisions, \A u \in Divisions : m[u] < m[t] => u \in T
        PROVE  t \in T
    <3>1. ASSUME ~(t[4] = 0) PROVE DivFrom[DivNext(t)] \in Integer
      BY <1>5, <2>1, <3>1, DivGoesOn
    <3> HIDE DEF Base, b, next, g, m, Body
    <3> QED
      BY <1>2, <1>3, <1>10, <3>1
  <2> HIDE DEF T, m, Base, b, next, g, Body
  <2>2. \A t \in Divisions : t \in T
    BY <1>1, <2>1, Induction
  <2> QED
    BY <2>2 DEF T
<1> HIDE DEF Base, b, next, g, m, Body
<1> QED
  BY <1>10, <1>11, DivGoesOn, Zenon

\* Quotients by d.
LEMMA DivOf ==
  ASSUME NEW d \in Nat, d > 0, NEW q \in Int, NEW e \in 0 .. d - 1
  PROVE  (d * q + e) \div d = q
<1> DEFINE z == d * q + e
           i == z \div d
           r == z % d
<1>1. z \in Int
  OBVIOUS
<1>2. i \in Int /\ r \in 0 .. d - 1 /\ z = d * i + r
  BY <1>1
<1>3. d * (i - q) = e - r
  BY <1>2
<1> HIDE DEF i, r, z
<1>4. i - q <= -1 => d * (i - q) <= -d
  BY <1>2
<1>5. i - q >= 1 => d * (i - q) >= d
  BY <1>2
<1>6. i = q
  BY <1>2, <1>3, <1>4, <1>5
<1> QED
  BY <1>6 DEF i, z

\* A multiple of d less is so many less in the quotient.
LEMMA DivLess ==
  ASSUME NEW d \in Nat, d > 0, NEW r \in Int, NEW k \in Int
  PROVE  (r - d * k) \div d = (r \div d) - k /\ r \div d \in Int
<1> DEFINE q == r \div d
           e == r % d
<1>1. q \in Int /\ e \in 0 .. d - 1 /\ r = d * q + e
  OBVIOUS
<1> HIDE DEF q, e
<1>2. r - d * k = d * (q - k) + e /\ q - k \in Int
  BY <1>1
<1>3. (d * (q - k) + e) \div d = q - k
  BY <1>1, <1>2, DivOf
<1> QED
  BY <1>1, <1>2, <1>3 DEF q

\* POS1 is its own shortest form.
LEMMA OneNumeral == Pos1 \in Numeral /\ Value[Pos1] = 1
<1>1. 1 \in Small
  BY DigitAssumption DEF Small
<1> QED
  BY <1>1, SmallNumeral DEF Pos1

\* A round of the division: one more bit of the quotient.
LEMMA DivRound ==
  ASSUME NEW a \in Divisions, a[1] \in Numeral, a[2] \in Numeral, a[3] \in Numeral,
         Value[a[2]] >= 0, Value[a[2]] < 2 * Value[a[3]]
  PROVE  \E b \in 0 .. 1 :
           /\ DivQuotient(a) \in Numeral /\ Value[DivQuotient(a)] = 2 * Value[a[1]] + b
           /\ DivRemainder(a) \in Numeral /\ Value[DivRemainder(a)] = Value[a[2]] - b * Value[a[3]]
           /\ Value[DivRemainder(a)] >= 0 /\ Value[DivRemainder(a)] < Value[a[3]]
<1>1. Value[a[1]] \in Int /\ Value[a[2]] \in Int /\ Value[a[3]] \in Int
  BY HiNumeral
<1>2. Shl(a[1]) \in Numeral /\ Value[Shl(a[1])] = 2 * Value[a[1]]
  BY ShlExact
<1>3. DivFits(a) <=> Value[a[2]] >= Value[a[3]]
  BY <1>1, CmpExact DEF DivFits
<1>4. CASE Value[a[2]] >= Value[a[3]]
  <2>1. DivQuotient(a) = Add(Pos1, Shl(a[1])) /\ DivRemainder(a) = Sub(a[2], a[3])
    BY <1>3, <1>4 DEF DivQuotient, DivRemainder
  <2>2. DivQuotient(a) \in Numeral /\ Value[DivQuotient(a)] = 1 + Value[Shl(a[1])]
    BY <1>2, <2>1, OneNumeral, AddExact
  <2>3. DivRemainder(a) \in Numeral /\ Value[DivRemainder(a)] = Value[a[2]] - Value[a[3]]
    BY <2>1, SubExact
  <2>4. /\ Value[DivQuotient(a)] = 2 * Value[a[1]] + 1
        /\ Value[DivRemainder(a)] = Value[a[2]] - 1 * Value[a[3]]
        /\ Value[DivRemainder(a)] >= 0 /\ Value[DivRemainder(a)] < Value[a[3]] /\ 1 \in 0 .. 1
    BY <1>1, <1>2, <1>4, <2>2, <2>3
  <2> QED
    BY <2>2, <2>3, <2>4, Zenon
<1>5. CASE ~(Value[a[2]] >= Value[a[3]])
  <2>1. DivQuotient(a) = Shl(a[1]) /\ DivRemainder(a) = a[2]
    BY <1>3, <1>5 DEF DivQuotient, DivRemainder
  <2>2. DivQuotient(a) \in Numeral /\ DivRemainder(a) \in Numeral
    BY <1>2, <2>1
  <2>3. /\ Value[DivQuotient(a)] = 2 * Value[a[1]] + 0
        /\ Value[DivRemainder(a)] = Value[a[2]] - 0 * Value[a[3]]
        /\ Value[DivRemainder(a)] >= 0 /\ Value[DivRemainder(a)] < Value[a[3]] /\ 0 \in 0 .. 1
    BY <1>1, <1>2, <1>5, <2>1
  <2> QED
    BY <2>2, <2>3, Zenon
<1> QED
  BY <1>4, <1>5

\* divnonneg, from any round on, if what remains of x is below twice the divisor as it
\* is shifted now: what it has of the quotient, and the quotient of the rest.
LEMMA DivFromExact ==
  ASSUME NEW d \in Nat, d > 0, NEW a \in Divisions,
         a[1] \in Numeral, a[2] \in Numeral, a[3] \in Numeral,
         Value[a[3]] = d * Power2[a[4]], Value[a[2]] >= 0, Value[a[2]] < 2 * Value[a[3]]
  PROVE  /\ DivFrom[a] \in Numeral
         /\ Value[DivFrom[a]] = Value[a[1]] * Power2[a[4] + 1] + (Value[a[2]] \div d)
<1> DEFINE m == [t \in Divisions |-> t[4]]
           Good(t) == /\ t[1] \in Numeral /\ t[2] \in Numeral /\ t[3] \in Numeral
                      /\ Value[t[3]] = d * Power2[t[4]] /\ Value[t[2]] >= 0 /\ Value[t[2]] < 2 * Value[t[3]]
           T == {t \in Divisions : Good(t) =>
                   /\ DivFrom[t] \in Numeral
                   /\ Value[DivFrom[t]] = Value[t[1]] * Power2[t[4] + 1] + (Value[t[2]] \div d)}
<1>1. m \in [Divisions -> Nat]
  BY DivGoesOn
<1>2. ASSUME NEW t \in Divisions, \A w \in Divisions : m[w] < m[t] => w \in T
      PROVE  t \in T
  <2> SUFFICES ASSUME Good(t)
               PROVE  /\ DivFrom[t] \in Numeral
                      /\ Value[DivFrom[t]] = Value[t[1]] * Power2[t[4] + 1] + (Value[t[2]] \div d)
    OBVIOUS
  <2> DEFINE n == t[4]
             q == Value[t[1]]
             r == Value[t[2]]
             y == Value[t[3]]
             q2 == Value[DivQuotient(t)]
             r2 == Value[DivRemainder(t)]
             u == DivNext(t)
  <2>1. q \in Int /\ r \in Int /\ y \in Int /\ n \in Nat /\ y = d * Power2[n] /\ r >= 0 /\ r < 2 * y
    BY HiNumeral, DivGoesOn
  <2>2. PICK b \in 0 .. 1 :
          /\ DivQuotient(t) \in Numeral /\ q2 = 2 * q + b
          /\ DivRemainder(t) \in Numeral /\ r2 = r - b * y
          /\ r2 >= 0 /\ r2 < y
    BY DivRound
  <2>3. b \in Int
    OBVIOUS
  <2>4. CASE n = 0
    <3>1. DivFrom[t] = DivQuotient(t)
      BY <2>4, DivFromIs
    <3>2. Power2[n] = 1 /\ Power2[n + 1] = 2
      BY <2>4, Power2Is
    <3>3. y = d
      BY <2>1, <3>2
    <3>4. r = d * b + r2 /\ r2 \in 0 .. d - 1
      <4>1. r \in Int /\ r2 = r - b * d /\ r2 >= 0 /\ r2 < d
        BY <2>1, <2>2, <3>3
      <4>2. b * d = d * b /\ b * d \in Int
        BY <2>3
      <4> HIDE DEF r2, r, y
      <4> QED
        BY <4>1, <4>2
    <3>5. r \div d = b
      <4>1. (d * b + r2) \div d = b
        BY <2>3, <3>4, DivOf
      <4> QED
        BY <3>4, <4>1
    <3>6. q2 = q * 2 + (r \div d)
      BY <2>1, <2>2, <2>3, <3>5
    <3> QED
      BY <2>2, <3>1, <3>2, <3>6
  <2>5. CASE n # 0
    <3> DEFINE p == Power2[n - 1]
    <3>1. /\ n - 1 \in Nat /\ p \in Nat /\ Power2[n] = 2 * p /\ Power2[n + 1] = 2 * Power2[n] /\ Power2[n] \in Nat
      <4>1. n - 1 \in Nat /\ n + 1 \in Nat /\ n + 1 # 0 /\ (n + 1) - 1 = n
        BY <2>1, <2>5
      <4> QED
        BY <2>1, <2>5, <4>1, Power2Is
    <3>2. DivFrom[t] = DivFrom[u]
      BY <2>5, DivFromIs
    <3>3. /\ u \in Divisions /\ u[1] = DivQuotient(t) /\ u[2] = DivRemainder(t) /\ u[3] = Shr[t[3]]
          /\ u[4] = n - 1 /\ m[u] < m[t]
      BY <2>5, DivGoesOn
    <3>4. Shr[t[3]] \in Numeral /\ Value[Shr[t[3]]] = d * p /\ 2 * (d * p) = y
      <4>1. y = 2 * (d * p) /\ d * p \in Int
        BY <2>1, <3>1
      <4>2. Shr[t[3]] \in Numeral /\ Value[Shr[t[3]]] = y \div 2
        BY ShrExact
      <4>3. \A k \in Int : (2 * k) \div 2 = k
        OBVIOUS
      <4> QED
        BY <4>1, <4>2, <4>3
    <3>5. Good(u)
      BY <2>2, <3>3, <3>4
    <3>6. DivFrom[u] \in Numeral /\ Value[DivFrom[u]] = q2 * Power2[(n - 1) + 1] + (r2 \div d)
      <4>1. u \in T
        BY <1>2, <3>3
      <4> QED
        BY <3>3, <3>5, <4>1
    <3>7. (n - 1) + 1 = n
      BY <2>1
    <3>8. r2 = r - d * (b * Power2[n]) /\ b * Power2[n] \in Int
      <4> HIDE DEF r2, r, y, n
      <4>1. b * y = d * (b * Power2[n]) /\ b * Power2[n] \in Int
        BY <2>1, <2>3, <3>1
      <4> QED
        BY <2>2, <4>1
    <3>9. r2 \div d = (r \div d) - b * Power2[n] /\ r \div d \in Int
      <4> HIDE DEF r2, r, y, n
      <4> QED
        BY <2>1, <3>8, DivLess
    <3>10. q2 * Power2[n] + ((r \div d) - b * Power2[n]) = q * Power2[n + 1] + (r \div d)
      <4> HIDE DEF r2, r, y, n, q, q2, p
      <4>1. q2 * Power2[n] = q * (2 * Power2[n]) + b * Power2[n]
        BY <2>1, <2>2, <2>3, <3>1
      <4>2. q * (2 * Power2[n]) \in Int
        BY <2>1, <3>1
      <4> QED
        BY <3>1, <3>8, <3>9, <4>1, <4>2
    <3> QED
      BY <3>2, <3>6, <3>7, <3>9, <3>10, Zenon
  <2> QED
    BY <2>4, <2>5
<1> HIDE DEF T, m
<1>3. \A t \in Divisions : t \in T
  BY <1>1, <1>2, Induction
<1> QED
  BY <1>3 DEF T

\* divnonneg returns the quotient, if x is not negative and y is above 0.
LEMMA DivNonnegExact ==
  ASSUME NEW x \in Numeral, NEW y \in Numeral, Value[x] >= 0, Value[y] > 0
  PROVE  DivNonneg(x, y) \in Numeral /\ Value[DivNonneg(x, y)] = Value[x] \div Value[y]
<1> DEFINE v == Value[x]
           d == Value[y]
           i == IntegerLength[x]
           j == IntegerLength[y]
           n == i - j
<1>1. v \in Int /\ d \in Nat /\ v >= 0 /\ d > 0
  BY HiNumeral
<1>2. i \in Nat /\ j \in Nat /\ HasBits(v, i) /\ HasBits(d, j)
  BY <1>1, LengthExact
<1>3. j >= 1 /\ Power2[j - 1] <= d /\ d < Power2[j] /\ j - 1 \in Nat
  BY <1>1, <1>2 DEF HasBits
<1>4. CASE n < 0
  <2>1. v < d
    <3>1. CASE v = 0
      BY <1>1, <3>1
    <3>2. CASE v # 0
      <4>1. v < Power2[i]
        BY <1>2, <3>2 DEF HasBits
      <4>2. Power2[i] <= Power2[j - 1]
        BY <1>2, <1>3, <1>4, PowerOrder
      <4>3. Power2[i] \in Nat /\ Power2[j - 1] \in Nat
        BY <1>2, <1>3, Power2Is
      <4> HIDE DEF v, d, i, j
      <4> QED
        BY <1>1, <1>3, <4>1, <4>2, <4>3
    <3> QED
      BY <3>1, <3>2
  <2>2. v \div d = 0
    <3>1. v \in 0 .. d - 1 /\ d * 0 + v = v
      BY <1>1, <2>1
    <3>2. (d * 0 + v) \div d = 0
      BY <1>1, <3>1, DivOf
    <3> QED
      BY <3>1, <3>2
  <2>3. DivNonneg(x, y) = Zero
    BY <1>4 DEF DivNonneg
  <2> QED
    BY <2>2, <2>3, ConstantNumerals
<1>5. CASE n >= 0
  <2> DEFINE s == ShiftLeft(y, n)
             a == <<Zero, x, s, n>>
  <2>1. n \in Nat /\ i = j + n /\ i # 0
    BY <1>2, <1>3, <1>5
  <2>2. v < Power2[i]
    BY <1>2, <2>1 DEF HasBits
  <2>3. s \in Numeral /\ Value[s] = d * Power2[n]
    BY <2>1, ShiftLeftExact
  <2>4. v < 2 * Value[s]
    <3> DEFINE p == Power2[j - 1]
               w == Power2[n]
    <3>0. j \in Nat /\ j # 0 /\ n \in Nat
      BY <1>2, <1>3, <2>1
    <3>1. Power2[j + n] = Power2[j] * w /\ Power2[j] = 2 * p /\ p \in Nat /\ w \in Nat
      <4> HIDE DEF j, n
      <4>1. Power2[j + n] = Power2[j] * Power2[n]
        BY <3>0, PowerSum
      <4>2. Power2[j] = 2 * Power2[j - 1] /\ Power2[j - 1] \in Nat /\ Power2[n] \in Nat
        BY <1>3, <3>0, Power2Is
      <4> QED
        BY <4>1, <4>2
    <3>2. v < (2 * p) * w
      BY <2>1, <2>2, <3>1
    <3>3. p <= d
      BY <1>3
    <3> HIDE DEF p, w, v, d, i, j, n, s
    <3>4. p * w <= d * w
      BY <1>1, <3>1, <3>3
    <3>5. (2 * p) * w = 2 * (p * w) /\ p * w \in Int /\ d * w \in Int
      BY <1>1, <3>1
    <3>6. v < 2 * (d * w)
      BY <1>1, <3>2, <3>4, <3>5
    <3> QED
      BY <2>3, <3>6 DEF w
  <2> HIDE DEF s
  <2>5. /\ a \in Divisions /\ a[1] = Zero /\ a[2] = x /\ a[3] = s /\ a[4] = n
    BY <2>1, <2>3, NumeralIs, ConstantsAre DEF Divisions
  <2>6. DivFrom[a] \in Numeral /\ Value[DivFrom[a]] = Value[Zero] * Power2[n + 1] + (v \div d)
    <3> HIDE DEF a, n
    <3> QED
      BY <1>1, <2>3, <2>4, <2>5, ConstantNumerals, DivFromExact
  <2>7. Value[Zero] * Power2[n + 1] + (v \div d) = v \div d
    <3>1. n + 1 \in Nat /\ v \div d \in Int
      BY <1>1, <2>1
    <3>2. Power2[n + 1] \in Nat
      BY <3>1, Power2Is
    <3> QED
      BY <3>1, <3>2, ConstantNumerals
  <2>8. DivNonneg(x, y) = DivFrom[a]
    BY <1>5, <2>1 DEF DivNonneg, s
  <2> QED
    BY <2>6, <2>7, <2>8
<1> QED
  BY <1>2, <1>4, <1>5

-----------------------------------------------------------------------------
(* Bits.                                                                   *)

\* Division by a product.
LEMMA NestedDiv ==
  ASSUME NEW k \in Nat, k > 0, NEW p \in Nat, p > 0, NEW c \in 0 .. k - 1, NEW h \in Int
  PROVE  (c + k * h) \div (k * p) = h \div p
<1> DEFINE q == h \div p
           r == h % p
<1>1. q \in Int /\ r \in 0 .. p - 1 /\ h = p * q + r
  OBVIOUS
<1> HIDE DEF q, r
<1>2. k * p \in Nat /\ k * p > 0 /\ k * r \in Int /\ k * r >= 0
  BY <1>1
<1>3. k * r <= k * (p - 1) /\ k * (p - 1) = k * p - k
  BY <1>1
<1>4. c + k * r \in 0 .. (k * p) - 1
  BY <1>2, <1>3
<1>5. c + k * h = (k * p) * q + (c + k * r)
  <2>1. k * h = (k * p) * q + k * r /\ (k * p) * q \in Int
    BY <1>1, <1>2
  <2> QED
    BY <1>2, <2>1
<1>6. ((k * p) * q + (c + k * r)) \div (k * p) = q
  BY <1>1, <1>2, <1>4, DivOf
<1> QED
  BY <1>5, <1>6 DEF q

\* The lowest bit, and those above it.
LEMMA BitOf ==
  ASSUME NEW n \in Int, NEW i \in Nat
  PROVE  /\ Bit(n, i) \in 0 .. 1
         /\ Bit(n, 0) = n % 2
         /\ i # 0 => Bit(n, i) = Bit(n \div 2, i - 1)
<1>1. Power2[i] \in Nat \ {0} /\ Power2[0] = 1 /\ 0 \in Nat
  BY Power2Is
<1>2. n \div Power2[i] \in Int
  BY <1>1
<1>3. Bit(n, i) \in 0 .. 1
  BY <1>2 DEF Bit
<1>4. Bit(n, 0) = n % 2
  BY <1>1 DEF Bit
<1>5. ASSUME i # 0
      PROVE  Bit(n, i) = Bit(n \div 2, i - 1)
  <2> DEFINE p == Power2[i - 1]
             h == n \div 2
             c == n % 2
  <2>1. i - 1 \in Nat
    BY <1>5
  <2>2. p \in Nat /\ p > 0 /\ Power2[i] = 2 * p
    BY <1>5, <2>1, Power2Is
  <2>3. h \in Int /\ c \in 0 .. 2 - 1 /\ n = c + 2 * h
    OBVIOUS
  <2>4. (c + 2 * h) \div (2 * p) = h \div p
    <3> HIDE DEF c, h, p
    <3>1. 2 \in Nat /\ 2 > 0
      OBVIOUS
    <3> QED
      BY <2>2, <2>3, <3>1, NestedDiv
  <2> QED
    BY <2>2, <2>3, <2>4 DEF Bit
<1> QED
  BY <1>3, <1>4, <1>5

\* Every bit of 0 is 0, every bit of -1 is 1.
LEMMA BitOfSigns ==
  ASSUME NEW i \in Nat
  PROVE  Bit(0, i) = 0 /\ Bit(-1, i) = 1
<1> DEFINE p == Power2[i]
<1>1. p \in Nat /\ p > 0
  BY Power2Is
<1> HIDE DEF p
<1>2. 0 \in 0 .. p - 1 /\ p - 1 \in 0 .. p - 1 /\ p * 0 + 0 = 0 /\ p * (-1) + (p - 1) = -1 /\ 0 \in Int /\ -1 \in Int
  BY <1>1
<1>3. (p * 0 + 0) \div p = 0
  BY <1>1, <1>2, DivOf
<1>4. (p * (-1) + (p - 1)) \div p = -1
  BY <1>1, <1>2, DivOf
<1>5. 0 \div p = 0 /\ (-1) \div p = -1
  BY <1>2, <1>3, <1>4, Zenon
<1> QED
  BY <1>5 DEF Bit, p

\* The bits of an integer: those of its digit, then those of its high part.
LEMMA BitLow ==
  ASSUME NEW d \in Digit, NEW h \in Int, NEW i \in Nat, i < Width
  PROVE  Bit(d + B * h, i) = Bit(d, i)
<1> DEFINE p == Power2[i]
           w == Power2[(Width - i) - 1]
<1>1. Width - i \in Nat /\ Width - i # 0 /\ (Width - i) - 1 \in Nat /\ i + (Width - i) = Width
  BY EvenBase
<1>2. p \in Nat /\ p > 0 /\ w \in Nat /\ Power2[Width - i] = 2 * w
  BY <1>1, Power2Is
<1>3. B = p * (2 * w)
  <2>1. Power2[i + (Width - i)] = p * Power2[Width - i]
    BY <1>1, PowerSum
  <2> QED
    BY <1>1, <1>2, <2>1, EvenBase
<1> HIDE DEF p, w
<1> DEFINE k == (2 * w) * h
<1>4. k \in Int /\ k = 2 * (w * h) /\ w * h \in Int /\ B * h = p * k
  BY <1>2, <1>3
<1>5. d \in Int
  BY DigitAssumption DEF Digit
<1>6. (d - p * (-k)) \div p = (d \div p) - (-k) /\ d \div p \in Int
  <2> HIDE DEF k
  <2>1. -k \in Int
    BY <1>4
  <2> QED
    BY <1>2, <1>5, <2>1, DivLess
<1>7. d - p * (-k) = d + B * h
  <2> HIDE DEF k
  <2>1. p * (-k) = -(p * k) /\ p * k \in Int
    BY <1>2, <1>4
  <2> QED
    BY <1>4, <1>5, <2>1
<1>8. (d + B * h) \div p = (d \div p) + 2 * (w * h)
  <2> HIDE DEF k
  <2> QED
    BY <1>4, <1>6, <1>7
<1>9. \A x \in Int, y \in Int : (x + 2 * y) % 2 = x % 2
  OBVIOUS
<1> QED
  BY <1>4, <1>6, <1>8, <1>9 DEF Bit, p

\* The bits of the high part come after those of the digit.
LEMMA BitHigh ==
  ASSUME NEW d \in Digit, NEW h \in Int, NEW i \in Nat, i >= Width
  PROVE  i - Width \in Nat /\ Bit(d + B * h, i) = Bit(h, i - Width)
<1> DEFINE p == Power2[i - Width]
<1>1. i - Width \in Nat /\ Width + (i - Width) = i
  BY EvenBase
<1>2. p \in Nat /\ p > 0
  BY <1>1, Power2Is
<1>3. Power2[i] = B * p
  <2>1. Power2[Width + (i - Width)] = Power2[Width] * p
    BY <1>1, EvenBase, PowerSum
  <2> QED
    BY <1>1, <2>1, EvenBase
<1>4. B \in Nat /\ B > 0 /\ d \in 0 .. B - 1
  BY DigitAssumption DEF Digit
<1>5. (d + B * h) \div (B * p) = h \div p
  <2> HIDE DEF p
  <2> QED
    BY <1>2, <1>4, NestedDiv
<1> QED
  BY <1>1, <1>3, <1>5 DEF Bit

Tables == {AndBit, IorBit, XorBit}
Operands == Tables \X Nat \X Nat

OpBit(a)  == a[1][<<a[2] % 2, a[3] % 2>>]
OpNext(a) == <<a[1], a[2] \div 2, a[3] \div 2>>
OpEnds(a) == a[2] = 0 /\ a[3] = 0

\* The tables leave a bit that neither operand has.
LEMMA TablesAre ==
  ASSUME NEW f \in Tables
  PROVE  /\ \A i \in 0 .. 1, j \in 0 .. 1 : f[<<i, j>>] \in 0 .. 1
         /\ f[<<0, 0>>] = 0
         /\ f = AndBit => \A i \in 0 .. 1, j \in 0 .. 1 : f[<<i, j>>] = i * j
<1>1. ASSUME NEW i \in 0 .. 1, NEW j \in 0 .. 1
      PROVE  /\ AndBit[<<i, j>>] = i * j
             /\ IorBit[<<i, j>>] = IF i + j > 0 THEN 1 ELSE 0
             /\ XorBit[<<i, j>>] = (i + j) % 2
  BY DEF AndBit, IorBit, XorBit
<1>2. ASSUME NEW i \in 0 .. 1, NEW j \in 0 .. 1
      PROVE  i * j \in 0 .. 1 /\ (i + j) % 2 \in 0 .. 1 /\ (IF i + j > 0 THEN 1 ELSE 0) \in 0 .. 1
  <2>1. (i = 0 \/ i = 1) /\ (j = 0 \/ j = 1)
    OBVIOUS
  <2> QED
    BY <2>1
<1>3. 0 \in 0 .. 1 /\ 0 * 0 = 0 /\ (0 + 0) % 2 = 0 /\ ~(0 + 0 > 0)
  OBVIOUS
<1>4. AndBit[<<0, 0>>] = 0 /\ IorBit[<<0, 0>>] = 0 /\ XorBit[<<0, 0>>] = 0
  BY <1>1, <1>3
<1> QED
  BY <1>1, <1>2, <1>4 DEF Tables

\* A bit of the operands less.
LEMMA OpGoesOn ==
  ASSUME NEW a \in Operands
  PROVE  /\ a[1] \in Tables /\ a[2] \in Nat /\ a[3] \in Nat /\ a[2] + a[3] \in Nat
         /\ OpBit(a) \in 0 .. 1 /\ OpNext(a) \in Operands
         /\ OpNext(a) = <<a[1], a[2] \div 2, a[3] \div 2>>
         /\ OpNext(a)[1] = a[1] /\ OpNext(a)[2] = a[2] \div 2 /\ OpNext(a)[3] = a[3] \div 2
         /\ ~OpEnds(a) => OpNext(a)[2] + OpNext(a)[3] < a[2] + a[3]
<1>1. a[1] \in Tables /\ a[2] \in Nat /\ a[3] \in Nat
  BY DEF Operands
<1>2. a[2] % 2 \in 0 .. 1 /\ a[3] % 2 \in 0 .. 1 /\ a[2] \div 2 \in Nat /\ a[3] \div 2 \in Nat
  BY <1>1, BitsGoesOn
<1>3. OpBit(a) \in 0 .. 1
  BY <1>1, <1>2, TablesAre DEF OpBit
<1>4. /\ OpNext(a) \in Operands
      /\ OpNext(a) = <<a[1], a[2] \div 2, a[3] \div 2>>
      /\ OpNext(a)[1] = a[1] /\ OpNext(a)[2] = a[2] \div 2 /\ OpNext(a)[3] = a[3] \div 2
  BY <1>1, <1>2 DEF OpNext, Operands
<1>5. (a[2] # 0 => a[2] \div 2 < a[2]) /\ (a[3] # 0 => a[3] \div 2 < a[3]) /\ 0 \div 2 = 0
  BY <1>1, BitsGoesOn
<1>6. ~OpEnds(a) => OpNext(a)[2] + OpNext(a)[3] < a[2] + a[3]
  <2> DEFINE x == a[2]
             y == a[3]
             u == x \div 2
             v == y \div 2
  <2>1. x \in Nat /\ y \in Nat /\ u \in Nat /\ v \in Nat /\ (x # 0 => u < x) /\ (y # 0 => v < y) /\ (x = 0 => u = 0) /\ (y = 0 => v = 0)
    BY <1>1, <1>2, <1>5
  <2>2. OpEnds(a) <=> x = 0 /\ y = 0
    BY DEF OpEnds
  <2>3. OpNext(a)[2] = u /\ OpNext(a)[3] = v
    BY <1>4
  <2> HIDE DEF x, y, u, v
  <2>4. ~(x = 0 /\ y = 0) => u + v < x + y
    BY <2>1
  <2> QED
    BY <2>2, <2>3, <2>4 DEF x, y
<1> QED
  BY <1>1, <1>3, <1>4, <1>6

\* Natural numbers are made of bits.
LEMMA OpParts ==
  /\ 0 \in Nat
  /\ \A b \in 0 .. 1, z \in Nat : b + 2 * z \in Nat
  OBVIOUS

\* The operator on digits that a table defines.
LEMMA BitByBitIs ==
  ASSUME NEW a \in Operands
  PROVE  /\ BitByBit[a] \in Nat
         /\ BitByBit[a] = IF OpEnds(a) THEN 0 ELSE OpBit(a) + 2 * BitByBit[OpNext(a)]
<1> DEFINE Base == {t \in Operands : OpEnds(t)}
           b == [t \in Operands |-> 0]
           next == [t \in Operands |-> OpNext(t)]
           g == [p \in Operands \X Nat |-> OpBit(p[1]) + 2 * p[2]]
           m == [t \in Operands |-> t[2] + t[3]]
           Body(f) == [t \in Operands |-> IF t[2] = 0 /\ t[3] = 0 THEN 0 ELSE t[1][<<t[2] % 2, t[3] % 2>>] + 2 * f[<<t[1], t[2] \div 2, t[3] \div 2>>]]
<1>1. m \in [Operands -> Nat] /\ next \in [Operands -> Operands]
  BY OpGoesOn
<1>2. \A t \in Operands : (0) \in Nat
  BY OpParts
<1>3. ASSUME NEW t \in Operands, NEW z \in Nat
      PROVE  OpBit(t) + 2 * z \in Nat
  BY OpGoesOn, OpParts
<1>4. b \in [Operands -> Nat] /\ g \in [Operands \X Nat -> Nat]
  BY <1>2, <1>3
<1>5. \A t \in Operands : t \notin Base => m[next[t]] < m[t]
  BY OpGoesOn
<1>6. PICK f \in [Operands -> Nat] : Computes(f, Operands, Base, b, next, g)
  <2> HIDE DEF Base, b, next, g, m
  <2> QED
    BY <1>1, <1>4, <1>5, Recursion
<1>7. f = Body(f)
  <2>1. ASSUME NEW t \in Operands PROVE f[t] = Body(f)[t]
    <3>1. f[t] = IF t \in Base THEN b[t] ELSE g[<<t, f[next[t]]>>]
      BY <1>6 DEF Computes
    <3>2. (OpNext(t)) \in Operands /\ f[OpNext(t)] \in Nat
      BY OpGoesOn
    <3>3. g[<<t, f[OpNext(t)]>>] = OpBit(t) + 2 * f[OpNext(t)]
      BY <3>2
    <3>4. f[t] = IF OpEnds(t) THEN 0 ELSE OpBit(t) + 2 * f[OpNext(t)]
      BY <3>1, <3>3
    <3> HIDE DEF Base, b, next, g
    <3> QED
      BY <3>4 DEF OpEnds, OpBit, OpNext
  <2> QED
    BY <2>1
<1>8. BitByBit = CHOOSE h : h = Body(h)
  BY DEF BitByBit, Operands, Tables
<1>9. BitByBit = Body(BitByBit)
  <2> HIDE DEF Body
  <2> QED
    BY <1>7, <1>8
<1>10. \A t \in Operands : BitByBit[t] = IF OpEnds(t) THEN 0 ELSE OpBit(t) + 2 * BitByBit[OpNext(t)]
  <2> SUFFICES ASSUME NEW t \in Operands
               PROVE  BitByBit[t] = IF OpEnds(t) THEN 0 ELSE OpBit(t) + 2 * BitByBit[OpNext(t)]
    OBVIOUS
  <2>1. BitByBit[t] = IF t[2] = 0 /\ t[3] = 0 THEN 0 ELSE t[1][<<t[2] % 2, t[3] % 2>>] + 2 * BitByBit[<<t[1], t[2] \div 2, t[3] \div 2>>]
    <3> HIDE DEF Base, b, next, g, m
    <3> QED
      BY <1>9
  <2> HIDE DEF Base, b, next, g, m, Body
  <2> QED
    BY <2>1 DEF OpEnds, OpBit, OpNext
<1>11. \A t \in Operands : BitByBit[t] \in Nat
  <2> DEFINE T == {t \in Operands : BitByBit[t] \in Nat}
  <2>1. ASSUME NEW t \in Operands, \A u \in Operands : m[u] < m[t] => u \in T
        PROVE  t \in T
    <3>1. ASSUME ~(OpEnds(t)) PROVE BitByBit[OpNext(t)] \in Nat
      BY <1>5, <2>1, <3>1, OpGoesOn
    <3> HIDE DEF Base, b, next, g, m, Body
    <3> QED
      BY <1>2, <1>3, <1>10, <3>1
  <2> HIDE DEF T, m, Base, b, next, g, Body
  <2>2. \A t \in Operands : t \in T
    BY <1>1, <2>1, Induction
  <2> QED
    BY <2>2 DEF T
<1> HIDE DEF Base, b, next, g, m, Body
<1> QED
  BY <1>10, <1>11

\* Each bit is what the table says.
LEMMA BitByBitExact ==
  ASSUME NEW f \in Tables, NEW i \in Nat, NEW d \in Nat, NEW e \in Nat
  PROVE  Bit(BitByBit[<<f, d, e>>], i) = f[<<Bit(d, i), Bit(e, i)>>]
<1> DEFINE D == Nat
           m == [n \in D |-> n]
           Good(n, x, y) == Bit(BitByBit[<<f, x, y>>], n) = f[<<Bit(x, n), Bit(y, n)>>]
           T == {n \in D : \A x \in Nat, y \in Nat : Good(n, x, y)}
<1>1. m \in [D -> Nat]
  OBVIOUS
<1>2. ASSUME NEW n \in D, \A k \in D : m[k] < m[n] => k \in T
      PROVE  n \in T
  <2> SUFFICES ASSUME NEW x \in Nat, NEW y \in Nat
               PROVE  Good(n, x, y)
    OBVIOUS
  <2> DEFINE a == <<f, x, y>>
             u == OpNext(a)
             r == BitByBit[a]
             r2 == BitByBit[u]
             b == OpBit(a)
  <2>1. a \in Operands /\ a[1] = f /\ a[2] = x /\ a[3] = y
    BY DEF Operands
  <2>2. u = <<f, x \div 2, y \div 2>> /\ b \in 0 .. 1 /\ u \in Operands /\ x \div 2 \in Nat /\ y \div 2 \in Nat
    BY <2>1, OpGoesOn, BitsGoesOn
  <2>3. r2 \in Nat /\ r \in Nat /\ (OpEnds(a) <=> x = 0 /\ y = 0)
    BY <2>1, <2>2, BitByBitIs DEF OpEnds
  <2>4. CASE OpEnds(a)
    <3>1. r = 0 /\ x = 0 /\ y = 0 /\ n \in Nat
      BY <2>1, <2>3, <2>4, BitByBitIs
    <3>2. Bit(r, n) = 0 /\ Bit(x, n) = 0 /\ Bit(y, n) = 0
      BY <3>1, BitOfSigns
    <3> QED
      BY <3>2, TablesAre
  <2>5. CASE ~OpEnds(a)
    <3>1. r = b + 2 * r2
      BY <2>1, <2>5, BitByBitIs
    <3>2. \A p \in 0 .. 1, q \in Nat : (p + 2 * q) % 2 = p /\ (p + 2 * q) \div 2 = q
      OBVIOUS
    <3>3. r % 2 = b /\ r \div 2 = r2
      <4> HIDE DEF r, r2, b
      <4> QED
        BY <2>2, <2>3, <3>1, <3>2
    <3>4. r \in Int /\ x \in Int /\ y \in Int /\ n \in Nat
      BY <2>3
    <3>5. CASE n = 0
      <4>1. Bit(r, n) = b /\ Bit(x, n) = x % 2 /\ Bit(y, n) = y % 2
        <5> HIDE DEF r, b
        <5> QED
          BY <3>3, <3>4, <3>5, BitOf
      <4>2. b = f[<<x % 2, y % 2>>]
        BY <2>1 DEF OpBit
      <4> QED
        BY <4>1, <4>2
    <3>6. CASE n # 0
      <4> DEFINE j == n - 1
      <4>1. j \in Nat /\ m[j] < m[n] /\ j \in D
        BY <3>6
      <4>2. Bit(r, n) = Bit(r2, j) /\ Bit(x, n) = Bit(x \div 2, j) /\ Bit(y, n) = Bit(y \div 2, j)
        <5> HIDE DEF r, r2
        <5> QED
          BY <3>3, <3>4, <3>6, BitOf
      <4>3. Good(j, x \div 2, y \div 2)
        <5>1. j \in T
          BY <1>2, <4>1
        <5> QED
          BY <2>2, <5>1
      <4>4. Bit(r2, j) = f[<<Bit(x \div 2, j), Bit(y \div 2, j)>>]
        BY <2>2, <4>3
      <4> QED
        BY <4>2, <4>4
    <3> QED
      BY <3>5, <3>6
  <2> QED
    BY <2>4, <2>5
<1> HIDE DEF T, m, D
<1>3. \A n \in D : n \in T
  BY <1>1, <1>2, Induction
<1> QED
  BY <1>3 DEF T, D

\* It has no more bits than the operands.
LEMMA BitByBitLess ==
  ASSUME NEW f \in Tables, NEW i \in Nat, NEW d \in Nat, NEW e \in Nat, d < Power2[i], e < Power2[i]
  PROVE  BitByBit[<<f, d, e>>] \in Nat /\ BitByBit[<<f, d, e>>] < Power2[i]
<1> DEFINE D == Nat
           m == [n \in D |-> n]
           Good(n, x, y) == x < Power2[n] /\ y < Power2[n] => BitByBit[<<f, x, y>>] < Power2[n]
           T == {n \in D : \A x \in Nat, y \in Nat : Good(n, x, y)}
<1>1. m \in [D -> Nat]
  OBVIOUS
<1>2. ASSUME NEW n \in D, \A k \in D : m[k] < m[n] => k \in T
      PROVE  n \in T
  <2> SUFFICES ASSUME NEW x \in Nat, NEW y \in Nat, x < Power2[n], y < Power2[n]
               PROVE  BitByBit[<<f, x, y>>] < Power2[n]
    OBVIOUS
  <2> DEFINE a == <<f, x, y>>
             u == OpNext(a)
             r == BitByBit[a]
             r2 == BitByBit[u]
             b == OpBit(a)
  <2>1. a \in Operands /\ a[1] = f /\ a[2] = x /\ a[3] = y
    BY DEF Operands
  <2>2. u = <<f, x \div 2, y \div 2>> /\ b \in 0 .. 1 /\ u \in Operands /\ x \div 2 \in Nat /\ y \div 2 \in Nat
    BY <2>1, OpGoesOn, BitsGoesOn
  <2>3. r2 \in Nat /\ r \in Nat /\ (OpEnds(a) <=> x = 0 /\ y = 0)
    BY <2>1, <2>2, BitByBitIs DEF OpEnds
  <2>4. Power2[n] \in Nat /\ Power2[n] > 0 /\ (n = 0 => Power2[n] = 1) /\ (n # 0 => Power2[n] = 2 * Power2[n - 1])
    BY Power2Is
  <2>5. CASE OpEnds(a)
    BY <2>1, <2>4, <2>5, BitByBitIs
  <2>6. CASE ~OpEnds(a)
    <3>1. r = b + 2 * r2
      BY <2>1, <2>6, BitByBitIs
    <3>2. n # 0
      BY <2>3, <2>4, <2>6
    <3> DEFINE j == n - 1
    <3>3. j \in Nat /\ j \in D /\ m[j] < m[n] /\ Power2[n] = 2 * Power2[j]
      BY <2>4, <3>2
    <3>4. Power2[j] \in Nat
      BY <3>3, Power2Is
    <3>5. x \div 2 < Power2[j] /\ y \div 2 < Power2[j]
      <4>1. \A p \in Nat, q \in Nat : p < 2 * q => p \div 2 < q
        OBVIOUS
      <4> QED
        BY <3>3, <3>4, <4>1
    <3>6. BitByBit[<<f, x \div 2, y \div 2>>] < Power2[j]
      <4>1. j \in T
        BY <1>2, <3>3
      <4>2. Good(j, x \div 2, y \div 2)
        BY <2>2, <4>1
      <4> QED
        BY <3>5, <4>2
    <3>7. r2 < Power2[j]
      BY <2>2, <3>6
    <3> HIDE DEF r, r2, b, j
    <3>8. r < Power2[n]
      BY <2>2, <2>3, <3>1, <3>3, <3>4, <3>7
    <3> QED
      BY <3>8 DEF r
  <2> QED
    BY <2>5, <2>6
<1> HIDE DEF T, m, D
<1>3. \A n \in D : n \in T
  BY <1>1, <1>2, Induction
<1>4. <<f, d, e>> \in Operands
  BY DEF Operands
<1>5. BitByBit[<<f, d, e>>] \in Nat
  BY <1>4, BitByBitIs
<1> QED
  BY <1>3, <1>5 DEF T, D

Ands == Integer \X Integer

AndDigit(a) == BitByBit[<<AndBit, Lo(a[1]), Lo(a[2])>>]
AndNext(a)  == <<Hi(a[1]), Hi(a[2])>>
AndEnds(a)  == a[1] \in {Zero, Neg1}
AndEnd(a)   == IF a[1] = Zero THEN Zero ELSE a[2]

\* It makes digits of digits.
LEMMA DigitBits ==
  ASSUME NEW f \in Tables, NEW d \in Digit, NEW e \in Digit
  PROVE  BitByBit[<<f, d, e>>] \in Digit
<1>1. d \in Nat /\ e \in Nat /\ d < Power2[Width] /\ e < Power2[Width] /\ Width \in Nat
  BY EvenBase DEF Digit
<1>2. BitByBit[<<f, d, e>>] \in Nat /\ BitByBit[<<f, d, e>>] < Power2[Width]
  BY <1>1, BitByBitLess
<1> QED
  BY <1>2, EvenBase DEF Digit

\* A round of bitwise_and.
LEMMA AndGoesOn ==
  ASSUME NEW a \in Ands
  PROVE  /\ a[1] \in Integer /\ a[2] \in Integer /\ Rank(a[1]) \in Nat
         /\ AndDigit(a) \in Digit /\ AndEnd(a) \in Integer
         /\ AndNext(a) \in Ands /\ AndNext(a)[1] = Hi(a[1]) /\ AndNext(a)[2] = Hi(a[2])
         /\ ~AndEnds(a) => Rank(AndNext(a)[1]) < Rank(a[1])
<1>1. a[1] \in Integer /\ a[2] \in Integer
  BY DEF Ands
<1>2. AndDigit(a) \in Digit
  BY <1>1, HiLo, DigitBits DEF AndDigit, Tables
<1>3. AndEnd(a) \in Integer
  BY <1>1, ConstantsAre DEF AndEnd
<1>4. AndNext(a) \in Ands /\ AndNext(a)[1] = Hi(a[1]) /\ AndNext(a)[2] = Hi(a[2])
  BY <1>1, HiLo DEF AndNext, Ands
<1> QED
  BY <1>1, <1>2, <1>3, <1>4, HiLo DEF AndEnds

\* What a round makes is an integer.
LEMMA AndParts ==
  ASSUME NEW a \in Ands, NEW z \in Integer
  PROVE  Attach(AndDigit(a), z) \in Integer
<1>1. AndDigit(a) \in Int
  BY AndGoesOn, DigitAssumption DEF Digit
<1> QED
  BY <1>1, AttachIs

\* AndFrom is what its definition says.
LEMMA AndFromIs ==
  ASSUME NEW a \in Ands
  PROVE  /\ AndFrom[a] \in Integer
         /\ AndFrom[a] = IF AndEnds(a) THEN AndEnd(a) ELSE Attach(AndDigit(a), AndFrom[AndNext(a)])
<1> DEFINE Base == {t \in Ands : AndEnds(t)}
           b == [t \in Ands |-> AndEnd(t)]
           next == [t \in Ands |-> AndNext(t)]
           g == [p \in Ands \X Integer |-> Attach(AndDigit(p[1]), p[2])]
           m == [t \in Ands |-> Rank(t[1])]
           Body(f) == [t \in Ands |-> IF t[1] = Zero THEN Zero ELSE IF t[1] = Neg1 THEN t[2] ELSE Attach(BitByBit[<<AndBit, Lo(t[1]), Lo(t[2])>>], f[<<Hi(t[1]), Hi(t[2])>>])]
<1>1. m \in [Ands -> Nat] /\ next \in [Ands -> Ands]
  BY AndGoesOn
<1>2. \A t \in Ands : (AndEnd(t)) \in Integer
  BY AndGoesOn
<1>3. ASSUME NEW t \in Ands, NEW z \in Integer
      PROVE  Attach(AndDigit(t), z) \in Integer
  BY AndParts
<1>4. b \in [Ands -> Integer] /\ g \in [Ands \X Integer -> Integer]
  BY <1>2, <1>3
<1>5. \A t \in Ands : t \notin Base => m[next[t]] < m[t]
  BY AndGoesOn
<1>6. PICK f \in [Ands -> Integer] : Computes(f, Ands, Base, b, next, g)
  <2> HIDE DEF Base, b, next, g, m
  <2> QED
    BY <1>1, <1>4, <1>5, Recursion
<1>7. f = Body(f)
  <2>1. ASSUME NEW t \in Ands PROVE f[t] = Body(f)[t]
    <3>1. f[t] = IF t \in Base THEN b[t] ELSE g[<<t, f[next[t]]>>]
      BY <1>6 DEF Computes
    <3>2. (AndNext(t)) \in Ands /\ f[AndNext(t)] \in Integer
      BY AndGoesOn
    <3>3. g[<<t, f[AndNext(t)]>>] = Attach(AndDigit(t), f[AndNext(t)])
      BY <3>2
    <3>4. f[t] = IF AndEnds(t) THEN AndEnd(t) ELSE Attach(AndDigit(t), f[AndNext(t)])
      BY <3>1, <3>3
    <3> HIDE DEF Base, b, next, g
    <3> QED
      BY <3>4, ConstantsAre DEF AndEnds, AndEnd, AndDigit, AndNext
  <2> QED
    BY <2>1
<1>8. AndFrom = CHOOSE h : h = Body(h)
  BY DEF AndFrom, Ands
<1>9. AndFrom = Body(AndFrom)
  <2> HIDE DEF Body
  <2> QED
    BY <1>7, <1>8
<1>10. \A t \in Ands : AndFrom[t] = IF AndEnds(t) THEN AndEnd(t) ELSE Attach(AndDigit(t), AndFrom[AndNext(t)])
  <2> SUFFICES ASSUME NEW t \in Ands
               PROVE  AndFrom[t] = IF AndEnds(t) THEN AndEnd(t) ELSE Attach(AndDigit(t), AndFrom[AndNext(t)])
    OBVIOUS
  <2>1. AndFrom[t] = IF t[1] = Zero THEN Zero ELSE IF t[1] = Neg1 THEN t[2] ELSE Attach(BitByBit[<<AndBit, Lo(t[1]), Lo(t[2])>>], AndFrom[<<Hi(t[1]), Hi(t[2])>>])
    <3> HIDE DEF Base, b, next, g, m
    <3> QED
      BY <1>9
  <2> HIDE DEF Base, b, next, g, m, Body
  <2> QED
    BY <2>1, ConstantsAre DEF AndEnds, AndEnd, AndDigit, AndNext
<1>11. \A t \in Ands : AndFrom[t] \in Integer
  <2> DEFINE T == {t \in Ands : AndFrom[t] \in Integer}
  <2>1. ASSUME NEW t \in Ands, \A u \in Ands : m[u] < m[t] => u \in T
        PROVE  t \in T
    <3>1. ASSUME ~(AndEnds(t)) PROVE AndFrom[AndNext(t)] \in Integer
      BY <1>5, <2>1, <3>1, AndGoesOn
    <3> HIDE DEF Base, b, next, g, m, Body
    <3> QED
      BY <1>2, <1>3, <1>10, <3>1
  <2> HIDE DEF T, m, Base, b, next, g, Body
  <2>2. \A t \in Ands : t \in T
    BY <1>1, <2>1, Induction
  <2> QED
    BY <2>2 DEF T
<1> HIDE DEF Base, b, next, g, m, Body
<1> QED
  BY <1>10, <1>11

\* bitwise_and, from any round on: every bit of the result is the product of
\* the bits of the operands.
LEMMA AndFromExact ==
  ASSUME NEW a \in Ands, a[1] \in Numeral, a[2] \in Numeral
  PROVE  /\ AndFrom[a] \in Numeral
         /\ \A i \in Nat : Bit(Value[AndFrom[a]], i) = Bit(Value[a[1]], i) * Bit(Value[a[2]], i)
<1> DEFINE m == [t \in Ands |-> Rank(t[1])]
           BitsOf(t) == \A i \in Nat : Bit(Value[AndFrom[t]], i) = Bit(Value[t[1]], i) * Bit(Value[t[2]], i)
           T == {t \in Ands : t[1] \in Numeral /\ t[2] \in Numeral => AndFrom[t] \in Numeral /\ BitsOf(t)}
<1>1. m \in [Ands -> Nat]
  BY AndGoesOn
<1>2. ASSUME NEW t \in Ands, \A w \in Ands : m[w] < m[t] => w \in T
      PROVE  t \in T
  <2> SUFFICES ASSUME t[1] \in Numeral, t[2] \in Numeral
               PROVE  AndFrom[t] \in Numeral /\ BitsOf(t)
    OBVIOUS
  <2>1. Value[t[1]] \in Int /\ Value[t[2]] \in Int
    BY HiNumeral
  <2>2. ASSUME NEW i \in Nat
        PROVE  /\ Bit(Value[t[1]], i) \in 0 .. 1 /\ Bit(Value[t[2]], i) \in 0 .. 1
               /\ Bit(0, i) = 0 /\ Bit(-1, i) = 1
    BY <2>1, BitOf, BitOfSigns
  <2>3. CASE t[1] = Zero
    <3>1. AndFrom[t] = Zero
      BY <2>3, AndFromIs DEF AndEnds, AndEnd
    <3>2. Value[Zero] = 0 /\ Zero \in Numeral
      BY ConstantNumerals
    <3>3. ASSUME NEW i \in Nat
          PROVE  Bit(Value[AndFrom[t]], i) = Bit(Value[t[1]], i) * Bit(Value[t[2]], i)
      <4>1. \A k \in 0 .. 1 : 0 * k = 0
        OBVIOUS
      <4> QED
        BY <2>2, <2>3, <3>1, <3>2, <4>1
    <3> QED
      BY <3>1, <3>2, <3>3
  <2>4. CASE t[1] = Neg1
    <3>1. AndFrom[t] = t[2]
      BY <2>4, AndFromIs, ConstantsAre DEF AndEnds, AndEnd
    <3>2. Value[Neg1] = -1
      BY ConstantNumerals
    <3>3. ASSUME NEW i \in Nat
          PROVE  Bit(Value[AndFrom[t]], i) = Bit(Value[t[1]], i) * Bit(Value[t[2]], i)
      <4>1. \A k \in 0 .. 1 : 1 * k = k
        OBVIOUS
      <4> QED
        BY <2>2, <2>4, <3>1, <3>2, <4>1
    <3> QED
      BY <3>1, <3>3
  <2>5. CASE ~AndEnds(t)
    <3> DEFINE u == AndNext(t)
               r == AndFrom[u]
               b == AndDigit(t)
               d == Lo(t[1])
               e == Lo(t[2])
    <3>1. AndFrom[t] = Attach(b, r)
      BY <2>5, AndFromIs
    <3>2. u \in Ands /\ u[1] = Hi(t[1]) /\ u[2] = Hi(t[2]) /\ m[u] < m[t] /\ b \in Digit
      BY <2>5, AndGoesOn
    <3>3. /\ Hi(t[1]) \in Numeral /\ d \in Digit /\ Value[Hi(t[1])] \in Int /\ Value[t[1]] = d + B * Value[Hi(t[1])]
          /\ Hi(t[2]) \in Numeral /\ e \in Digit /\ Value[Hi(t[2])] \in Int /\ Value[t[2]] = e + B * Value[Hi(t[2])]
      BY HiNumeral
    <3>4. r \in Numeral /\ BitsOf(u)
      <4>1. u \in T
        BY <1>2, <3>2
      <4> QED
        BY <3>2, <3>3, <4>1
    <3>5. AndFrom[t] \in Numeral /\ Value[AndFrom[t]] = b + B * Value[r] /\ Value[r] \in Int
      <4> HIDE DEF r, b, u
      <4>1. Value[r] \in Int
        BY <3>4, HiNumeral
      <4>2. Attach(b, r) \in Numeral /\ Value[Attach(b, r)] = b + B * Value[r]
        BY <3>2, <3>4, AttachNumeral
      <4> QED
        BY <3>1, <4>1, <4>2
    <3>6. ASSUME NEW i \in Nat
          PROVE  Bit(Value[AndFrom[t]], i) = Bit(Value[t[1]], i) * Bit(Value[t[2]], i)
      <4>1. CASE i < Width
        <5>1. Bit(Value[AndFrom[t]], i) = Bit(b, i)
          BY <3>2, <3>5, <4>1, BitLow
        <5>2. Bit(Value[t[1]], i) = Bit(d, i) /\ Bit(Value[t[2]], i) = Bit(e, i)
          BY <3>3, <4>1, BitLow
        <5>3. d \in Nat /\ e \in Nat /\ d \in Int /\ e \in Int /\ AndBit \in Tables
          BY <3>3 DEF Digit, Tables
        <5>4. Bit(b, i) = AndBit[<<Bit(d, i), Bit(e, i)>>]
          BY <5>3, BitByBitExact DEF AndDigit
        <5>5. Bit(d, i) \in 0 .. 1 /\ Bit(e, i) \in 0 .. 1
          BY <5>3, BitOf
        <5>6. AndBit[<<Bit(d, i), Bit(e, i)>>] = Bit(d, i) * Bit(e, i)
          BY <5>3, <5>5, TablesAre
        <5> QED
          BY <5>1, <5>2, <5>4, <5>6, Zenon
      <4>2. CASE i >= Width
        <5> DEFINE j == i - Width
        <5>1. j \in Nat /\ Bit(Value[AndFrom[t]], i) = Bit(Value[r], j)
          BY <3>2, <3>5, <4>2, BitHigh
        <5>2. Bit(Value[t[1]], i) = Bit(Value[Hi(t[1])], j) /\ Bit(Value[t[2]], i) = Bit(Value[Hi(t[2])], j)
          BY <3>3, <4>2, BitHigh
        <5>3. Bit(Value[r], j) = Bit(Value[u[1]], j) * Bit(Value[u[2]], j)
          BY <3>4, <5>1
        <5> QED
          BY <3>2, <5>1, <5>2, <5>3, Zenon
      <4> QED
        BY <4>1, <4>2, EvenBase
    <3> QED
      BY <3>5, <3>6
  <2> QED
    BY <2>3, <2>4, <2>5 DEF AndEnds
<1> HIDE DEF T, m
<1>3. \A t \in Ands : t \in T
  BY <1>1, <1>2, Induction
<1> QED
  BY <1>3 DEF T

\* bitwise_and returns the bits that both operands have.
COROLLARY BitwiseAndExact ==
  ASSUME NEW x \in Numeral, NEW y \in Numeral
  PROVE  /\ BitwiseAnd(x, y) \in Numeral
         /\ \A i \in Nat : Bit(Value[BitwiseAnd(x, y)], i) = Bit(Value[x], i) * Bit(Value[y], i)
<1>1. <<x, y>> \in Ands /\ <<x, y>>[1] = x /\ <<x, y>>[2] = y
  BY NumeralIs DEF Ands
<1> QED
  BY <1>1, AndFromExact DEF BitwiseAnd

-----------------------------------------------------------------------------
(* The primitives.                                                         *)

\* neg and abs of the library.
LEMMA NegativeExact ==
  ASSUME NEW x \in Numeral
  PROVE  /\ Negative(x) <=> Value[x] < 0
         /\ Neg(x) \in Numeral /\ Value[Neg(x)] = -Value[x]
         /\ Abs(x) \in Numeral /\ Value[Abs(x)] = IF Value[x] < 0 THEN -Value[x] ELSE Value[x]
<1>1. Value[x] \in Int /\ Zero \in Numeral /\ Value[Zero] = 0
  BY HiNumeral, ConstantNumerals
<1>2. Negative(x) <=> Value[x] < 0
  BY <1>1, CmpExact DEF Negative
<1>3. Neg(x) \in Numeral /\ Value[Neg(x)] = -Value[x]
  BY <1>1, SubExact DEF Neg
<1> QED
  BY <1>2, <1>3 DEF Abs

\* The sign of a product or quotient.
LEMMA SignedExact ==
  ASSUME NEW x \in Numeral, NEW y \in Numeral, NEW z \in Numeral
  PROVE  /\ Signed(x, y, z) \in Numeral
         /\ Value[Signed(x, y, z)] = IF (Value[x] < 0) # (Value[y] < 0) THEN -Value[z] ELSE Value[z]
<1>1. (Negative(x) # Negative(y)) <=> ((Value[x] < 0) # (Value[y] < 0))
  <2>1. (Negative(x) <=> Value[x] < 0) /\ (Negative(y) <=> Value[y] < 0)
    BY NegativeExact
  <2>2. Negative(x) \in BOOLEAN /\ Negative(y) \in BOOLEAN
    BY DEF Negative
  <2> QED
    BY <2>1, <2>2
<1>2. Neg(z) \in Numeral /\ Value[Neg(z)] = -Value[z]
  BY NegativeExact
<1> QED
  BY <1>1, <1>2 DEF Signed

\* #%mul of the library returns the product.
LEMMA MulExact ==
  ASSUME NEW x \in Numeral, NEW y \in Numeral
  PROVE  Mul(x, y) \in Numeral /\ Value[Mul(x, y)] = Value[x] * Value[y]
<1> DEFINE i == Value[x]
           j == Value[y]
           k == IF i < 0 THEN -i ELSE i
           l == IF j < 0 THEN -j ELSE j
           z == MulNonneg(Abs(x), Abs(y))
<1>1. i \in Int /\ j \in Int
  BY HiNumeral
<1>2. Abs(x) \in Numeral /\ Value[Abs(x)] = k /\ Abs(y) \in Numeral /\ Value[Abs(y)] = l /\ k >= 0
  BY <1>1, NegativeExact
<1>3. z \in Numeral /\ Value[z] = k * l
  BY <1>2, MulNonnegExact
<1>4. Mul(x, y) \in Numeral /\ Value[Mul(x, y)] = IF (i < 0) # (j < 0) THEN -(k * l) ELSE k * l
  <2>1. Mul(x, y) = Signed(x, y, z)
    BY DEF Mul
  <2> HIDE DEF z, k, l, i, j
  <2>2. Signed(x, y, z) \in Numeral /\ Value[Signed(x, y, z)] = IF (Value[x] < 0) # (Value[y] < 0) THEN -Value[z] ELSE Value[z]
    BY <1>3, SignedExact
  <2> QED
    BY <1>3, <2>1, <2>2 DEF i, j
<1> HIDE DEF i, j
<1>5. (IF (i < 0) # (j < 0) THEN -(k * l) ELSE k * l) = i * j
  <2>1. (-i) * j = -(i * j) /\ i * (-j) = -(i * j) /\ (-i) * (-j) = i * j /\ i * j \in Int
    BY <1>1
  <2> QED
    BY <1>1, <2>1
<1> QED
  BY <1>4, <1>5 DEF i, j

\* quotient of the library returns the quotient, rounded to 0.
LEMMA QuotientExact ==
  ASSUME NEW x \in Numeral, NEW y \in Numeral, Value[y] # 0
  PROVE  Quotient(x, y) \in Numeral /\ Value[Quotient(x, y)] = Truncated(Value[x], Value[y])
<1> DEFINE i == Value[x]
           j == Value[y]
           k == IF i < 0 THEN -i ELSE i
           l == IF j < 0 THEN -j ELSE j
           z == DivNonneg(Abs(x), Abs(y))
<1>1. i \in Int /\ j \in Int
  BY HiNumeral
<1>2. Abs(x) \in Numeral /\ Value[Abs(x)] = k /\ Abs(y) \in Numeral /\ Value[Abs(y)] = l /\ k >= 0 /\ l > 0
  BY <1>1, NegativeExact
<1>3. z \in Numeral /\ Value[z] = k \div l
  BY <1>2, DivNonnegExact
<1>4. Quotient(x, y) \in Numeral /\ Value[Quotient(x, y)] = IF (i < 0) # (j < 0) THEN -(k \div l) ELSE k \div l
  <2>1. Quotient(x, y) = Signed(x, y, z)
    BY DEF Quotient
  <2> HIDE DEF z, k, l, i, j
  <2>2. Signed(x, y, z) \in Numeral /\ Value[Signed(x, y, z)] = IF (Value[x] < 0) # (Value[y] < 0) THEN -Value[z] ELSE Value[z]
    BY <1>3, SignedExact
  <2> QED
    BY <1>3, <2>1, <2>2 DEF i, j
<1> QED
  BY <1>4 DEF Truncated

Exact ==
  /\ arg1 \in Numeral /\ arg2 \in Numeral
  /\ op = "none" => reg1 = arg1 /\ reg2 = arg2
  /\ SumsExact /\ OrderExact /\ ProductsExact /\ AndExact /\ NotExact

\* An integer in its shortest form is the result expected if its value is.
LEMMA ResultIs ==
  ASSUME NEW z \in Numeral, NEW n, Value[z] = n
  PROVE  z = Canonical[n]
  BY Unique

\* The positions that the runs look at.
LEMMA BitPositions == Positions \subseteq Nat
  BY DEF Positions

\* Nothing has been computed yet.
LEMMA InitExact == Init => Exact
  BY DEF Init, IntegersOf, Exact, SumsExact, OrderExact, ProductsExact, AndExact, NotExact

\* Each primitive leaves the integer that it should.
LEMMA StepExact ==
  ASSUME Exact, [Next]_vars
  PROVE  Exact'
<1> DEFINE x == arg1
           y == arg2
           i == Value[arg1]
           j == Value[arg2]
<1>1. x \in Numeral /\ y \in Numeral /\ i \in Int /\ j \in Int
  BY HiNumeral DEF Exact
<1>2. ASSUME op = "none"
      PROVE  reg1 = x /\ reg2 = y
  BY <1>2 DEF Exact
<1>3. CASE UNCHANGED vars
  BY <1>3 DEF Exact, SumsExact, OrderExact, ProductsExact, AndExact, NotExact, Result, vars
<1> USE DEF Primitive
<1>4. CASE Equal
  <2>1. reg1' = Bool(i = j) /\ op' = "=" /\ UNCHANGED <<arg1, arg2>>
    BY <1>1, <1>2, <1>4, CmpExact DEF Equal
  <2> QED
    BY <1>1, <2>1 DEF Exact, SumsExact, OrderExact, ProductsExact, AndExact, NotExact
<1>5. CASE Less
  <2>1. reg1' = Bool(i < j) /\ op' = "<" /\ UNCHANGED <<arg1, arg2>>
    BY <1>1, <1>2, <1>5, CmpExact DEF Less
  <2> QED
    BY <1>1, <2>1 DEF Exact, SumsExact, OrderExact, ProductsExact, AndExact, NotExact
<1>6. CASE Greater
  <2>1. reg1' = Bool(i > j) /\ op' = ">" /\ UNCHANGED <<arg1, arg2>>
    BY <1>1, <1>2, <1>6, CmpExact DEF Greater
  <2> QED
    BY <1>1, <2>1 DEF Exact, SumsExact, OrderExact, ProductsExact, AndExact, NotExact
<1>7. CASE Plus
  <2>1. reg1' = Canonical[i + j] /\ op' = "+" /\ UNCHANGED <<arg1, arg2>>
    BY <1>1, <1>2, <1>7, AddExact, ResultIs DEF Plus
  <2> QED
    BY <1>1, <2>1 DEF Exact, SumsExact, OrderExact, ProductsExact, AndExact, NotExact, Result
<1>8. CASE Minus
  <2>1. reg1' = Canonical[i - j] /\ op' = "-" /\ UNCHANGED <<arg1, arg2>>
    BY <1>1, <1>2, <1>8, SubExact, ResultIs DEF Minus
  <2> QED
    BY <1>1, <2>1 DEF Exact, SumsExact, OrderExact, ProductsExact, AndExact, NotExact, Result
<1>9. CASE Times
  <2>1. reg1' = Canonical[i * j] /\ op' = "*" /\ UNCHANGED <<arg1, arg2>>
    BY <1>1, <1>2, <1>9, MulExact, ResultIs DEF Times
  <2> QED
    BY <1>1, <2>1 DEF Exact, SumsExact, OrderExact, ProductsExact, AndExact, NotExact, Result
<1>10. CASE Divide
  <2>1. op' = "quotient" /\ UNCHANGED <<arg1, arg2>> /\ reg1' = Quotient(x, y)
    BY <1>2, <1>10 DEF Divide
  <2>2. y # Zero => reg1' = Canonical[Truncated(i, j)]
    <3>1. y # Zero => j # 0
      BY <1>1, SameValue, ConstantNumerals
    <3> QED
      BY <1>1, <2>1, <3>1, QuotientExact, ResultIs
  <2> QED
    BY <1>1, <2>1, <2>2 DEF Exact, SumsExact, OrderExact, ProductsExact, AndExact, NotExact, Result
<1>11. CASE RemNonNeg
  <2> DEFINE q == DivNonneg(x, y)
             z == MulNonneg(y, q)
  <2>1. /\ op' = "remainder" /\ UNCHANGED <<arg1, arg2>> /\ reg1' = Sub(x, z)
        /\ ~Negp[x] /\ ~Negp[y]
    BY <1>2, <1>11 DEF RemNonNeg
  <2>2. ASSUME y # Zero PROVE reg1' = Canonical[i % j]
    <3>1. i >= 0 /\ j > 0
      <4>1. j # 0
        BY <1>1, <2>2, SameValue, ConstantNumerals
      <4>2. ~(i < 0) /\ ~(j < 0)
        BY <1>1, <2>1, NegpExact
      <4> QED
        BY <1>1, <4>1, <4>2
    <3>2. q \in Numeral /\ Value[q] = i \div j
      BY <1>1, <3>1, DivNonnegExact
    <3>3. z \in Numeral /\ Value[z] = j * (i \div j)
      BY <1>1, <3>1, <3>2, MulNonnegExact
    <3>4. Sub(x, z) \in Numeral /\ Value[Sub(x, z)] = i - j * (i \div j)
      BY <1>1, <3>3, SubExact
    <3>5. i - j * (i \div j) = i % j
      <4> HIDE DEF i, j
      <4>1. i = j * (i \div j) + (i % j) /\ i \div j \in Int /\ i % j \in Int
        BY <1>1, <3>1
      <4>2. j * (i \div j) \in Int
        BY <1>1, <4>1
      <4> QED
        BY <1>1, <4>1, <4>2
    <3> QED
      BY <2>1, <3>4, <3>5, ResultIs
  <2> QED
    BY <1>1, <2>1, <2>2 DEF Exact, SumsExact, OrderExact, ProductsExact, AndExact, NotExact, Result
<1>12. CASE NotBits
  <2>1. reg1' = Canonical[-i - 1] /\ op' = "not" /\ UNCHANGED <<arg1, arg2>>
    BY <1>1, <1>2, <1>12, NotFromExact, ResultIs DEF NotBits, BitwiseNot
  <2> QED
    BY <1>1, <2>1 DEF Exact, SumsExact, OrderExact, ProductsExact, AndExact, NotExact, Result
<1>13. CASE AndBits
  <2>1. reg1' = BitwiseAnd(x, y) /\ op' = "and" /\ UNCHANGED <<arg1, arg2>>
    BY <1>2, <1>13 DEF AndBits
  <2>2. \A k \in Nat : Bit(Value[reg1'], k) = Bit(i, k) * Bit(j, k)
    BY <1>1, <2>1, BitwiseAndExact
  <2>3. AndExact'
    BY <2>1, <2>2, BitPositions DEF AndExact
  <2> QED
    BY <1>1, <2>1, <2>3 DEF Exact, SumsExact, OrderExact, ProductsExact, NotExact
<1>14. CASE IorBits \/ XorBits
  <2>1. op' \in {"ior", "xor"} /\ UNCHANGED <<arg1, arg2>>
    BY <1>14 DEF IorBits, XorBits
  <2> QED
    BY <1>1, <2>1 DEF Exact, SumsExact, OrderExact, ProductsExact, AndExact, NotExact
<1> QED
  BY <1>3, <1>4, <1>5, <1>6, <1>7, <1>8, <1>9, <1>10, <1>11, <1>12, <1>13, <1>14 DEF Next

\* The registers always agree with the integers that their digits stand for.
THEOREM IntegersExact == Spec => []Exact
<1>1. Init => Exact
  BY InitExact
<1>2. Exact /\ [Next]_vars => Exact'
  BY StepExact
<1> QED
  BY <1>1, <1>2, PTL DEF Spec

\* add and sub: sums and differences are exact, for every width of a digit and
\* integers of every length.
THEOREM SumsAreExact == Spec => []SumsExact
<1>1. Exact => SumsExact
  BY DEF Exact
<1> QED
  BY <1>1, IntegersExact, PTL

\* cmp: =, < and > are those of the integers.
THEOREM OrderIsExact == Spec => []OrderExact
<1>1. Exact => OrderExact
  BY DEF Exact
<1> QED
  BY <1>1, IntegersExact, PTL

\* mulnonneg, divnonneg and what the primitives and the library make of them:
\* products, quotients and remainders are exact.
THEOREM ProductsAreExact == Spec => []ProductsExact
<1>1. Exact => ProductsExact
  BY DEF Exact
<1> QED
  BY <1>1, IntegersExact, PTL

\* bitwise_and: each bit of the result is the product of those of the operands.
THEOREM AndIsExact == Spec => []AndExact
<1>1. Exact => AndExact
  BY DEF Exact
<1> QED
  BY <1>1, IntegersExact, PTL

\* bitwise_not: the complement.
THEOREM NotIsExact == Spec => []NotExact
<1>1. Exact => NotExact
  BY DEF Exact
<1> QED
  BY <1>1, IntegersExact, PTL

=============================================================================
