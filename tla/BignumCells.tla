----------------------------- MODULE BignumCells -----------------------------
(***************************************************************************)
(* The integers of module Bignum in the cells of the heap: bignum.c as it  *)
(* allocates, with a collection whenever the free list is empty.  A result *)
(* on its way is known to the collector by bignum_tmp1..5 only, and norm   *)
(* writes into cells that nothing else may share.                          *)
(*                                                                         *)
(* A reference is a number: NIL, a small integer, or a cell.  A memory m   *)
(* has the digits and the high parts of the cells, the free ones (sweep    *)
(* leaves them on the free list lowest first, and they are taken off it in *)
(* that order), the registers, and in val what the last function returned, *)
(* which is in a variable of C where the collector does not see it.        *)
(***************************************************************************)
EXTENDS Bignum, SequencesExt

CONSTANTS
  CellDigits,  \* how many digits the integers in cells have at most
  Spare,       \* how many other cells there can be
  Unused       \* how many of those can be on the free list

ASSUME CellAssumption == CellDigits \in 0 .. MaxDigits /\ Spare \subseteq Nat /\ Unused \subseteq Nat

VARIABLES
  cells,  \* whether the operands are in cells
  mem

cellvars == <<vars, cells, mem>>

-----------------------------------------------------------------------------
(* The memory.                                                             *)

NIL == -2
IsCell(p) == p > MaxSmall
CellNo(k) == MaxSmall + k

\* The two variables of a program that may hold the operands too are in env.
Registers == {"reg1", "reg2", "reg3", "reg4", "env1", "env2"} \cup
             {"tmp1", "tmp2", "tmp3", "tmp4", "tmp5"}

\* Mutant: one of them is forgotten.
MarkedButOne == Registers \ {"tmp5"}

\* Those that are marked, by mm_gc and bignum_gc_mark.
Marked == Registers

\* What a cell of the free list has in the place of its digit.
Link == B

\* integer_lo, integer_hi.
LoAt(m, x) == IF IsCell(x) THEN m.lo[x] ELSE x % B
HiAt(m, x) == IF IsCell(x) THEN m.hi[x] ELSE IF x = -1 THEN -1 ELSE 0

RECURSIVE Chain(_, _, _)
Chain(m, p, seen) == IF ~IsCell(p) \/ p \in seen THEN seen ELSE Chain(m, m.hi[p], seen \cup {p})

\* mm_gc with bignum_gc_mark.
Collected(m) ==
  LET kept == FoldSet(LAMBDA r, seen : Chain(m, m.r[r], seen), {}, Marked)
      swept == DOMAIN m.lo \ kept
  IN  [m EXCEPT !.free = swept,
                !.lo = [p \in DOMAIN @ |-> IF p \in swept THEN Link ELSE @[p]]]

Set(m, r, p) == [m EXCEPT !.r[r] = p]
Returns(m, p) == [m EXCEPT !.val = p]

\* "clear the root then return"
Takes(m, r) == Set(Returns(m, m.r[r]), r, NIL)

\* bignum_tmp = f(...)
Keeps(m, r) == Set(m, r, m.val)

\* What comes next, unless the machine has stopped for want of memory.
Then(m, F(_)) == IF m.exhausted THEN m ELSE F(m)

Taken(m, d, high) ==
  LET p == Min(m.free)
  IN  IF m.free = {} THEN [m EXCEPT !.exhausted = TRUE]
      ELSE [m EXCEPT !.lo[p] = d, !.hi[p] = high, !.free = @ \ {p}, !.val = p]

\* new_bignum
NewBignum(m, d, high) == Taken(IF m.free = {} THEN Collected(m) ELSE m, d, high)

\* The integer at x, when it is one.
RECURSIVE Decoded(_, _)
Decoded(m, x) == IF IsCell(x) THEN <<m.lo[x]>> \o Decoded(m, m.hi[x]) ELSE <<x>>

-----------------------------------------------------------------------------
(* bignum.c                                                                *)

RECURSIVE Norm(_, _, _)
Norm(m, prefix, n) ==
  LET d == m.lo[prefix]
      rest == m.hi[prefix]
  IN  IF prefix = NIL THEN Returns(m, n)
      ELSE IF n = 0 /\ d <= MaxSmall THEN Norm(m, rest, d)
      ELSE IF n = -1 /\ d >= B - 1 THEN Norm(m, rest, d - B)
      ELSE Norm([m EXCEPT !.hi[prefix] = n], rest, prefix)

\* The loops collect digits in bignum_tmp1 and end with norm.
Push(m, d) == Keeps(NewBignum(m, d, m.r["tmp1"]), "tmp1")
Ends(m, n) == Set(Norm(m, m.r["tmp1"], n), "tmp1", NIL)

Empty(m) == Set(m, "tmp1", NIL)

RECURSIVE ShrLoop(_, _)
ShrLoop(m, x) ==
  IF m.exhausted THEN m
  ELSE IF x \in {0, -1} THEN Ends(m, x)
  ELSE ShrLoop(Push(m, ShrDigit(LoAt(m, x), LoAt(m, HiAt(m, x)))), HiAt(m, x))

\* Mutant: the digits are shifted where they are.
RECURSIVE ShrInPlace(_, _)
ShrInPlace(m, x) ==
  IF ~IsCell(x) THEN Returns(m, x \div 2)
  ELSE LET low == [m EXCEPT !.lo[x] = ShrDigit(LoAt(m, x), LoAt(m, HiAt(m, x)))]
           all == ShrInPlace(low, m.hi[x])
       IN  Returns([all EXCEPT !.hi[x] = all.val], x)

ShrCells(m, x) == ShrLoop(Empty(m), x)

RECURSIVE ShlLoop(_, _, _)
ShlLoop(m, x, negc) ==
  IF m.exhausted THEN m
  ELSE IF x = negc THEN Ends(m, x)
  ELSE ShlLoop(Push(m, ShlDigit(LoAt(m, x), negc)), HiAt(m, x), NegativeCarry(TopBit(LoAt(m, x))))

ShlCells(m, x) == ShlLoop(Empty(m), x, 0)

RECURSIVE ShiftLoop(_, _)
ShiftLoop(m, n) ==
  IF m.exhausted THEN m
  ELSE IF n = 0 THEN Takes(m, "tmp2")
  ELSE IF n % Width # 0 THEN ShiftLoop(Keeps(ShlCells(m, m.r["tmp2"]), "tmp2"), n - 1)
  ELSE ShiftLoop(Keeps(NewBignum(m, 0, m.r["tmp2"]), "tmp2"), n - Width)

ShiftLeftCells(m, x, n) == IF x = 0 THEN Returns(m, x) ELSE ShiftLoop(Set(m, "tmp2", x), n)

\* What is left of a carry, above the last digit.
ScaleRest(m, digit, high) == Then(NewBignum(m, digit, high), LAMBDA a : Ends(a, a.val))

RECURSIVE ScaleLoop(_, _, _, _)
ScaleLoop(m, n, x, carry) ==
  LET s == ScaleDigit(LoAt(m, x), n, carry)
      d == ScaleSign(n, carry)
  IN  IF m.exhausted THEN m
      ELSE IF x = 0 THEN IF carry <= MaxSmall THEN Ends(m, carry) ELSE ScaleRest(m, carry, 0)
      ELSE IF x = -1 THEN IF d >= B - 1 THEN Ends(m, -1) ELSE ScaleRest(m, d, -1)
      ELSE ScaleLoop(Push(m, s.digit), n, HiAt(m, x), s.carry)

ScaleCells(m, n, x) ==
  IF n = 0 \/ x = 0 THEN Returns(m, 0)
  ELSE IF n = 1 THEN Returns(m, x)
  ELSE ScaleLoop(Empty(m), n, x, 0)

RECURSIVE AddLoop(_, _, _, _)
AddLoop(m, x, y, negc) ==
  LET s == AddDigit(LoAt(m, x), LoAt(m, y), negc)
  IN  IF m.exhausted THEN m
      ELSE IF x = negc THEN Ends(m, y)
      ELSE IF y = negc THEN Ends(m, x)
      ELSE AddLoop(Push(m, s.digit), HiAt(m, x), HiAt(m, y), s.negc)

AddCells(m, x, y) == AddLoop(Empty(m), x, y, 0)

Inverted(x) == IF x = 0 THEN -1 ELSE 0

RECURSIVE SubLoop(_, _, _, _)
SubLoop(m, x, y, negc) ==
  LET s == AddDigit(LoAt(m, x), Complement(LoAt(m, y)), negc)
  IN  IF m.exhausted THEN m
      ELSE IF x = negc /\ y \in {0, -1} THEN Ends(m, Inverted(y))
      ELSE IF y = Inverted(negc) THEN Ends(m, x)
      ELSE SubLoop(Push(m, s.digit), HiAt(m, x), HiAt(m, y), s.negc)

SubCells(m, x, y) == SubLoop(Empty(m), x, y, -1)

\* bignum_tmp4 is increased by n * y.
AddScaled(m, n, y) ==
  Then(Keeps(ScaleCells(m, n, y), "tmp2"),
       LAMBDA s : Keeps(AddCells(s, s.r["tmp4"], s.r["tmp2"]), "tmp4"))

RECURSIVE MulLoop(_, _, _)
MulLoop(m, x, y) ==
  Then(Keeps(Then(m, LAMBDA a : NewBignum(a, LoAt(a, a.r["tmp4"]), a.r["tmp3"])), "tmp3"), LAMBDA a :
    LET b    == Set(a, "tmp4", HiAt(a, a.r["tmp4"]))
        high == HiAt(b, x)
    IN  IF high = 0 THEN Norm(FoldSet(LAMBDA r, c : Set(c, r, NIL), b, {"tmp2", "tmp3", "tmp4"}),
                              b.r["tmp3"], b.r["tmp4"])
        ELSE MulLoop(AddScaled(b, LoAt(b, high), y), high, y))

MulCells(m, x, y) ==
  MulLoop(Keeps(ScaleCells(Set(m, "tmp3", NIL), LoAt(m, x), y), "tmp4"), x, y)

\* A round of divnonneg: bignum_tmp3 is doubled, bignum_tmp5 halved.
Subtracted(m) ==
  Then(Keeps(SubCells(m, m.r["tmp4"], m.r["tmp5"]), "tmp4"),
       LAMBDA rest : Keeps(AddCells(rest, 1, rest.r["tmp3"]), "tmp3"))

DivRound(m) ==
  Then(Then(Keeps(ShlCells(m, m.r["tmp3"]), "tmp3"),
            LAMBDA a : IF Cmp(Decoded(a, a.r["tmp4"]), Decoded(a, a.r["tmp5"])) >= 1
                       THEN Subtracted(a) ELSE a),
       LAMBDA b : Keeps(ShrCells(b, b.r["tmp5"]), "tmp5"))

DivCells(m, x, y) ==
  LET n     == IntegerLength[Decoded(m, x)] - IntegerLength[Decoded(m, y)]
      start == Set(Set(Set(m, "tmp4", x), "tmp5", y), "tmp3", 0)
  IN  Set(Takes(IF n < 0 THEN start
                ELSE FoldFunction(LAMBDA i, a : Then(a, DivRound),
                                  Keeps(ShiftLeftCells(start, y, n), "tmp5"), [i \in 0 .. n |-> i]),
                "tmp3"),
          "tmp4", NIL)

\* rem_non_neg
RemCells(m, x, y) ==
  Then(Then(Keeps(DivCells(m, x, y), "reg3"),
            LAMBDA q : Keeps(MulCells(q, y, q.r["reg3"]), "reg4")),
       LAMBDA p : Set(Set(SubCells(p, x, p.r["reg4"]), "reg3", NIL), "reg4", NIL))

\* bitwise_and, bitwise_ior, bitwise_xor, bitwise_not: the digits that are
\* computed, and what is above them once the end of x is reached.
BitsDigit(name, c, d) ==
  CASE name = "and" -> BitByBit[<<AndBit, c, d>>]
    [] name = "ior" -> BitByBit[<<IorBit, c, d>>]
    [] name = "xor" -> BitByBit[<<XorBit, c, d>>]
    [] name = "not" -> Complement(c)

BitsRest(name, x, y) ==
  CASE name = "and" -> IF x = 0 THEN 0 ELSE y
    [] name = "ior" -> x
    [] name = "xor" -> IF x = 0 THEN y ELSE x
    [] name = "not" -> Inverted(x)

RECURSIVE BitsLoop(_, _, _, _)
BitsLoop(m, name, x, y) ==
  IF m.exhausted THEN m
  ELSE IF x \in {0, -1} THEN Ends(m, BitsRest(name, x, y))
  ELSE BitsLoop(Push(m, BitsDigit(name, LoAt(m, x), LoAt(m, y))), name, HiAt(m, x), HiAt(m, y))

BitsCells(m, name, x, y) == BitsLoop(Empty(m), name, x, y)

-----------------------------------------------------------------------------
(* The primitives, on the values of module Bignum and in the cells.        *)

\* The digits in the cells from number k on, above them the integer rest.
Stored(m, digits, rest, k) ==
  LET cell(i) == CellNo(k + i - 1)
      here    == {cell(i) : i \in DOMAIN digits}
      at(p)   == p - cell(0)
  IN  IF digits = << >> THEN Returns(m, rest)
      ELSE Returns([m EXCEPT !.lo = [p \in DOMAIN @ |-> IF p \in here THEN digits[at(p)] ELSE @[p]],
                             !.hi = [p \in DOMAIN @ |-> IF p \notin here THEN @[p]
                                                        ELSE IF at(p) < Len(digits) THEN p + 1 ELSE rest]],
                   cell(1))

\* Two integers may have their high parts in common.
Above(x, n) == SubSeq(x, Len(x) - n + 1, Len(x))
Common(x, y) == {n \in 2 .. Len(x) : n <= Len(y) /\ Above(x, n) = Above(y, n)}

\* x and y in cells, then the spare ones: some are free, the others garbage.
Memory(x, y, shared, spare, unused) ==
  LET used  == Len(x) + Len(y) - 2
      heap  == {CellNo(k) : k \in 1 .. used + spare}
      blank == [lo |-> [p \in heap |-> Link], hi |-> [p \in heap |-> 0],
                free |-> {CellNo(used + i) : i \in 1 .. unused},
                r |-> [r \in Registers |-> NIL], exhausted |-> FALSE, val |-> NIL]
      n     == IF shared THEN Max(Common(x, y)) ELSE 1
      mx    == Stored(blank, Front(x), Last(x), 1)
      my    == Stored(mx, SubSeq(y, 1, Len(y) - n),
                      IF shared THEN CellNo(Len(x) - n + 1) ELSE Last(y), Len(x))
  IN  [my EXCEPT !.r = [@ EXCEPT !["reg1"] = mx.val, !["env1"] = mx.val,
                                 !["reg2"] = my.val, !["env2"] = my.val]]

CInit ==
  /\ Init
  /\ \/ cells = FALSE /\ mem = << >>
     \/ /\ cells = TRUE
        /\ arg1 \in IntegersOf(CellDigits) /\ arg2 \in IntegersOf(CellDigits)
        /\ \E shared \in {FALSE} \cup {Common(arg1, arg2) # {}}, spare \in Spare, unused \in Unused :
             unused <= spare /\ mem = Memory(arg1, arg2, shared, spare, unused)

\* What the primitives do in the cells; NotBits has one operand.
InCells(m, name, x, y) ==
  CASE name = "+"         -> AddCells(m, x, y)
    [] name = "-"         -> SubCells(m, x, y)
    [] name = "*"         -> MulCells(m, x, y)
    [] name = "quotient"  -> DivCells(m, x, y)
    [] name = "remainder" -> RemCells(m, x, y)
    [] OTHER              -> BitsCells(m, name, x, y)

CNext ==
  /\ Next
  /\ UNCHANGED cells
  /\ IF ~cells THEN UNCHANGED mem
     ELSE /\ op' \notin {"=", "<", ">"}
          /\ op' \in {"*", "quotient"} => ~Negp[arg1] /\ ~Negp[arg2]
          /\ op' \in {"quotient", "remainder"} => arg2 # Zero
          /\ \E m \in {Keeps(InCells(mem, op', mem.r["reg1"], mem.r["reg2"]), "reg1")} :
               mem' = IF op' = "not" THEN m ELSE Set(m, "reg2", NIL)

CSpec == CInit /\ [][CNext]_cellvars

(***************************************************************************)
(* Wherever a collection falls in a primitive, and whatever the operands   *)
(* share, the cells end up with the integer that the algorithm computes:   *)
(* every intermediate result is in a register of the collector when it     *)
(* matters (the usage map of bignum.c:21-31), or memory is exhausted.      *)
(***************************************************************************)
CellsAsValues ==
  cells /\ op # "none" /\ ~mem.exhausted => Decoded(mem, mem.r["reg1"]) = reg1

(***************************************************************************)
(* The operands are still what they were, for whoever else holds them:     *)
(* norm writes into cells that the result may share with nothing.          *)
(***************************************************************************)
OperandsKept ==
  cells /\ ~mem.exhausted => /\ Decoded(mem, mem.r["env1"]) = arg1
                             /\ Decoded(mem, mem.r["env2"]) = arg2

=============================================================================
