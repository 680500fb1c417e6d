----------------------------- MODULE Constants -----------------------------
(***************************************************************************)
(* The constants of a program: how the assembler collects them, orders     *)
(* them and lays them out in ROM (src/compiler/assembler.rkt).             *)
(*                                                                         *)
(* A datum is a tuple, its kind first: an integer, a character, a pair, a  *)
(* symbol, a string, a vector or a u8vector of others, or one of the three *)
(* below.  A descriptor is a datum and how often the code refers to it.    *)
(***************************************************************************)
EXTENDS Instructions, FiniteSets, SequencesExt

False == <<"#f">>
True  == <<"#t">>
Null  == <<"()">>
Integer(n) == <<"integer", n>>
Pair(a, d) == <<"pair", a, d>>

Kind(d) == d[1]

ListOf(s) == FoldRight(Pair, s, Null)
IntList(s) == ListOf([k \in DOMAIN s |-> Integer(s[k])])

-----------------------------------------------------------------------------
(* The assembler.                                                          *)

\* encode-direct, of the data that it can encode.
IsDirect(o) ==
  o \in {False, True, Null} \/ (Kind(o) = "integer" /\ o[2] \in -1 .. 255)

EncodeDirect(o) == IF Kind(o) = "integer" THEN o[2] + 4
                   ELSE IF o = False THEN 0 ELSE IF o = True THEN 1 ELSE 2

\* translate-constant
Translated(d) == IF Kind(d) = "character" THEN Integer(d[2]) ELSE d

\* Mutant: the high part of an integer is rounded towards 0.
PartsTruncated(o) ==
  CASE Kind(o) = "integer"  -> <<Integer(IF o[2] < 0 THEN -((-o[2]) \div 65536) ELSE o[2] \div 65536)>>
    [] Kind(o) = "pair"     -> <<o[2], o[3]>>
    [] Kind(o) = "vector"   -> <<ListOf(o[2])>>
    [] Kind(o) \in {"string", "u8vector"} -> <<IntList(o[2])>>
    [] OTHER                -> << >>

\* The constants that the cell of o leads to.
Parts(o) ==
  CASE Kind(o) = "integer"  -> <<Integer(o[2] \div 65536)>>
    [] Kind(o) = "pair"     -> <<o[2], o[3]>>
    [] Kind(o) = "vector"   -> <<ListOf(o[2])>>
    [] Kind(o) \in {"string", "u8vector"} -> <<IntList(o[2])>>
    [] OTHER                -> << >>

(***************************************************************************)
(* add-constant, one object at a time: pending are the data still to be    *)
(* looked at, the parts of a constant before what follows it, and whether  *)
(* it is the code that refers to them; other references do not count.      *)
(***************************************************************************)
Added(pool, datum, fromCode) ==
  LET o   == Translated(datum)
      one == IF fromCode THEN 1 ELSE 0
  IN  IF IsDirect(o) THEN pool
      ELSE IF \E k \in DOMAIN pool : pool[k].obj = o
           THEN [k \in DOMAIN pool |->
                   [pool[k] EXCEPT !.count = @ + (IF pool[k].obj = o THEN one ELSE 0)]]
           ELSE Append(pool, [obj |-> o, count |-> one])

Pending(pending, pool) ==
  LET o     == Translated(Head(pending).datum)
      parts == IF IsDirect(o) \/ \E k \in DOMAIN pool : pool[k].obj = o THEN << >> ELSE Parts(o)
  IN  [k \in DOMAIN parts |-> [datum |-> parts[k], fromCode |-> FALSE]] \o Tail(pending)

\* sort-constants, and sort-globals: the most often referred to first.
SortConstants(pool) ==
  LET before(j, k) == pool[j].count > pool[k].count \/ (pool[j].count = pool[k].count /\ j < k)
      rank == [k \in DOMAIN pool |-> 1 + Cardinality({j \in DOMAIN pool : before(j, k)})]
  IN  [n \in DOMAIN pool |-> pool[CHOOSE k \in DOMAIN pool : rank[k] = n]]

\* add-global, with descriptors that are those of constants.
Counted(pool, x) ==
  IF \E k \in DOMAIN pool : pool[k].obj = x
  THEN [k \in DOMAIN pool |-> [pool[k] EXCEPT !.count = @ + (IF pool[k].obj = x THEN 1 ELSE 0)]]
  ELSE Append(pool, [obj |-> x, count |-> 1])

\* The number that sort-globals gives to x.
IndexOf(pool, x) == (CHOOSE k \in DOMAIN pool : pool[k].obj = x) - 1

\* encode-constant, with the descriptors in their order.
EncodeConstant(d, constants) ==
  LET o == Translated(d)
  IN  IF IsDirect(o) THEN EncodeDirect(o)
      ELSE FirstRom + (CHOOSE k \in DOMAIN constants : constants[k].obj = o) - 1

\* assemble-constant: two 16 bit fields, then the type and the bits of the collector.
AssembleConstant(o, constants) ==
  LET rom(d) == ToRomIndex(EncodeConstant(d, constants))
      Word(cdr, car, bits) == [cdr |-> cdr, car |-> car, bits |-> bits]
      part == Parts(o)[1]
  IN  CASE Kind(o) = "integer"  -> Word(o[2] % 65536, rom(part), 20)
        [] Kind(o) = "pair"     -> Word(rom(o[3]), rom(o[2]), 0)
        [] Kind(o) = "symbol"   -> Word(65535, 65535, 52)
        [] Kind(o) = "string"   -> Word(65535, rom(part), 24)
        [] Kind(o) = "vector"   -> Word(rom(part[3]), rom(part[2]), 0)
        [] Kind(o) = "u8vector" -> Word(rom(part), Len(o[2]), 48)

=============================================================================
