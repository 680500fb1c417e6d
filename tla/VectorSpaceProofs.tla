------------------------- MODULE VectorSpaceProofs -------------------------
(***************************************************************************)
(* What holds of the vector space for vectors of any lengths, in a space   *)
(* of any size, whether or not they fit: as long as the compaction does    *)
(* none of three things (Harm), every vector keeps its block and its bytes *)
(* and the compaction gives back all that is free.                         *)
(***************************************************************************)
EXTENDS VectorSpace, Integers, TLAPS, NaturalsInduction, WellFoundedInduction

HeldHeaders == {start[v]-1 : v \in held}

\* mm.c:340: the block moves by less than its size, onto a part of itself,
\* where memcpy is undefined and VECTOR_SET_FREE then writes into its data.
MovesOntoItself == AtBlock /\ PrevIsFree /\ Used(vector_heap, cur) /\ prev + CurSize > cur

\* mm.c:322: a smaller block has moved into a gap, and what follows it there,
\* where prev is now, is a cell of old data that says "in use".
TakesDataForHeader == AtBlock /\ prev # Nothing /\ ~PrevIsFree /\ prev \notin HeldHeaders

\* mm.c:356: the last block has not moved, and the free part begins at it.
DropsLastBlock == pc = "compact" /\ ~AtBlock /\ prev \in HeldHeaders

Harm == MovesOntoItself \/ TakesDataForHeader \/ DropsLastBlock

\* No step is taken from such a state: all that a program has done until then.
UntilHarm == [][~Harm]_vars

-----------------------------------------------------------------------------
(***************************************************************************)
(* Arithmetic.                                                             *)
(***************************************************************************)
Less == {p \in Nat \X Nat : p[1] < p[2]}

LEMMA Smallest ==
  ASSUME NEW S \in SUBSET Nat, S # {}
  PROVE  \E m \in S : \A k \in S : m <= k
<1>1. IsWellFoundedOn(Less, Nat)
  BY NatLessThanWellFounded DEF OpToRel, Less
<1>2. PICK m \in S : \A k \in S : ~(<<k, m>> \in Less)
  BY <1>1, WFMin
<1>3. ASSUME NEW k \in S PROVE m <= k
  <2>1. m \in Nat /\ k \in Nat /\ ~(k < m)
    BY <1>2 DEF Less
  <2> QED
    BY <2>1
<1> QED
  BY <1>3

LEMMA TimesMonotonic ==
  ASSUME NEW a \in Nat, NEW b \in Nat, NEW d \in Nat, a <= b
  PROVE  a * d <= b * d
<1>1. b = a + (b - a) /\ b - a \in Nat
  OBVIOUS
<1>2. b * d = a * d + (b - a) * d
  BY <1>1
<1>3. (b - a) * d \in Nat
  BY <1>1
<1> QED
  BY <1>2, <1>3

LEMMA ModIs ==
  ASSUME NEW a \in Nat, NEW d \in Nat \ {0}
  PROVE  a = (d * (a \div d)) + (a % d) /\ a \div d \in Nat /\ a % d \in 0 .. d-1
<1>1. a = (d * (a \div d)) + (a % d)
  OBVIOUS
<1>2. a % d \in 0 .. d-1
  OBVIOUS
<1>3. a \div d \in Int
  <2>1. a \in Int /\ d > 0 /\ d \in Int
    OBVIOUS
  <2> QED
    BY <2>1, SMT
<1>4. a \div d \in Nat
  <2> SUFFICES ASSUME a \div d < 0 PROVE FALSE
    BY <1>3
  <2>1. PICK n \in Nat \ {0} : a \div d = 0 - n
    <3>1. 0 - (a \div d) \in Nat \ {0} /\ a \div d = 0 - (0 - (a \div d))
      BY <1>3
    <3> QED
      BY <3>1
  <2>2. d * n >= d
    <3>1. 1 * d <= n * d
      BY TimesMonotonic
    <3> QED
      BY <3>1
  <2>3. d * (0 - n) = 0 - d * n /\ d * n \in Nat
    OBVIOUS
  <2> QED
    BY <1>1, <1>2, <2>1, <2>2, <2>3
<1> QED
  BY <1>1, <1>2, <1>4

LEMMA ModUnique ==
  ASSUME NEW d \in Nat \ {0}, NEW q \in Nat, NEW r \in Nat, NEW x \in 0 .. d-1, NEW y \in 0 .. d-1,
         d * q + x <= d * r + y, d * r + y < d * q + x + d
  PROVE  x <= y => q = r
<1>1. ASSUME r < q, x <= y PROVE FALSE
  <2>1. (r + 1) * d <= q * d
    BY <1>1, TimesMonotonic
  <2>2. d * r + d <= d * q /\ d * r \in Nat /\ d * q \in Nat
    BY <2>1
  <2> QED
    BY <2>2
<1>2. ASSUME q < r, x <= y PROVE FALSE
  <2>1. (q + 1) * d <= r * d
    BY <1>2, TimesMonotonic
  <2>2. d * q + d <= d * r /\ d * r \in Nat /\ d * q \in Nat
    BY <2>1
  <2> QED
    BY <1>2, <2>2
<1> QED
  BY <1>1, <1>2

\* Two numbers less than d apart differ modulo d.
LEMMA SameMod ==
  ASSUME NEW d \in Nat \ {0}, NEW a \in Nat, NEW b \in Nat, a <= b, b < a + d, a % d = b % d
  PROVE  a = b
<1>1. PICK q \in Nat, r \in Nat, x \in 0 .. d-1 : a = d * q + x /\ b = d * r + x
  <2>1. a = (d * (a \div d)) + (a % d) /\ a \div d \in Nat /\ a % d \in 0 .. d-1
    BY ModIs
  <2>2. b = (d * (b \div d)) + (b % d) /\ b \div d \in Nat
    BY ModIs
  <2> QED
    BY <2>1, <2>2
<1>2. q = r
  BY <1>1, ModUnique
<1> QED
  BY <1>1, <1>2

LEMMA ModPlus ==
  ASSUME NEW d \in Nat \ {0}, NEW a \in Nat
  PROVE  (a + d) % d = a % d
<1>1. PICK q \in Nat, x \in 0 .. d-1 : a = d * q + x /\ x = a % d
  BY ModIs
<1>2. PICK r \in Nat, y \in 0 .. d-1 : a + d = d * r + y /\ y = (a + d) % d
  <2>1. a + d \in Nat
    OBVIOUS
  <2> QED
    BY <2>1, ModIs
<1>3. d * (q + 1) + x = a + d /\ d * q \in Nat /\ d * r \in Nat
  BY <1>1
<1>4. q + 1 = r
  <2>1. CASE q + 1 < r
    <3>1. (q + 2) * d <= r * d
      BY <2>1, TimesMonotonic
    <3>2. d * (q + 1) + d <= d * r /\ d * (q + 1) \in Nat
      BY <3>1
    <3> QED
      BY <1>2, <1>3, <3>2
  <2>2. CASE r < q + 1
    <3>1. (r + 1) * d <= (q + 1) * d
      BY <2>2, TimesMonotonic
    <3>2. d * r + d <= d * (q + 1) /\ d * (q + 1) \in Nat
      BY <3>1
    <3> QED
      BY <1>2, <1>3, <3>2
  <2> QED
    BY <2>1, <2>2
<1>5. d * (q + 1) = d * r
  BY <1>4
<1>6. x = y
  BY <1>2, <1>3, <1>5
<1> QED
  BY <1>1, <1>2, <1>6

LEMMA Constants ==
  /\ V \in Nat \ {0} /\ Nothing \notin Object /\ Nothing \notin Address
  /\ Address \in SUBSET Nat /\ \A c \in Nat : c < V <=> c \in Address
  /\ Lengths \in SUBSET Nat /\ Bytes \in SUBSET Nat
  BY VectorAssumption DEF Address

\* The bytes of a vector lie in the cells of its block that follow the header.
LEMMA Widths ==
  ASSUME NEW l \in Nat
  PROVE  /\ BlockSize(l) \in Nat \ {0}
         /\ \A i \in 0 .. l-1 : /\ i \div 3 \in 0 .. BlockSize(l)-2 /\ (i % 3) \in 0 .. 2
                                /\ i = (3 * (i \div 3)) + (i % 3)
<1>1. BlockSize(l) = ((l + 2) \div 3) + 1
  BY DEF BlockSize, CellBytes
<1>2. BlockSize(l) \in Nat \ {0}
  BY <1>1
<1>3. ASSUME NEW i \in 0 .. l-1
      PROVE  /\ i \div 3 \in 0 .. BlockSize(l)-2 /\ (i % 3) \in 0 .. 2
             /\ i = (3 * (i \div 3)) + (i % 3)
  <2>1. i \in Nat /\ i <= l - 1
    OBVIOUS
  <2>2. i \div 3 \in Nat /\ (i % 3) \in 0 .. 2 /\ i = (3 * (i \div 3)) + (i % 3)
    BY <2>1
  <2>3. (l + 2) \div 3 \in Nat /\ l + 2 <= 3 * ((l + 2) \div 3) + 2
    OBVIOUS
  <2>4. i \div 3 <= BlockSize(l) - 2
    BY <1>1, <1>2, <2>1, <2>2, <2>3
  <2> QED
    BY <1>2, <2>2, <2>4
<1> QED
  BY <1>2, <1>3

-----------------------------------------------------------------------------
(***************************************************************************)
(* The copy of a block that moves by at least its size: its two areas do   *)
(* not overlap, and the order in which memcpy takes the cells does not     *)
(* matter.                                                                 *)
(***************************************************************************)
LEMMA CopyOrder ==
  ASSUME NEW to \in Nat, NEW from \in Nat, NEW n \in Nat \ {0}, to + n <= from
  PROVE  Backward(to, from, n) = Forward(to, from, n)
<1>1. from - to \in Nat \ {0} /\ n <= from - to
  OBVIOUS
<1> DEFINE D == from - to
           Last(c, d) == d % D = c % D /\ d + D > from + n - 1
<1>2. ASSUME NEW c \in to .. to+n-1
      PROVE  (CHOOSE d \in from .. from+n-1 : Last(c, d)) = from + c - to
  <2>1. c \in Nat /\ from + c - to = c + D /\ c + D \in from .. from+n-1 /\ c + D \in Nat
    BY <1>1
  <2>2. (c + D) % D = c % D
    BY <1>1, <2>1, ModPlus
  <2>3. Last(c, c + D)
    BY <1>1, <2>1, <2>2
  <2>4. ASSUME NEW d \in from .. from+n-1, Last(c, d) PROVE d = c + D
    <3>1. d % D = (c + D) % D /\ d \in Nat /\ d < c + D + D /\ c + D < d + D
      BY <1>1, <2>1, <2>2, <2>4
    <3>2. CASE d <= c + D
      BY <1>1, <2>1, <3>1, <3>2, SameMod
    <3>3. CASE c + D <= d
      BY <1>1, <2>1, <3>1, <3>3, SameMod
    <3> QED
      BY <2>1, <3>1, <3>2, <3>3
  <2> HIDE DEF D, Last
  <2> QED
    BY <2>1, <2>3, <2>4
<1>3. Backward(to, from, n) =
        [c \in Address |-> IF c \in to .. to+n-1
           THEN vector_heap[CHOOSE d \in from .. from+n-1 : Last(c, d)] ELSE vector_heap[c]]
  BY DEF Backward
<1> HIDE DEF D, Last
<1> QED
  BY <1>2, <1>3 DEF Forward

-----------------------------------------------------------------------------
(***************************************************************************)
(* The blocks.  Header and data are told apart by a set H of addresses,    *)
(* those of the headers of the blocks that the walk has yet to meet and of *)
(* the blocks in use that it has passed.                                   *)
(***************************************************************************)
HeapOK == vector_heap \in [Address -> [1 .. 3 -> Object \cup Nat]]

SizeOf(c) == vector_heap[c][2]
Owner(c)  == vector_heap[c][1]

\* The vectors that have a block.
Placed == isVector \ {reg4}

\* The block at c lies in the used part, ends where the next begins or
\* before, and when it is in use it belongs to the vector that leads to it.
HeaderOK(H, c) ==
  /\ SizeOf(c) \in Nat \ {0} /\ c + SizeOf(c) <= vector_free_cells
  /\ \A d \in H : c < d => c + SizeOf(c) <= d
  /\ Used(vector_heap, c) => Owner(c) \in Placed /\ start[Owner(c)] = c + 1

VectorOK(H, o) ==
  /\ length[o] \in Lengths
  /\ start[o] - 1 \in H
  /\ Owner(start[o] - 1) = o /\ Used(vector_heap, start[o] - 1)
  /\ SizeOf(start[o] - 1) = BlockSize(length[o])

BlocksOK(H) ==
  /\ H \in SUBSET Address
  /\ \A c \in H : HeaderOK(H, c)
  /\ \A o \in Placed : VectorOK(H, o)

\* From header to header one gets from a to b.
Chain(H, a, b) ==
  /\ a \in Nat /\ b \in Nat
  /\ a \in H \cup {b}
  /\ \A c \in H : a <= c /\ c < b /\ c + SizeOf(c) \in H \cup {b}

\* Between two compactions the blocks fill the used part.
Filled(H) == BlocksOK(H) /\ Chain(H, 0, vector_free_cells)

\* During one, the blocks A that the walk has passed are in use and fill the
\* space up to g, the blocks B that it has not passed fill it from cur on;
\* prev is the beginning of the gap between g and cur, or a block if there is
\* no gap.
Walk(A, B, g) ==
  /\ BlocksOK(A \cup B)
  /\ Chain(A, 0, g) /\ Chain(B, cur, vector_free_cells)
  /\ g <= cur /\ cur <= vector_free_cells
  /\ \A c \in A : Used(vector_heap, c)
  /\ prev = Nothing => cur = 0
  /\ prev # Nothing => prev < cur /\ (prev = g \/ (prev \in A /\ g = cur))

Shape ==
  /\ pc # "compact" => \E H : Filled(H)
  /\ pc = "compact" => \E A, B, g : Walk(A, B, g)

\* What is known at each point of new_vector.
Control ==
  /\ reg4 # Nothing => reg4 \in isVector \ held
  /\ pc \in {"run", "new_cell"} => reg4 = Nothing
  /\ pc \in {"new_block", "compact", "compacted"} => reg4 # Nothing
  /\ pc \in {"new_cell", "new_block", "compact", "compacted"} => want \in Lengths
  /\ pc \in {"compact", "compacted"} => Placed = held

IInv == TypeOK /\ HeapOK /\ Control /\ Shape

LEMMA HeldPlaced == IInv => held \subseteq Placed
  BY VectorAssumption DEF IInv, Control, TypeOK, Placed

LEMMA SomeBlocks == IInv => \E H : BlocksOK(H)
  BY DEF IInv, Shape, Filled, Walk

\* The block of a vector, seen from the vector.
LEMMA Facts ==
  ASSUME TypeOK, NEW H, BlocksOK(H), NEW o \in Placed
  PROVE  /\ o \in Object /\ length[o] \in Nat /\ BlockSize(length[o]) \in Nat \ {0}
         /\ start[o] \in Nat /\ start[o] - 1 \in H /\ start[o] - 1 \in Nat
         /\ start[o] - 1 \in Address
         /\ start[o] - 1 + BlockSize(length[o]) <= vector_free_cells
         /\ \A k \in 0 .. BlockSize(length[o])-2 :
              start[o] + k \in Address /\ start[o] + k \notin H
         /\ \A p \in Placed : start[o] = start[p] => o = p
<1>1. /\ V \in Nat /\ vector_free_cells \in Nat /\ vector_free_cells <= V
      /\ o \in Object /\ start[o] \in Nat /\ length[o] \in Lengths /\ length[o] \in Nat
  <2>1. o \in Object /\ length[o] \in Lengths
    BY DEF TypeOK, BlocksOK, VectorOK, Placed
  <2>2. length[o] \in Nat
    BY <2>1, VectorAssumption
  <2>3. V \in Nat /\ vector_free_cells \in 0 .. V /\ start[o] \in 0 .. V
    BY <2>1, VectorAssumption DEF TypeOK
  <2> QED
    BY <2>1, <2>2, <2>3
<1>2. PICK b : b = BlockSize(length[o])
  OBVIOUS
<1>3. b \in Nat \ {0}
  BY <1>1, <1>2, Widths
<1>4. PICK s : s = start[o] - 1
  OBVIOUS
<1>5. s \in H /\ SizeOf(s) = b /\ s \in Address /\ s \in Nat /\ start[o] = s + 1
  BY <1>1, <1>2, <1>4, Constants DEF BlocksOK, VectorOK
<1>6. s + b <= vector_free_cells /\ \A d \in H : s < d => s + b <= d
  BY <1>5 DEF BlocksOK, HeaderOK
<1>7. ASSUME NEW k \in 0 .. b-2 PROVE start[o] + k \in Address /\ start[o] + k \notin H
  <2>1. start[o] + k \in Nat /\ s < start[o] + k /\ start[o] + k < s + b
    BY <1>3, <1>5
  <2>2. start[o] + k < V
    BY <1>1, <1>3, <1>5, <1>6, <2>1
  <2> QED
    BY <1>3, <1>5, <1>6, <2>1, <2>2, Constants
<1>8. \A p \in Placed : start[o] = start[p] => o = p
  BY DEF BlocksOK, VectorOK
<1> QED
  BY <1>1, <1>2, <1>3, <1>4, <1>5, <1>6, <1>7, <1>8

\* The data of a vector lie outside of any other block.
LEMMA DataApart ==
  ASSUME TypeOK, NEW H, BlocksOK(H), NEW o \in Placed, NEW c \in H, c # start[o] - 1,
         NEW k \in 0 .. BlockSize(length[o])-2
  PROVE  start[o] + k < c \/ c + SizeOf(c) <= start[o] + k
<1>1. PICK s, b : s = start[o] - 1 /\ b = BlockSize(length[o])
  OBVIOUS
<1>2. s \in H /\ s \in Nat /\ b \in Nat \ {0} /\ start[o] = s + 1 /\ c \in Nat /\ SizeOf(s) = b
  <2>1. start[o] \in Nat /\ start[o] - 1 \in H /\ start[o] - 1 \in Nat /\ b \in Nat \ {0}
    BY <1>1, Facts
  <2>2. c \in Nat
    BY Constants DEF BlocksOK
  <2>3. SizeOf(start[o] - 1) = b
    BY <1>1 DEF BlocksOK, VectorOK
  <2> QED
    BY <1>1, <2>1, <2>2, <2>3
<1>3. SizeOf(c) \in Nat /\ (c < s => c + SizeOf(c) <= s) /\ (s < c => s + b <= c)
  BY <1>2 DEF BlocksOK, HeaderOK
<1>4. k \in Nat /\ k <= b - 2
  BY <1>1, <1>2
<1> QED
  BY <1>1, <1>2, <1>3, <1>4

(***************************************************************************)
(* What the program sees.                                                  *)
(***************************************************************************)
Datum(o, k) == vector_heap[start[o] + k]

SameVector(v) ==
  /\ length[v] \in Nat /\ length'[v] = length[v]
  /\ \A k \in 0 .. BlockSize(length[v])-2 : Datum(v, k)' = Datum(v, k)

LEMMA SameContent ==
  ASSUME NEW v, SameVector(v)
  PROVE  Content(v)' = Content(v)
<1>1. \A i \in 0 .. length[v]-1 :
        /\ GetByte(vector_heap, start[v], i) = Datum(v, i \div 3)[(i % 3) + 1]
        /\ GetByte(vector_heap', start'[v], i) = Datum(v, i \div 3)'[(i % 3) + 1]
        /\ i \div 3 \in 0 .. BlockSize(length[v])-2
  BY Widths DEF GetByte, Datum, CellBytes, SameVector
<1>2. \A i \in 0 .. length[v]-1 :
        GetByte(vector_heap, start[v], i) = GetByte(vector_heap', start'[v], i)
  BY <1>1 DEF SameVector
<1> QED
  BY <1>2 DEF Content, SameVector

LEMMA Calm ==
  ASSUME held' = held, \A v \in held : SameVector(v)
  PROVE  Contents' = Contents
<1>1. \A v \in held : Content(v)' = Content(v)
  BY SameContent
<1> QED
  BY <1>1 DEF Contents

-----------------------------------------------------------------------------
(***************************************************************************)
(* The steps of the program.                                               *)
(***************************************************************************)
LEMMA InitKeeps == ASSUME Init PROVE IInv /\ Store!Init
<1>1. HeapOK
  <2>1. vector_heap = [c \in Address |-> <<0, 0, 0>>]
    BY DEF Init, Header
  <2>2. <<0, 0, 0>> \in [1 .. 3 -> Object \cup Nat]
    OBVIOUS
  <2> QED
    BY <2>1, <2>2 DEF HeapOK
<1>2. TypeOK
  BY Constants DEF TypeOK, Init
<1>3. Control
  BY DEF Init, Control
<1>4. Filled({})
  <2>1. Placed = {} /\ vector_free_cells = 0
    BY DEF Init, Placed
  <2> QED
    BY <2>1 DEF Filled, BlocksOK, Chain
<1>5. Store!Init
  BY DEF Init, Contents, Store!Init
<1> QED
  BY <1>1, <1>2, <1>3, <1>4, <1>5 DEF IInv, Shape, Init

Good == IInv' /\ [Store!Next]_Contents

\* Neither heap nor vectors change.
LEMMA SameSpace ==
  ASSUME IInv, UNCHANGED <<start, length, vector_heap, vector_free_cells>>, Placed' = Placed
  PROVE  /\ HeapOK' /\ \A H : BlocksOK(H) => BlocksOK(H)'
         /\ \A H : Filled(H) => Filled(H)'
         /\ \A v \in Placed : SameVector(v)
<1>1. HeapOK'
  BY DEF IInv, HeapOK
<1>2. \A H, c : HeaderOK(H, c)' <=> HeaderOK(H, c)
  BY DEF HeaderOK, Used, SizeOf, Owner
<1>3. \A H, o : VectorOK(H, o)' <=> VectorOK(H, o)
  BY DEF VectorOK, Used, SizeOf, Owner
<1>4. \A H : BlocksOK(H)' <=> BlocksOK(H)
  BY <1>2, <1>3 DEF BlocksOK
<1>5. \A H : Chain(H, 0, vector_free_cells)' <=> Chain(H, 0, vector_free_cells)
  BY DEF Chain, SizeOf
<1>6. ASSUME NEW v \in Placed PROVE SameVector(v)
  <2>1. length[v] \in Nat
    BY SomeBlocks, Facts DEF IInv
  <2> QED
    BY <2>1 DEF SameVector, Datum
<1> QED
  BY <1>1, <1>4, <1>5, <1>6 DEF Filled

LEMMA ForgetStep == ASSUME IInv, Forget PROVE Good
<1>1. /\ UNCHANGED <<isVector, start, length, vector_heap, vector_free_cells, pc, want, reg4, cur, prev>>
      /\ pc = "run"
  BY DEF Forget, allocator, locals
<1>2. PICK v \in held : held' = held \ {v}
  BY DEF Forget
<1>3. Placed' = Placed
  BY <1>1 DEF Placed
<1>4. HeapOK' /\ \A H : Filled(H) => Filled(H)'
  BY <1>1, <1>3, SameSpace
<1>5. TypeOK' /\ Control'
  BY <1>1, <1>2 DEF IInv, TypeOK, Control
<1>6. IInv'
  BY <1>1, <1>4, <1>5 DEF IInv, Shape
<1>7. Store!Forget(v)
  <2>1. \A w : Content(w)' = Content(w)
    BY <1>1 DEF Content, GetByte
  <2> QED
    BY <1>2, <2>1 DEF Store!Forget, Contents
<1>8. v \in DOMAIN Contents
  BY DEF Contents
<1> QED
  BY <1>6, <1>7, <1>8 DEF Good, Store!Next

LEMMA MakeVectorStep == ASSUME IInv, MakeVector PROVE Good
<1>1. /\ UNCHANGED <<isVector, start, length, vector_heap, vector_free_cells, held, reg4, cur, prev>>
      /\ pc = "run" /\ pc' = "new_cell" /\ want' \in Lengths
  BY DEF MakeVector, allocator, locals
<1>2. Placed' = Placed
  BY <1>1 DEF Placed
<1>3. HeapOK' /\ (\A H : Filled(H) => Filled(H)') /\ \A v \in Placed : SameVector(v)
  BY <1>1, <1>2, SameSpace
<1>4. TypeOK' /\ Control'
  BY <1>1 DEF IInv, TypeOK, Control
<1>5. IInv'
  BY <1>1, <1>3, <1>4 DEF IInv, Shape
<1>6. Contents' = Contents
  BY <1>1, <1>3, HeldPlaced, Calm
<1> QED
  BY <1>5, <1>6 DEF Good

LEMMA NewObjectStep == ASSUME IInv, NewObject PROVE Good
<1>1. /\ UNCHANGED <<start, length, vector_heap, vector_free_cells, held, want, cur, prev>>
      /\ pc = "new_cell" /\ pc' = "new_block"
  BY DEF NewObject, locals
<1>2. PICK r \in Object \ isVector : reg4' = r /\ isVector' = isVector \cup {r}
  BY DEF NewObject
<1>3. reg4 = Nothing /\ isVector \subseteq Object /\ held \subseteq isVector /\ want \in Lengths
  BY <1>1 DEF IInv, Control, TypeOK
<1>4. Placed' = Placed
  BY <1>2, <1>3, Constants DEF Placed
<1>5. HeapOK' /\ (\A H : Filled(H) => Filled(H)') /\ \A v \in Placed : SameVector(v)
  BY <1>1, <1>4, SameSpace
<1>6. TypeOK'
  BY <1>1, <1>2, <1>3 DEF IInv, TypeOK
<1>7. Control'
  BY <1>1, <1>2, <1>3, Constants DEF Control
<1>8. IInv'
  BY <1>1, <1>5, <1>6, <1>7 DEF IInv, Shape
<1>9. Contents' = Contents
  BY <1>1, <1>5, HeldPlaced, Calm
<1> QED
  BY <1>8, <1>9 DEF Good

LEMMA SetByteStep == ASSUME IInv, SetByte PROVE Good
<1>1. /\ UNCHANGED <<isVector, start, length, vector_free_cells, held, pc, want, reg4, cur, prev>>
      /\ pc = "run"
  BY DEF SetByte, locals
<1>2. PICK v \in held, b \in Bytes :
        \E i \in 0 .. length[v]-1 : vector_heap' = WithByte(vector_heap, start[v], i, b)
  BY DEF SetByte
<1>3. PICK i \in 0 .. length[v]-1 : vector_heap' = WithByte(vector_heap, start[v], i, b)
  BY <1>2
<1>4. PICK H : Filled(H)
  BY <1>1 DEF IInv, Shape
<1>5. v \in Placed /\ length[v] \in Nat
  BY <1>4, HeldPlaced, Facts DEF IInv, Filled
<1>6. PICK w, k, j, s : w = BlockSize(length[v]) /\ k = i \div 3 /\ j = (i % 3) + 1 /\ s = start[v] + k
  OBVIOUS
<1>7. k \in 0 .. w-2 /\ j \in 1 .. 3 /\ i = (3 * k) + (j - 1)
  <2>1. k \in 0 .. w-2 /\ (i % 3) \in 0 .. 2 /\ i = (3 * k) + (i % 3)
    BY <1>5, <1>6, Widths
  <2> QED
    BY <1>6, <2>1
<1>8. s \in Address /\ s \notin H /\ b \in Nat /\ start[v] \in Nat
  BY <1>4, <1>5, <1>6, <1>7, Facts, Constants DEF IInv, Filled
<1>9. vector_heap' = [vector_heap EXCEPT ![s][j] = b]
  BY <1>3, <1>6 DEF WithByte, CellBytes
<1>10. vector_heap[s] \in [1 .. 3 -> Object \cup Nat]
  BY <1>8 DEF IInv, HeapOK
<1>11. HeapOK'
  BY <1>7, <1>8, <1>9, <1>10 DEF IInv, HeapOK
<1>12. \A c : c # s => vector_heap'[c] = vector_heap[c]
  BY <1>9
<1>13. Placed' = Placed /\ \A c \in H : vector_heap'[c] = vector_heap[c]
  BY <1>1, <1>8, <1>12 DEF Placed
<1>14. Filled(H)'
  <2>1. \A c \in H : /\ HeaderOK(H, c)' <=> HeaderOK(H, c)
                     /\ SizeOf(c)' = SizeOf(c) /\ Owner(c)' = Owner(c)
                     /\ Used(vector_heap', c) <=> Used(vector_heap, c)
    BY <1>1, <1>13 DEF HeaderOK, Used, SizeOf, Owner
  <2>2. \A o : VectorOK(H, o)' <=> VectorOK(H, o)
    BY <1>1, <2>1 DEF VectorOK
  <2>3. BlocksOK(H)'
    BY <1>4, <1>13, <2>1, <2>2 DEF Filled, BlocksOK
  <2>4. Chain(H, 0, vector_free_cells)'
    BY <1>1, <1>4, <2>1 DEF Filled, Chain
  <2> QED
    BY <2>3, <2>4 DEF Filled
<1>15. TypeOK'
  BY <1>1, <1>11 DEF IInv, TypeOK, HeapOK
<1>16. Control'
  BY <1>1, <1>13 DEF IInv, Control
<1>17. IInv'
  BY <1>1, <1>11, <1>14, <1>15, <1>16 DEF IInv, Shape
<1>18. Content(v)' = [Content(v) EXCEPT ![i] = b]
  <2>1. ASSUME NEW n \in 0 .. length[v]-1
        PROVE  GetByte(vector_heap', start[v], n) =
                 IF n = i THEN b ELSE GetByte(vector_heap, start[v], n)
    <3>1. PICK q, r, t : q = n \div 3 /\ r = (n % 3) + 1 /\ t = start[v] + q
      OBVIOUS
    <3>2. q \in 0 .. w-2 /\ r \in 1 .. 3 /\ n = (3 * q) + (r - 1)
      <4>1. q \in 0 .. w-2 /\ (n % 3) \in 0 .. 2 /\ n = (3 * q) + (n % 3)
        BY <1>5, <1>6, <3>1, Widths
      <4> QED
        BY <3>1, <4>1
    <3>3. w \in Nat
      BY <1>5, <1>6, Widths
    <3>4. t = s <=> q = k
      BY <1>6, <1>7, <1>8, <3>1, <3>2, <3>3
    <3>5. (q = k /\ r = j) <=> n = i
      BY <1>7, <3>2, <3>3
    <3>6. vector_heap'[t][r] = IF t = s /\ r = j THEN b ELSE vector_heap[t][r]
      <4>1. CASE t = s
        <5>1. vector_heap'[s] = [vector_heap[s] EXCEPT ![j] = b]
          BY <1>8, <1>9 DEF IInv, HeapOK
        <5>2. \A f \in [1 .. 3 -> Object \cup Nat] :
                [f EXCEPT ![j] = b][r] = IF r = j THEN b ELSE f[r]
          BY <1>7, <3>2
        <5> QED
          BY <1>10, <4>1, <5>1, <5>2
      <4>2. CASE t # s
        BY <1>12, <4>2
      <4> QED
        BY <4>1, <4>2
    <3> QED
      BY <3>1, <3>4, <3>5, <3>6 DEF GetByte, CellBytes
  <2>2. Content(v) = [n \in 0 .. length[v]-1 |-> GetByte(vector_heap, start[v], n)]
    BY DEF Content
  <2>3. Content(v)' = [n \in 0 .. length[v]-1 |-> GetByte(vector_heap', start[v], n)]
    BY <1>1 DEF Content
  <2> QED
    BY <2>1, <2>2, <2>3
<1>19. ASSUME NEW x \in held, x # v PROVE Content(x)' = Content(x)
  <2>1. x \in Placed /\ start[x] # start[v] /\ length[x] \in Nat /\ start[x] \in Nat
        /\ start[x] - 1 \in H
    BY <1>4, <1>5, <1>19, HeldPlaced, Facts DEF IInv, Filled
  <2>2. ASSUME NEW n \in 0 .. BlockSize(length[x])-2 PROVE start[x] + n # s
    <3>1. PICK a : a = start[v] - 1
      OBVIOUS
    <3>2. a \in H /\ a \in Nat /\ SizeOf(a) = w /\ start[v] = a + 1 /\ w \in Nat /\ a # start[x] - 1
      <4>1. a \in H /\ a \in Nat /\ w \in Nat
        BY <1>4, <1>5, <1>6, <3>1, Facts DEF IInv, Filled
      <4>2. SizeOf(a) = w
        BY <1>4, <1>5, <1>6, <3>1 DEF Filled, BlocksOK, VectorOK
      <4>3. start[v] = a + 1 /\ a # start[x] - 1
        BY <1>8, <2>1, <3>1
      <4> QED
        BY <4>1, <4>2, <4>3
    <3>3. start[x] + n < a \/ a + SizeOf(a) <= start[x] + n
      BY <1>4, <2>1, <3>2, DataApart DEF IInv, Filled
    <3>4. start[x] + n \in Nat
      <4>1. n \in Nat
        OBVIOUS
      <4> QED
        BY <2>1, <4>1
    <3> QED
      BY <1>6, <1>7, <3>2, <3>3, <3>4
  <2>3. SameVector(x)
    BY <1>1, <1>12, <2>1, <2>2 DEF SameVector, Datum
  <2> QED
    BY <2>3, SameContent
<1>20. Store!SetByte(v, i, b)
  <2>1. i \in DOMAIN Content(v)
    BY DEF Content
  <2>2. Contents' = [x \in held |-> Content(x)']
    BY <1>1 DEF Contents
  <2>3. Contents = [x \in held |-> Content(x)]
    BY DEF Contents
  <2> QED
    BY <1>18, <1>19, <2>1, <2>2, <2>3 DEF Store!SetByte
<1>21. v \in DOMAIN Contents /\ i \in DOMAIN Contents[v]
  BY DEF Contents, Content
<1> QED
  BY <1>17, <1>20, <1>21 DEF Good, Store!Next

-----------------------------------------------------------------------------
(***************************************************************************)
(* The steps of new_vector.                                                *)
(***************************************************************************)
LEMMA SetFreeIs ==
  ASSUME NEW h, h \in [Address -> [1 .. 3 -> Object \cup Nat]], NEW c \in Address
  PROVE  /\ SetFree(h, c) \in [Address -> [1 .. 3 -> Object \cup Nat]]
         /\ \A d \in Address \ {c} : SetFree(h, c)[d] = h[d]
         /\ SetFree(h, c)[c][1] = h[c][1] /\ SetFree(h, c)[c][2] = h[c][2]
         /\ ~Used(SetFree(h, c), c)
<1>1. h[c] \in [1 .. 3 -> Object \cup Nat]
  OBVIOUS
<1>2. [h[c] EXCEPT ![3] = 0] \in [1 .. 3 -> Object \cup Nat]
  BY <1>1
<1>3. SetFree(h, c) = [h EXCEPT ![c] = [h[c] EXCEPT ![3] = 0]]
  BY DEF SetFree
<1>4. SetFree(h, c)[c] = [h[c] EXCEPT ![3] = 0] /\ \A d \in Address \ {c} : SetFree(h, c)[d] = h[d]
  BY <1>3
<1>5. SetFree(h, c) \in [Address -> [1 .. 3 -> Object \cup Nat]]
  BY <1>2, <1>3
<1>6. SetFree(h, c)[c][1] = h[c][1] /\ SetFree(h, c)[c][2] = h[c][2] /\ SetFree(h, c)[c][3] = 0
  BY <1>1, <1>4
<1> QED
  BY <1>4, <1>5, <1>6 DEF Used

LEMMA CollectKeeps ==
  ASSUME IInv, Collect, UNCHANGED <<start, length, vector_free_cells, held, reg4>>,
         NEW H, Filled(H)
  PROVE  /\ HeapOK' /\ Filled(H)' /\ Placed' = held /\ \A v \in held : SameVector(v)
         /\ isVector' = isVector \cap (held \cup {reg4})
<1> DEFINE Freed == {start[o]-1 : o \in Garbage}
<1>1. /\ isVector' = isVector \cap (held \cup {reg4}) /\ Placed' = held
      /\ Garbage = Placed \ held /\ held \subseteq Placed
  BY HeldPlaced DEF Collect, Garbage, Placed
<1>2. vector_heap \in [Address -> [1 .. 3 -> Object \cup Nat]] /\ BlocksOK(H) /\ TypeOK
  BY DEF IInv, HeapOK, Filled
<1>3. vector_heap' = [c \in Address |->
        IF c \in Freed THEN SetFree(vector_heap, c)[c] ELSE vector_heap[c]]
  BY DEF Collect
<1>4. Freed \subseteq H /\ H \subseteq Address
  BY <1>1, <1>2 DEF BlocksOK, VectorOK
<1>5. \A o \in Placed : start[o] - 1 \in Freed => o \notin held
  <2> SUFFICES ASSUME NEW o \in Placed, NEW g \in Garbage, start[o] - 1 = start[g] - 1, o \in held
               PROVE  FALSE
    OBVIOUS
  <2>1. g \in Placed /\ g \notin held
    BY <1>1
  <2> QED
    BY <1>2, <2>1 DEF BlocksOK, VectorOK
<1>6. \A o \in Placed : o \notin held => start[o] - 1 \in Freed
  BY <1>1
<1> HIDE DEF Freed
<1>7. \A c \in Address : c \notin H => vector_heap'[c] = vector_heap[c]
  BY <1>3, <1>4
<1>8. HeapOK'
  <2>1. \A c \in Address : vector_heap'[c] \in [1 .. 3 -> Object \cup Nat]
    BY <1>2, <1>3, SetFreeIs
  <2> QED
    BY <1>3, <2>1 DEF HeapOK
<1>9. ASSUME NEW c \in H
      PROVE  /\ SizeOf(c)' = SizeOf(c) /\ Owner(c)' = Owner(c)
             /\ Used(vector_heap', c) <=> Used(vector_heap, c) /\ c \notin Freed
  <2>1. CASE c \in Freed
    <3>1. vector_heap'[c] = SetFree(vector_heap, c)[c] /\ c \in Address
      BY <1>3, <1>4, <2>1
    <3> QED
      BY <1>2, <2>1, <3>1, SetFreeIs DEF SizeOf, Owner, Used
  <2>2. CASE c \notin Freed
    <3>1. vector_heap'[c] = vector_heap[c]
      BY <1>3, <1>4, <2>2
    <3> QED
      BY <2>2, <3>1 DEF SizeOf, Owner, Used
  <2> QED
    BY <2>1, <2>2
<1>10. ASSUME NEW c \in H PROVE HeaderOK(H, c)'
  <2>1. HeaderOK(H, c) /\ c \in Nat
    BY <1>2, <1>4, Constants DEF BlocksOK
  <2>2. ASSUME Used(vector_heap', c) PROVE Owner(c) \in held /\ start[Owner(c)] = c + 1
    <3>1. PICK o : o = Owner(c)
      OBVIOUS
    <3>2. o \in Placed /\ start[o] = c + 1 /\ c \notin Freed
      BY <1>9, <2>1, <2>2, <3>1 DEF HeaderOK
    <3>3. start[o] - 1 = c
      BY <2>1, <3>2
    <3> QED
      BY <1>6, <3>1, <3>2, <3>3
  <2> QED
    BY <1>1, <1>9, <2>1, <2>2 DEF HeaderOK
<1>11. ASSUME NEW o \in held PROVE VectorOK(H, o)'
  <2>1. VectorOK(H, o) /\ o \in Placed
    BY <1>1, <1>2 DEF BlocksOK
  <2> QED
    BY <1>5, <1>9, <2>1 DEF VectorOK
<1>12. Filled(H)'
  <2>1. BlocksOK(H)'
    BY <1>1, <1>2, <1>10, <1>11 DEF BlocksOK
  <2>2. Chain(H, 0, vector_free_cells)'
    BY <1>9 DEF Filled, Chain
  <2> QED
    BY <2>1, <2>2 DEF Filled
<1>13. ASSUME NEW v \in held PROVE SameVector(v)
  <2>1. /\ length[v] \in Nat
        /\ \A k \in 0 .. BlockSize(length[v])-2 : start[v] + k \in Address /\ start[v] + k \notin H
    BY <1>1, <1>2, Facts
  <2> QED
    BY <1>7, <2>1 DEF SameVector, Datum
<1> QED
  BY <1>1, <1>8, <1>12, <1>13

LEMMA CollectForObjectStep == ASSUME IInv, CollectForObject PROVE Good
<1>1. /\ UNCHANGED <<start, length, vector_free_cells, held, want, reg4, cur, prev>> /\ Collect
      /\ pc = "new_cell" /\ pc' \in {"stopped", "new_cell"}
  BY DEF CollectForObject, locals
<1>2. PICK H : Filled(H)
  BY <1>1 DEF IInv, Shape
<1>3. /\ HeapOK' /\ Filled(H)' /\ Placed' = held /\ \A v \in held : SameVector(v)
      /\ isVector' = isVector \cap (held \cup {reg4})
  BY <1>1, <1>2, CollectKeeps
<1>4. reg4 = Nothing /\ held \subseteq isVector /\ isVector \subseteq Object
  BY <1>1 DEF IInv, Control, TypeOK
<1>5. TypeOK'
  BY <1>1, <1>3, <1>4 DEF IInv, TypeOK, HeapOK
<1>6. Control'
  BY <1>1, <1>4 DEF IInv, Control
<1>7. IInv'
  BY <1>1, <1>3, <1>5, <1>6 DEF IInv, Shape
<1>8. Contents' = Contents
  BY <1>1, <1>3, Calm
<1> QED
  BY <1>7, <1>8 DEF Good

LEMMA NoRoomStep == ASSUME IInv, NoRoom PROVE Good
<1>1. /\ UNCHANGED <<start, length, vector_free_cells, held, want, reg4>> /\ Collect
      /\ pc = "new_block" /\ pc' = "compact" /\ cur' = 0 /\ prev' = Nothing
  BY DEF NoRoom
<1>2. PICK H : Filled(H)
  BY <1>1 DEF IInv, Shape
<1>3. /\ HeapOK' /\ Filled(H)' /\ Placed' = held /\ \A v \in held : SameVector(v)
      /\ isVector' = isVector \cap (held \cup {reg4})
  BY <1>1, <1>2, CollectKeeps
<1>4. /\ want \in Lengths /\ reg4 \in isVector \ held /\ held \subseteq isVector
      /\ isVector \subseteq Object /\ reg4 # Nothing
  BY <1>1 DEF IInv, Control, TypeOK
<1>5. Walk({}, H, 0)'
  <2>1. {} \cup H = H
    OBVIOUS
  <2>2. 0 <= vector_free_cells
    BY VectorAssumption DEF IInv, TypeOK
  <2>3. Chain({}, 0, 0)'
    BY DEF Chain
  <2> QED
    BY <1>1, <1>3, <2>1, <2>2, <2>3 DEF Filled, Walk
<1>6. TypeOK'
  BY <1>1, <1>3, <1>4, VectorAssumption DEF IInv, TypeOK, HeapOK
<1>7. Control'
  BY <1>1, <1>3, <1>4 DEF Control
<1>8. IInv'
  BY <1>1, <1>3, <1>5, <1>6, <1>7 DEF IInv, Shape
<1>9. Contents' = Contents
  BY <1>1, <1>3, Calm
<1> QED
  BY <1>8, <1>9 DEF Good

\* The new block begins where the used part ended.
LEMMA NewBlockStep == ASSUME IInv, NewBlock PROVE Good
<1>1. /\ pc \in {"new_block", "compacted"} /\ reg4 \in isVector \ held /\ want \in Lengths
      /\ UNCHANGED <<isVector, cur, prev>> /\ HasRoom(want) /\ reg4 # Nothing
  BY DEF NewBlock, IInv, Control, locals
<1>2. PICK n, r, l, w : n = vector_free_cells /\ r = reg4 /\ l = want /\ w = BlockSize(want)
  OBVIOUS
<1>3. /\ vector_heap' = [vector_heap EXCEPT ![n] = <<r, w, 1>>]
      /\ vector_free_cells' = n + w
      /\ start' = [start EXCEPT ![r] = n + 1]
      /\ length' = [length EXCEPT ![r] = l]
      /\ held' = held \cup {r}
      /\ reg4' = Nothing /\ pc' = "run" /\ want' = 0
  BY <1>2 DEF NewBlock, Header
<1>4. PICK H : Filled(H)
  BY <1>1 DEF IInv, Shape
<1>5. /\ l \in Lengths /\ l \in Nat /\ w \in Nat \ {0} /\ V \in Nat /\ n \in Nat /\ n + w <= V
      /\ isVector \subseteq Object /\ held \subseteq isVector /\ r \in isVector /\ r \in Object
  <2>1. l \in Nat
    BY <1>1, <1>2, Constants
  <2>2. w \in Nat \ {0}
    BY <1>2, <2>1, Widths
  <2>3. V \in Nat /\ n \in 0 .. V /\ V - n >= w
    BY <1>1, <1>2, VectorAssumption DEF IInv, TypeOK, HasRoom
  <2>4. n + w <= V
    BY <2>2, <2>3
  <2>5. isVector \subseteq Object /\ held \subseteq isVector
    BY DEF IInv, TypeOK
  <2> QED
    BY <1>1, <1>2, <2>1, <2>2, <2>3, <2>4, <2>5
<1>6. n \in Address /\ n + w \in 0 .. V /\ n + 1 \in 0 .. V
  <2>1. n < V
    BY <1>5
  <2> QED
    BY <1>5, <2>1, Constants
<1>7. Placed = isVector \ {r} /\ Placed' = isVector
  BY <1>1, <1>2, <1>3, <1>5, Constants DEF Placed
<1>8. /\ vector_heap \in [Address -> [1 .. 3 -> Object \cup Nat]]
      /\ start \in [Object -> 0 .. V] /\ length \in [Object -> {0} \cup Lengths]
  BY DEF IInv, TypeOK, HeapOK
<1>9. /\ vector_heap'[n] = <<r, w, 1>>
      /\ \A c \in Address \ {n} : vector_heap'[c] = vector_heap[c]
  BY <1>3, <1>6, <1>8
<1>10. HeapOK'
  <2>1. <<r, w, 1>> \in [1 .. 3 -> Object \cup Nat]
    <3>1. r \in Object \cup Nat /\ w \in Object \cup Nat /\ 1 \in Object \cup Nat
      BY <1>5
    <3> QED
      BY <3>1
  <2>2. vector_heap' \in [Address -> [1 .. 3 -> Object \cup Nat]]
    BY <1>3, <1>6, <1>8, <2>1
  <2> QED
    BY <2>2 DEF HeapOK
<1>11. /\ H \in SUBSET Address /\ \A c \in H : /\ c \in Nat /\ c < n /\ c # n
                                               /\ vector_heap'[c] = vector_heap[c]
  <2>1. H \in SUBSET Address
    BY <1>4 DEF Filled, BlocksOK
  <2>2. ASSUME NEW c \in H PROVE c \in Nat /\ c < n
    BY <1>2, <1>4, <2>1, Constants DEF Filled, Chain
  <2>3. \A c \in H : c \in Nat /\ c < n /\ c # n
    BY <1>5, <2>2
  <2> QED
    BY <1>9, <2>1, <2>3
<1>12. /\ start'[r] = n + 1 /\ length'[r] = l
       /\ \A o \in Placed : start'[o] = start[o] /\ length'[o] = length[o]
  BY <1>3, <1>5, <1>7, <1>8
<1>13. ASSUME NEW c \in H
       PROVE  /\ SizeOf(c)' = SizeOf(c) /\ Owner(c)' = Owner(c)
              /\ Used(vector_heap', c) <=> Used(vector_heap, c)
  BY <1>11 DEF SizeOf, Owner, Used
<1>14. SizeOf(n)' = w /\ Owner(n)' = r /\ Used(vector_heap', n)
  BY <1>9 DEF SizeOf, Owner, Used
<1>15. ASSUME NEW c \in H PROVE HeaderOK(H \cup {n}, c)'
  <2>1. HeaderOK(H, c)
    BY <1>4 DEF Filled, BlocksOK
  <2>2. SizeOf(c) \in Nat \ {0} /\ c + SizeOf(c) <= n /\ \A d \in H : c < d => c + SizeOf(c) <= d
    BY <1>2, <2>1 DEF HeaderOK
  <2>3. c + SizeOf(c) <= n + w
    BY <1>5, <1>11, <2>2
  <2>4. Used(vector_heap, c) => Owner(c) \in isVector /\ start'[Owner(c)] = c + 1
    BY <1>7, <1>12, <2>1 DEF HeaderOK
  <2> QED
    BY <1>3, <1>7, <1>13, <2>2, <2>3, <2>4 DEF HeaderOK
<1>16. HeaderOK(H \cup {n}, n)'
  <2>1. \A d \in H \cup {n} : ~(n < d)
    BY <1>5, <1>11
  <2> QED
    BY <1>3, <1>5, <1>7, <1>12, <1>14, <2>1 DEF HeaderOK
<1>17. ASSUME NEW o \in Placed PROVE VectorOK(H \cup {n}, o)'
  <2>1. VectorOK(H, o)
    BY <1>4 DEF Filled, BlocksOK
  <2> QED
    BY <1>12, <1>13, <2>1 DEF VectorOK
<1>18. VectorOK(H \cup {n}, r)'
  <2>1. start'[r] - 1 = n
    BY <1>5, <1>12
  <2> QED
    BY <1>2, <1>5, <1>12, <1>14, <2>1 DEF VectorOK
<1>19. Filled(H \cup {n})'
  <2>1. BlocksOK(H \cup {n})'
    BY <1>6, <1>7, <1>11, <1>15, <1>16, <1>17, <1>18 DEF BlocksOK
  <2>2. n \in H \cup {n} /\ 0 \in H \cup {n}
    BY <1>2, <1>4 DEF Filled, Chain
  <2>3. ASSUME NEW c \in H
        PROVE  0 <= c /\ c < n + w /\ c + SizeOf(c)' \in (H \cup {n}) \cup {n + w}
    BY <1>2, <1>4, <1>5, <1>11, <1>13 DEF Filled, Chain
  <2>4. 0 <= n /\ n < n + w /\ n + w \in Nat /\ 0 \in Nat
    BY <1>5
  <2>5. Chain(H \cup {n}, 0, vector_free_cells)'
    BY <1>3, <1>14, <2>2, <2>3, <2>4 DEF Chain
  <2> QED
    BY <2>1, <2>5 DEF Filled
<1>20. TypeOK'
  <2>1. start' \in [Object -> 0 .. V] /\ length' \in [Object -> {0} \cup Lengths]
    BY <1>3, <1>5, <1>6, <1>8
  <2> QED
    BY <1>1, <1>3, <1>5, <1>6, <1>10, <2>1 DEF IInv, TypeOK, HeapOK
<1>21. IInv'
  BY <1>3, <1>10, <1>19, <1>20 DEF IInv, Control, Shape
<1>22. ASSUME NEW v \in held PROVE Content(v)' = Content(v)
  <2>1. v \in Placed
    BY HeldPlaced
  <2>2. length[v] \in Nat /\ length'[v] = length[v] /\ start'[v] = start[v] /\ start[v] \in Nat
        /\ BlockSize(length[v]) \in Nat
    BY <1>4, <1>12, <2>1, Facts DEF IInv, Filled
  <2>3. ASSUME NEW k \in 0 .. BlockSize(length[v])-2
        PROVE  start[v] + k \in Address \ {n}
    <3>1. start[v] + k \in Address /\ start[v] - 1 + BlockSize(length[v]) <= n
      BY <1>2, <1>4, <2>1, Facts DEF IInv, Filled
    <3>2. start[v] + k < n
      BY <1>5, <2>2, <3>1
    <3> QED
      BY <1>5, <3>1, <3>2
  <2>4. SameVector(v)
    BY <1>9, <2>2, <2>3 DEF SameVector, Datum
  <2> QED
    BY <2>4, SameContent
<1>23. Store!Make(r, l)
  <2>1. Contents' = [v \in held \cup {r} |-> Content(v)']
    BY <1>3 DEF Contents
  <2>2. Contents = [v \in held |-> Content(v)] /\ r \notin held
    BY <1>1, <1>2 DEF Contents
  <2>3. Content(r)' = [i \in 0 .. l-1 |-> GetByte(vector_heap', start'[r], i)]
    BY <1>12 DEF Content
  <2>4. Content(r)' = [i \in 0 .. l-1 |-> Content(r)'[i]]
    BY <2>3
  <2> QED
    BY <1>22, <2>1, <2>2, <2>4 DEF Store!Make, Store!KeepsAllBut
<1> QED
  BY <1>5, <1>21, <1>23 DEF Good, Store!Next

-----------------------------------------------------------------------------
(***************************************************************************)
(* The steps of the compaction.                                            *)
(***************************************************************************)
\* A block that is free is the block of no vector.
LEMMA DropFree ==
  ASSUME NEW H, BlocksOK(H), NEW c \in H, ~Used(vector_heap, c)
  PROVE  BlocksOK(H \ {c})
BY DEF BlocksOK, HeaderOK, VectorOK

\* What the walk finds at cur.
LEMMA AtHeader ==
  ASSUME IInv, NEW A, NEW B, NEW g, Walk(A, B, g), AtBlock
  PROVE  /\ cur \in B /\ cur \notin A /\ CurSize = SizeOf(cur)
         /\ A \subseteq Nat /\ B \subseteq Nat /\ g \in Nat /\ cur \in Nat
         /\ SizeOf(cur) \in Nat \ {0} /\ cur + SizeOf(cur) <= vector_free_cells
         /\ cur + SizeOf(cur) \in 0 .. V /\ cur \in Address /\ vector_free_cells \in Nat
         /\ \A d \in B : d # cur => cur + SizeOf(cur) <= d
         /\ Chain(B \ {cur}, cur + SizeOf(cur), vector_free_cells)
<1>1. cur \in B /\ CurSize = SizeOf(cur)
  BY DEF AtBlock, Walk, Chain, CurSize, Size, SizeOf
<1>2. A \subseteq Nat /\ B \subseteq Nat /\ g \in Nat /\ cur \in Nat /\ cur \in Address
  BY <1>1, Constants DEF Walk, BlocksOK, Chain
<1>3. cur \notin A
  BY <1>2 DEF Walk, Chain
<1>4. HeaderOK(A \cup B, cur)
  BY <1>1 DEF Walk, BlocksOK
<1>5. PICK n : n = SizeOf(cur)
  OBVIOUS
<1>6. n \in Nat \ {0} /\ cur + n <= vector_free_cells /\ \A d \in B : cur < d => cur + n <= d
  BY <1>4, <1>5 DEF HeaderOK
<1>7. V \in Nat /\ vector_free_cells \in 0 .. V
  BY VectorAssumption DEF IInv, TypeOK
<1>8. cur + n \in 0 .. V /\ vector_free_cells \in Nat
  BY <1>2, <1>6, <1>7
<1>9. /\ \A d \in B : cur <= d /\ d < vector_free_cells
      /\ \A d \in B : d + SizeOf(d) \in B \cup {vector_free_cells} /\ SizeOf(d) \in Nat \ {0}
  BY DEF Walk, Chain, BlocksOK, HeaderOK
<1>10. \A d \in B : d # cur => cur + n <= d
  BY <1>2, <1>6, <1>9
<1>11. Chain(B \ {cur}, cur + n, vector_free_cells)
  <2>1. cur + n \in Nat /\ cur + n # cur
    BY <1>2, <1>6
  <2>2. cur + n \in (B \ {cur}) \cup {vector_free_cells}
    BY <1>1, <1>5, <1>9, <2>1
  <2>3. ASSUME NEW d \in B \ {cur}
        PROVE  /\ cur + n <= d /\ d < vector_free_cells
               /\ d + SizeOf(d) \in (B \ {cur}) \cup {vector_free_cells}
    <3>1. cur + n <= d /\ d \in Nat /\ SizeOf(d) \in Nat \ {0}
      BY <1>2, <1>9, <1>10
    <3>2. d + SizeOf(d) # cur
      BY <1>2, <1>6, <3>1
    <3> QED
      BY <1>9, <3>1, <3>2
  <2> QED
    BY <1>8, <2>1, <2>2, <2>3 DEF Chain
<1> QED
  BY <1>1, <1>2, <1>3, <1>5, <1>6, <1>8, <1>10, <1>11

\* When prev is free it is the beginning of the gap.
LEMMA AtGap ==
  ASSUME NEW A, NEW B, NEW g, Walk(A, B, g), PrevIsFree
  PROVE  prev = g /\ prev < cur /\ prev \notin A
BY DEF Walk, PrevIsFree

LEMMA MergeFreeStep == ASSUME IInv, MergeFree PROVE Good
<1>1. /\ UNCHANGED <<isVector, start, length, vector_heap, vector_free_cells, held, pc, want, reg4, prev>>
      /\ AtBlock /\ PrevIsFree /\ ~Used(vector_heap, cur) /\ cur' = cur + CurSize /\ pc = "compact"
  BY DEF MergeFree, allocator, AtBlock
<1>2. PICK A, B, g : Walk(A, B, g)
  BY <1>1 DEF IInv, Shape
<1>3. PICK q, n : q = cur /\ n = SizeOf(cur)
  OBVIOUS
<1>4. /\ q \in B /\ q \notin A /\ cur' = q + n /\ n \in Nat \ {0} /\ q \in Nat /\ q + n \in 0 .. V
      /\ Chain(B \ {q}, q + n, vector_free_cells) /\ q + n <= vector_free_cells /\ g \in Nat
  BY <1>1, <1>2, <1>3, AtHeader
<1>5. Placed' = Placed
  BY <1>1 DEF Placed
<1>6. HeapOK' /\ (\A H : BlocksOK(H) => BlocksOK(H)') /\ \A v \in Placed : SameVector(v)
  BY <1>1, <1>5, SameSpace
<1>7. Walk(A, B \ {q}, g)'
  <2>1. A \cup (B \ {q}) = (A \cup B) \ {q}
    BY <1>4
  <2>2. BlocksOK(A \cup (B \ {q}))
    BY <1>1, <1>2, <1>3, <1>4, <2>1, DropFree DEF Walk
  <2>3. Chain(A, 0, g)' /\ Chain(B \ {q}, cur, vector_free_cells)'
    BY <1>1, <1>2, <1>4 DEF Walk, Chain, SizeOf
  <2>4. prev = g /\ prev < q /\ prev # Nothing
    BY <1>1, <1>2, <1>3, AtGap DEF PrevIsFree
  <2>5. g <= q + n /\ g < q + n
    BY <1>4, <2>4
  <2>6. \A c \in A : Used(vector_heap', c)
    BY <1>1, <1>2 DEF Walk
  <2> QED
    BY <1>1, <1>4, <1>6, <2>2, <2>3, <2>4, <2>5, <2>6 DEF Walk
<1>8. TypeOK'
  BY <1>1, <1>4 DEF IInv, TypeOK
<1>9. Control'
  BY <1>1, <1>5 DEF IInv, Control
<1>10. IInv'
  BY <1>1, <1>6, <1>7, <1>8, <1>9 DEF IInv, Shape
<1>11. Contents' = Contents
  BY <1>1, <1>6, HeldPlaced, Calm
<1> QED
  BY <1>10, <1>11 DEF Good

\* When prev is not free and no data are taken for a header, there is no gap.
LEMMA NoGap ==
  ASSUME IInv, NEW A, NEW B, NEW g, Walk(A, B, g), AtBlock, ~PrevIsFree, ~TakesDataForHeader
  PROVE  g = cur
<1>1. g \in Nat /\ cur \in Nat /\ A \subseteq Nat /\ B \subseteq Nat
  BY AtHeader
<1>2. CASE prev = Nothing
  BY <1>1, <1>2 DEF Walk
<1>3. CASE prev # Nothing
  <2>1. prev \in HeldHeaders
    BY <1>3 DEF TakesDataForHeader
  <2>2. PICK v \in held : prev = start[v] - 1
    BY <2>1 DEF HeldHeaders
  <2>3. prev \in A \cup B /\ prev < cur
    BY <1>3, <2>2, HeldPlaced DEF Walk, BlocksOK, VectorOK
  <2>4. \A c \in A : c < g
    BY DEF Walk, Chain
  <2>5. \A c \in B : cur <= c
    BY DEF Walk, Chain
  <2>6. prev \in A
    BY <1>1, <2>3, <2>5
  <2>7. prev # g
    BY <1>1, <2>4, <2>6
  <2> QED
    BY <1>3, <2>7 DEF Walk
<1> QED
  BY <1>2, <1>3

LEMMA NextBlockStep == ASSUME IInv, NextBlock, ~Harm PROVE Good
<1>1. /\ UNCHANGED <<isVector, start, length, vector_heap, vector_free_cells, held, pc, want, reg4>>
      /\ AtBlock /\ ~PrevIsFree /\ prev' = cur /\ cur' = cur + CurSize /\ pc = "compact"
  BY DEF NextBlock, allocator, AtBlock
<1>2. PICK A, B, g : Walk(A, B, g)
  BY <1>1 DEF IInv, Shape
<1>3. PICK q, n : q = cur /\ n = SizeOf(cur)
  OBVIOUS
<1>4. /\ q \in B /\ q \notin A /\ cur' = q + n /\ n \in Nat \ {0} /\ q \in Nat /\ q + n \in 0 .. V
      /\ Chain(B \ {q}, q + n, vector_free_cells) /\ q + n <= vector_free_cells /\ q \in Address
  BY <1>1, <1>2, <1>3, AtHeader
<1>5. g = q /\ Chain(A, 0, q) /\ \A c \in A : Used(vector_heap, c)
  BY <1>1, <1>2, <1>3, NoGap DEF Harm, Walk
<1>6. Placed' = Placed
  BY <1>1 DEF Placed
<1>7. HeapOK' /\ (\A H : BlocksOK(H) => BlocksOK(H)') /\ \A v \in Placed : SameVector(v)
  BY <1>1, <1>6, SameSpace
<1>8. Chain(B \ {q}, cur, vector_free_cells)'
  BY <1>1, <1>4 DEF Chain, SizeOf
<1>9. /\ prev' = q /\ q < q + n /\ q <= q + n /\ q # Nothing
  BY <1>1, <1>3, <1>4, Constants
<1>10. \E X, Y, z : Walk(X, Y, z)'
  <2>1. CASE Used(vector_heap, q)
    <3>1. (A \cup {q}) \cup (B \ {q}) = A \cup B
      BY <1>4
    <3>2. BlocksOK((A \cup {q}) \cup (B \ {q}))'
      BY <1>2, <1>7, <3>1 DEF Walk
    <3>3. Chain(A \cup {q}, 0, q + n)'
      <4>1. ASSUME NEW c \in A
            PROVE  0 <= c /\ c < q + n /\ c + SizeOf(c) \in (A \cup {q}) \cup {q + n}
        <5>1. 0 <= c /\ c < q /\ c + SizeOf(c) \in A \cup {q} /\ c \in Nat
          BY <1>2, <1>5, AtHeader, <1>1 DEF Chain
        <5> QED
          BY <1>4, <5>1
      <4>2. 0 \in A \cup {q} /\ 0 <= q
        BY <1>4, <1>5 DEF Chain
      <4>3. q + SizeOf(q) \in (A \cup {q}) \cup {q + n} /\ q + n \in Nat
        BY <1>3, <1>4
      <4>4. \A c : SizeOf(c)' = SizeOf(c)
        BY <1>1 DEF SizeOf
      <4> QED
        BY <1>9, <4>1, <4>2, <4>3, <4>4 DEF Chain
    <3>4. \A c \in A \cup {q} : Used(vector_heap', c)
      BY <1>1, <1>5, <2>1
    <3>5. q + n <= cur' /\ cur' <= vector_free_cells'
      BY <1>1, <1>4
    <3>6. Walk(A \cup {q}, B \ {q}, q + n)'
      BY <1>4, <1>8, <1>9, <3>2, <3>3, <3>4, <3>5 DEF Walk
    <3> QED
      BY <3>6
  <2>2. CASE ~Used(vector_heap, q)
    <3>1. A \cup (B \ {q}) = (A \cup B) \ {q}
      BY <1>4
    <3>2. BlocksOK(A \cup (B \ {q}))'
      BY <1>2, <1>4, <1>7, <2>2, <3>1, DropFree DEF Walk
    <3>3. Chain(A, 0, q)' /\ \A c \in A : Used(vector_heap', c)
      BY <1>1, <1>5 DEF Chain, SizeOf
    <3>4. q <= cur' /\ cur' <= vector_free_cells' /\ prev' < cur'
      BY <1>1, <1>4, <1>9
    <3>5. Walk(A, B \ {q}, q)'
      BY <1>8, <1>9, <3>2, <3>3, <3>4 DEF Walk
    <3> QED
      BY <3>5
  <2> QED
    BY <2>1, <2>2
<1>11. TypeOK'
  BY <1>1, <1>3, <1>4 DEF IInv, TypeOK
<1>12. Control'
  BY <1>1, <1>6 DEF IInv, Control
<1>13. IInv'
  BY <1>1, <1>7, <1>10, <1>11, <1>12 DEF IInv, Shape
<1>14. Contents' = Contents
  BY <1>1, <1>7, HeldPlaced, Calm
<1> QED
  BY <1>13, <1>14 DEF Good

\* The blocks that the walk has passed cover all that is in front of the gap.
LEMMA Covered ==
  ASSUME IInv, pc = "compact", NEW A, NEW B, NEW g, Walk(A, B, g), NEW c \in 0 .. g-1
  PROVE  \E v \in held : c \in Blocks(v)
<1>1. /\ g \in Nat /\ A \subseteq Nat /\ c \in Nat /\ c < g /\ 0 \in A
      /\ \A b \in A : b + SizeOf(b) \in A \cup {g} /\ SizeOf(b) \in Nat \ {0}
  <2>1. g \in Nat /\ 0 \in A \cup {g} /\ A \subseteq Nat
    BY Constants DEF Walk, Chain, BlocksOK
  <2>2. c \in Nat /\ c < g
    BY <2>1
  <2>3. \A b \in A : b + SizeOf(b) \in A \cup {g} /\ SizeOf(b) \in Nat \ {0}
    BY DEF Walk, Chain, BlocksOK, HeaderOK
  <2> QED
    BY <2>1, <2>2, <2>3
<1> DEFINE Below == {d \in Nat : \E b \in A : b <= c /\ d = c - b}
<1>2. c \in Below
  <2>1. 0 <= c /\ c = c - 0
    BY <1>1
  <2> QED
    BY <1>1, <2>1
<1>3. PICK m \in Below : \A k \in Below : m <= k
  BY <1>2, Smallest
<1>4. PICK b \in A : b <= c /\ m = c - b
  BY <1>3
<1>5. PICK n : n = SizeOf(b)
  OBVIOUS
<1>6. b \in Nat /\ n \in Nat \ {0} /\ b + n \in A \cup {g}
  BY <1>1, <1>5
<1>7. c < b + n
  <2> SUFFICES ASSUME b + n <= c PROVE FALSE
    BY <1>1, <1>6
  <2>1. b + n \in A /\ c - (b + n) \in Nat
    BY <1>1, <1>6
  <2>2. c - (b + n) \in Below
    BY <2>1
  <2>3. m <= c - (b + n)
    BY <1>3, <2>2
  <2> QED
    BY <1>1, <1>4, <1>6, <2>3
<1>8. PICK v : v = Owner(b)
  OBVIOUS
<1>9. v \in held /\ v \in Placed /\ start[v] = b + 1
  <2>1. v \in Placed /\ start[v] = b + 1
    BY <1>8 DEF Walk, BlocksOK, HeaderOK
  <2> QED
    BY <2>1 DEF IInv, Control
<1>10. start[v] - 1 = b
  BY <1>6, <1>9
<1>11. BlockSize(length[v]) = n
  BY <1>5, <1>9, <1>10 DEF Walk, BlocksOK, VectorOK
<1>12. start[v] + n - 2 = b + n - 1
  BY <1>6, <1>9
<1>13. c \in b .. b + n - 1
  BY <1>1, <1>4, <1>6, <1>7
<1>14. c \in Blocks(v)
  BY <1>10, <1>11, <1>12, <1>13 DEF Blocks
<1> QED
  BY <1>9, <1>14

LEMMA AtEnd ==
  ASSUME IInv, EndCompaction, ~Harm, NEW A, NEW B, NEW g, Walk(A, B, g)
  PROVE  /\ ~AtBlock /\ B = {} /\ vector_free_cells' = g /\ g \in 0 .. V
         /\ \A c \in A : c + SizeOf(c) <= g
<1>1. /\ pc = "compact" /\ (AtBlock => CurSize = 0)
      /\ vector_free_cells' = IF AtBlock THEN vector_free_cells
                              ELSE IF prev = Nothing THEN 0 ELSE prev
  BY DEF EndCompaction
<1>2. ~AtBlock
  <2>1. AtBlock => CurSize # 0
    BY AtHeader
  <2> QED
    BY <1>1, <2>1
<1>3. /\ cur \in Nat /\ V \in Nat /\ vector_free_cells \in 0 .. V /\ cur <= vector_free_cells
      /\ g \in Nat /\ g <= cur
  BY VectorAssumption DEF IInv, TypeOK, Walk, Chain
<1>4. cur = vector_free_cells /\ g \in 0 .. V
  BY <1>1, <1>2, <1>3 DEF AtBlock
<1>5. B = {}
  <2> SUFFICES ASSUME NEW c \in B PROVE FALSE
    OBVIOUS
  <2>1. c \in Nat
    BY Constants DEF Walk, BlocksOK
  <2>2. cur <= c /\ c < vector_free_cells
    BY DEF Walk, Chain
  <2> QED
    BY <1>3, <1>4, <2>1, <2>2
<1>6. vector_free_cells' = g
  <2>1. CASE prev = Nothing
    BY <1>1, <1>2, <1>3, <2>1 DEF Walk
  <2>2. CASE prev # Nothing
    <3>1. prev \notin HeldHeaders
      BY <1>1, <1>2 DEF Harm, DropsLastBlock
    <3>2. prev \notin A
      <4> SUFFICES ASSUME prev \in A PROVE FALSE
        OBVIOUS
      <4>1. Owner(prev) \in held /\ start[Owner(prev)] = prev + 1 /\ prev \in Nat
        BY <1>1, Constants DEF Walk, BlocksOK, HeaderOK, IInv, Control
      <4>2. prev = start[Owner(prev)] - 1
        BY <4>1
      <4> QED
        BY <3>1, <4>1, <4>2 DEF HeldHeaders
    <3> QED
      BY <1>1, <1>2, <2>2, <3>2 DEF Walk
  <2> QED
    BY <2>1, <2>2
<1>7. ASSUME NEW c \in A PROVE c + SizeOf(c) <= g
  <2>1. c + SizeOf(c) \in A \cup {g} /\ \A d \in A : d \in Nat /\ d < g
    <3>1. c + SizeOf(c) \in A \cup {g}
      BY DEF Walk, Chain
    <3>2. \A d \in A : d < g
      BY DEF Walk, Chain
    <3>3. \A d \in A : d \in Nat
      BY Constants DEF Walk, BlocksOK
    <3> QED
      BY <3>1, <3>2, <3>3
  <2>2. PICK e : e = c + SizeOf(c)
    OBVIOUS
  <2>3. e \in Nat /\ e <= g
    BY <1>3, <2>1, <2>2
  <2> QED
    BY <2>2, <2>3
<1> QED
  BY <1>2, <1>4, <1>5, <1>6, <1>7

LEMMA EndCompactionStep == ASSUME IInv, EndCompaction, ~Harm PROVE Good
<1>1. /\ UNCHANGED <<isVector, start, length, vector_heap, held, want, reg4>>
      /\ pc = "compact" /\ cur' = 0 /\ prev' = Nothing /\ pc' \in {"stopped", "compacted"}
  BY DEF EndCompaction
<1>2. PICK A, B, g : Walk(A, B, g)
  BY <1>1 DEF IInv, Shape
<1>3. B = {} /\ vector_free_cells' = g /\ g \in 0 .. V /\ \A c \in A : c + SizeOf(c) <= g
  BY <1>2, AtEnd
<1>4. Placed' = Placed
  BY <1>1 DEF Placed
<1>5. Filled(A)'
  <2>1. A \cup B = A
    BY <1>3
  <2>2. BlocksOK(A) /\ Chain(A, 0, g)
    BY <1>2, <2>1 DEF Walk
  <2>3. /\ \A c : SizeOf(c)' = SizeOf(c) /\ Owner(c)' = Owner(c)
        /\ \A c : Used(vector_heap', c) <=> Used(vector_heap, c)
    BY <1>1 DEF SizeOf, Owner
  <2>4. \A c \in A : HeaderOK(A, c)'
    BY <1>1, <1>3, <1>4, <2>2, <2>3 DEF BlocksOK, HeaderOK
  <2>5. \A o \in Placed : VectorOK(A, o)'
    BY <1>1, <2>2, <2>3 DEF BlocksOK, VectorOK
  <2>6. Chain(A, 0, vector_free_cells)'
    BY <1>3, <2>2, <2>3 DEF Chain
  <2> QED
    BY <1>4, <2>2, <2>4, <2>5, <2>6 DEF Filled, BlocksOK
<1>6. HeapOK'
  BY <1>1 DEF IInv, HeapOK
<1>7. TypeOK'
  BY <1>1, <1>3, VectorAssumption DEF IInv, TypeOK
<1>8. Control'
  BY <1>1, <1>4 DEF IInv, Control
<1>9. IInv'
  BY <1>1, <1>5, <1>6, <1>7, <1>8 DEF IInv, Shape
<1>10. ASSUME NEW v \in held PROVE SameVector(v)
  <2>1. length[v] \in Nat
    BY HeldPlaced, SomeBlocks, Facts DEF IInv
  <2> QED
    BY <1>1, <2>1 DEF SameVector, Datum
<1>11. Contents' = Contents
  BY <1>1, <1>10, Calm
<1> QED
  BY <1>9, <1>11 DEF Good

\* A block moves from q = cur down to p = prev.
LEMMA MoveBlockStep == ASSUME IInv, MoveBlock, ~Harm PROVE Good
<1>1. PICK p, q, n, o : p = prev /\ q = cur /\ n = SizeOf(cur) /\ o = Owner(cur)
  OBVIOUS
<1>2. /\ AtBlock /\ PrevIsFree /\ Used(vector_heap, q) /\ pc = "compact"
      /\ UNCHANGED <<isVector, length, vector_free_cells, held, pc, want, reg4>>
  BY <1>1 DEF MoveBlock, AtBlock
<1>3. PICK A, B, g : Walk(A, B, g)
  BY <1>2 DEF IInv, Shape
<1>4. /\ CurSize = n /\ q \in B /\ q \notin A /\ A \subseteq Nat /\ B \subseteq Nat
      /\ q \in Nat /\ n \in Nat \ {0} /\ q + n <= vector_free_cells /\ q + n \in 0 .. V
      /\ q \in Address /\ vector_free_cells \in Nat
      /\ \A d \in B : d # q => q + n <= d
      /\ Chain(B \ {q}, q + n, vector_free_cells)
  BY <1>1, <1>2, <1>3, AtHeader
<1>5. p = g /\ p < q /\ p \notin A /\ p \in Nat
  BY <1>1, <1>2, <1>3, AtGap, AtHeader
<1>6. p + n <= q
  <2>1. ~(p + n > q)
    BY <1>1, <1>2, <1>4 DEF Harm, MovesOntoItself
  <2> QED
    BY <1>4, <1>5, <2>1
<1>7. /\ start' = [start EXCEPT ![o] = p + 1] /\ prev' = p + n /\ cur' = q + n
      /\ vector_heap' = SetFree(Forward(p, q, n), q)
  BY <1>1, <1>4, <1>5, <1>6, CopyOrder DEF MoveBlock, Owner
<1>8. V \in Nat /\ p \in Address /\ p + n \in Address /\ p + 1 \in 0 .. V
  <2>1. V \in Nat /\ q < V
    BY <1>4, Constants
  <2>2. p < V /\ p + n < V
    BY <1>4, <1>5, <1>6, <2>1
  <2> QED
    BY <1>4, <1>5, <2>1, <2>2, Constants
<1>9. /\ o \in Placed /\ start[o] = q + 1 /\ o \in Object
      /\ Placed' = Placed /\ Placed \subseteq Object
      /\ BlocksOK(A \cup B) /\ TypeOK
      /\ vector_heap \in [Address -> [1 .. 3 -> Object \cup Nat]]
      /\ start \in [Object -> 0 .. V]
  <2>1. o \in Placed /\ start[o] = q + 1
    BY <1>1, <1>2, <1>3, <1>4 DEF Walk, BlocksOK, HeaderOK
  <2>2. Placed \subseteq Object /\ Placed' = Placed
    BY <1>2 DEF IInv, TypeOK, Placed
  <2> QED
    BY <1>3, <2>1, <2>2 DEF IInv, TypeOK, HeapOK, Walk
<1>10. \A c \in p .. p+n-1 : c \in Address /\ q + c - p \in Address /\ c # q /\ c \in Nat
  <2>1. ASSUME NEW c \in p .. p+n-1 PROVE c \in Address /\ q + c - p \in Address /\ c # q /\ c \in Nat
    <3>1. c \in Nat /\ p <= c /\ c < p + n /\ q + c - p \in Nat /\ q + c - p < q + n
      BY <1>4, <1>5
    <3>2. c < q /\ c < V /\ q + c - p < V
      BY <1>4, <1>5, <1>6, <1>8, <3>1
    <3> QED
      BY <1>4, <3>1, <3>2, Constants
  <2> QED
    BY <2>1
<1> DEFINE F == Forward(p, q, n)
<1>11. F \in [Address -> [1 .. 3 -> Object \cup Nat]] /\ F[q] = vector_heap[q]
  BY <1>4, <1>9, <1>10 DEF Forward
<1>12. /\ vector_heap' \in [Address -> [1 .. 3 -> Object \cup Nat]]
       /\ \A c \in p .. p+n-1 : vector_heap'[c] = vector_heap[q + c - p]
       /\ \A c \in Address : c \notin p .. p+n-1 /\ c # q => vector_heap'[c] = vector_heap[c]
  <2>1. /\ vector_heap' \in [Address -> [1 .. 3 -> Object \cup Nat]]
        /\ \A c \in Address \ {q} : vector_heap'[c] = F[c]
    <3> HIDE DEF F
    <3>1. vector_heap' = SetFree(F, q)
      BY <1>7 DEF F
    <3> QED
      BY <1>4, <1>11, <3>1, SetFreeIs
  <2>2. \A c \in p .. p+n-1 : F[c] = vector_heap[q + c - p]
    BY <1>10 DEF Forward
  <2>3. \A c \in Address : c \notin p .. p+n-1 => F[c] = vector_heap[c]
    BY DEF Forward
  <2> HIDE DEF F
  <2> QED
    BY <1>10, <2>1, <2>2, <2>3
<1> HIDE DEF F
<1> DEFINE H == (A \cup {p}) \cup (B \ {q})
<1>13. /\ \A c \in A : c \in Address /\ c \in Nat /\ c < p /\ c + SizeOf(c) <= p
                       /\ c + SizeOf(c) \in A \cup {p} /\ SizeOf(c) \in Nat \ {0}
       /\ \A c \in B \ {q} : c \in Address /\ c \in Nat /\ q + n <= c
       /\ 0 \in A \cup {p}
  <2>1. ASSUME NEW c \in A
        PROVE  /\ c \in Address /\ c \in Nat /\ c < p /\ c + SizeOf(c) <= p
               /\ c + SizeOf(c) \in A \cup {p} /\ SizeOf(c) \in Nat \ {0}
    <3>1. c \in Address /\ c \in Nat /\ SizeOf(c) \in Nat \ {0}
      BY <1>4, <1>9 DEF BlocksOK, HeaderOK
    <3>2. \A d \in A : d < p /\ d + SizeOf(d) \in A \cup {p}
      BY <1>3, <1>5 DEF Walk, Chain
    <3>3. PICK e : e = c + SizeOf(c)
      OBVIOUS
    <3>4. e <= p
      <4>1. CASE e \in A
        BY <1>4, <1>5, <3>2, <4>1, <1>9 DEF BlocksOK
      <4>2. CASE e = p
        BY <1>4, <1>5, <4>2
      <4> QED
        BY <3>2, <3>3, <4>1, <4>2
    <3> QED
      BY <3>1, <3>2, <3>3, <3>4
  <2>2. \A c \in B \ {q} : c \in Address /\ c \in Nat /\ q + n <= c
    BY <1>4, <1>9 DEF BlocksOK
  <2>3. 0 \in A \cup {p}
    BY <1>3, <1>5 DEF Walk, Chain
  <2> QED
    BY <2>1, <2>2, <2>3
<1>14. \A c \in A \cup (B \ {q}) : vector_heap'[c] = vector_heap[c]
  <2>1. ASSUME NEW c \in A \cup (B \ {q}) PROVE c \in Address /\ c \notin p .. p+n-1 /\ c # q
    <3>1. CASE c \in A
      BY <1>4, <1>5, <1>13, <3>1
    <3>2. CASE c \in B \ {q}
      <4>1. c \in Address /\ c \in Nat /\ q + n <= c
        BY <1>13, <3>2
      <4>2. ~(c <= p + n - 1)
        BY <1>4, <1>5, <1>6, <4>1
      <4> QED
        BY <3>2, <4>1, <4>2
    <3> QED
      BY <3>1, <3>2
  <2> QED
    BY <1>12, <2>1
<1>15. vector_heap'[p] = vector_heap[q]
  <2>1. p \in p .. p+n-1 /\ q + p - p = q
    BY <1>4, <1>5
  <2> QED
    BY <1>12, <2>1
<1>16. /\ \A c \in A \cup (B \ {q}) : /\ SizeOf(c)' = SizeOf(c) /\ Owner(c)' = Owner(c)
                                      /\ Used(vector_heap', c) <=> Used(vector_heap, c)
       /\ SizeOf(p)' = n /\ Owner(p)' = o /\ Used(vector_heap', p)
  BY <1>1, <1>2, <1>14, <1>15 DEF SizeOf, Owner, Used
<1>17. /\ start'[o] = p + 1
       /\ \A x \in Placed : x # o => start'[x] = start[x] /\ start[x] # q + 1
  BY <1>7, <1>9, Facts
<1>18. ASSUME NEW c \in A \cup (B \ {q}) PROVE HeaderOK(H, c)'
  <2>1. /\ SizeOf(c) \in Nat \ {0} /\ c + SizeOf(c) <= vector_free_cells
        /\ \A d \in A \cup B : c < d => c + SizeOf(c) <= d
        /\ Used(vector_heap, c) => Owner(c) \in Placed /\ start[Owner(c)] = c + 1
    BY <1>9 DEF BlocksOK, HeaderOK
  <2>2. c < p => c + SizeOf(c) <= p
    <3>1. CASE c \in A
      BY <1>13, <3>1
    <3>2. CASE c \in B \ {q}
      BY <1>4, <1>5, <1>6, <1>13, <3>2
    <3> QED
      BY <3>1, <3>2
  <2>3. \A d \in H : c < d => c + SizeOf(c) <= d
    BY <2>1, <2>2
  <2>4. ASSUME Used(vector_heap, c) PROVE Owner(c) \in Placed /\ start'[Owner(c)] = c + 1
    <3>1. PICK x : x = Owner(c)
      OBVIOUS
    <3>2. x \in Placed /\ start[x] = c + 1
      BY <2>1, <2>4, <3>1
    <3>3. x # o
      BY <1>4, <1>9, <1>13, <3>2
    <3> QED
      BY <1>17, <3>1, <3>2, <3>3
  <2> HIDE DEF H
  <2> QED
    BY <1>2, <1>9, <1>16, <2>1, <2>3, <2>4 DEF HeaderOK
<1>19. HeaderOK(H, p)'
  <2>1. p + n <= vector_free_cells
    BY <1>4, <1>5, <1>6
  <2>2. ASSUME NEW d \in H, p < d PROVE p + n <= d
    <3>1. d \in B \ {q}
      BY <1>5, <1>13, <2>2
    <3> QED
      BY <1>4, <1>5, <1>6, <1>13, <3>1
  <2> HIDE DEF H
  <2> QED
    BY <1>2, <1>4, <1>9, <1>16, <1>17, <2>1, <2>2 DEF HeaderOK
<1>20. ASSUME NEW x \in Placed PROVE VectorOK(H, x)'
  <2>1. VectorOK(A \cup B, x)
    BY <1>9 DEF BlocksOK
  <2>2. CASE x = o
    <3>1. start'[x] - 1 = p
      BY <1>5, <1>17, <2>2
    <3>2. start[x] - 1 = q
      BY <1>4, <1>9, <2>2
    <3>3. BlockSize(length[x]) = n /\ length[x] \in Lengths
      BY <1>1, <2>1, <3>2 DEF VectorOK
    <3> QED
      BY <1>2, <1>16, <2>2, <3>1, <3>3 DEF VectorOK
  <2>3. CASE x # o
    <3>1. start'[x] = start[x] /\ start[x] - 1 \in A \cup B /\ start[x] \in Nat /\ start[x] # q + 1
      BY <1>9, <1>17, <2>1, <2>3, Facts DEF VectorOK
    <3>2. start[x] - 1 # q
      BY <1>4, <3>1
    <3>3. start[x] - 1 \in A \cup (B \ {q})
      BY <3>1, <3>2
    <3> QED
      BY <1>2, <1>16, <2>1, <3>1, <3>3 DEF VectorOK
  <2> QED
    BY <2>2, <2>3
<1>21. BlocksOK(H)'
  <2>1. H \in SUBSET Address
    BY <1>8, <1>13
  <2>2. \A c \in H : HeaderOK(H, c)'
    BY <1>18, <1>19
  <2> HIDE DEF H
  <2> QED
    BY <1>9, <1>20, <2>1, <2>2 DEF BlocksOK
<1>22. Chain(A \cup {p}, 0, p + n)'
  <2>1. ASSUME NEW c \in A
        PROVE  0 <= c /\ c < p + n /\ c + SizeOf(c)' \in (A \cup {p}) \cup {p + n}
    BY <1>4, <1>5, <1>13, <1>16
  <2>2. 0 <= p /\ p < p + n /\ p + n \in Nat /\ p + SizeOf(p)' \in (A \cup {p}) \cup {p + n}
    BY <1>4, <1>5, <1>16
  <2>3. 0 \in (A \cup {p}) \cup {p + n}
    BY <1>13
  <2> QED
    BY <2>1, <2>2, <2>3 DEF Chain
<1>23. Chain(B \ {q}, cur, vector_free_cells)'
  BY <1>2, <1>4, <1>7, <1>16 DEF Chain
<1>24. Walk(A \cup {p}, B \ {q}, p + n)'
  <2>1. p + n <= q + n /\ p + n < q + n /\ p + n # Nothing
    BY <1>4, <1>5, <1>8, Constants
  <2>2. \A c \in A : Used(vector_heap, c)
    BY <1>3 DEF Walk
  <2>3. \A c \in A \cup {p} : Used(vector_heap', c)
    BY <1>16, <2>2
  <2> QED
    BY <1>2, <1>4, <1>7, <1>21, <1>22, <1>23, <2>1, <2>3 DEF Walk
<1>25. ASSUME NEW x \in Placed PROVE SameVector(x)
  <2>1. PICK w, s : w = BlockSize(length[x]) /\ s = start[x] - 1
    OBVIOUS
  <2>2. /\ length[x] \in Nat /\ w \in Nat \ {0} /\ s \in A \cup B /\ s \in Nat
        /\ SizeOf(s) = w /\ start[x] = s + 1
    <3>1. /\ length[x] \in Nat /\ w \in Nat \ {0} /\ s \in A \cup B /\ s \in Nat /\ start[x] \in Nat
      BY <1>9, <2>1, Facts
    <3>2. SizeOf(s) = w
      BY <1>9, <2>1 DEF BlocksOK, VectorOK
    <3> QED
      BY <2>1, <3>1, <3>2
  <2>3. ASSUME NEW k \in 0 .. w-2
        PROVE  vector_heap'[start'[x] + k] = vector_heap[start[x] + k]
    <3>1. k \in Nat /\ k <= w - 2
      BY <2>2
    <3>2. CASE x = o
      <4>1. s = q /\ w = n
        BY <1>1, <1>4, <1>9, <2>2, <3>2
      <4>2. p + 1 + k \in p .. p+n-1 /\ q + (p + 1 + k) - p = q + 1 + k
        BY <1>4, <1>5, <2>2, <3>1, <4>1
      <4> QED
        BY <1>9, <1>12, <1>17, <3>2, <4>2
    <3>3. CASE x # o
      <4>1. start'[x] = start[x] /\ s # q /\ s \in A \cup (B \ {q})
        BY <1>4, <1>17, <2>2, <3>3
      <4>2. start[x] + k \in Address /\ start[x] + k \notin A \cup B
        BY <1>9, <2>1, Facts
      <4>3. start[x] + k # q
        BY <1>4, <4>2
      <4>4. start[x] + k \notin p .. p+n-1
        <5>1. CASE s \in A
          <6>1. s + w <= p
            BY <1>13, <2>2, <5>1
          <6> QED
            BY <1>4, <1>5, <2>2, <3>1, <6>1
        <5>2. CASE s \in B \ {q}
          <6>1. q + n <= s
            BY <1>13, <5>2
          <6> QED
            BY <1>4, <1>5, <1>6, <2>2, <3>1, <6>1
        <5> QED
          BY <4>1, <5>1, <5>2
      <4> QED
        BY <1>12, <4>1, <4>2, <4>3, <4>4
    <3> QED
      BY <3>2, <3>3
  <2> QED
    BY <1>2, <2>1, <2>2, <2>3 DEF SameVector, Datum
<1>26. HeapOK'
  BY <1>12 DEF HeapOK
<1>27. TypeOK'
  <2>1. start' \in [Object -> 0 .. V]
    BY <1>7, <1>8, <1>9
  <2> QED
    BY <1>2, <1>4, <1>7, <1>8, <1>12, <2>1 DEF IInv, TypeOK
<1>28. Control'
  BY <1>2, <1>9 DEF IInv, Control
<1>29. IInv'
  BY <1>2, <1>24, <1>26, <1>27, <1>28 DEF IInv, Shape
<1>30. Contents' = Contents
  BY <1>2, <1>25, HeldPlaced, Calm
<1> QED
  BY <1>29, <1>30 DEF Good

-----------------------------------------------------------------------------
LEMMA StutterStep == ASSUME IInv, UNCHANGED vars PROVE Good
<1>1. UNCHANGED <<isVector, start, length, vector_heap, vector_free_cells, held, pc, want, reg4,
                  cur, prev>>
  BY DEF vars
<1>2. TypeOK' /\ HeapOK' /\ Control'
  BY <1>1 DEF IInv, TypeOK, HeapOK, Control, Placed
<1>3. Shape'
  BY <1>1 DEF IInv, Shape, Filled, Walk, BlocksOK, HeaderOK, VectorOK, Chain, Placed, SizeOf, Owner
<1>4. Contents' = Contents
  BY <1>1 DEF Contents, Content, GetByte
<1> QED
  BY <1>2, <1>3, <1>4 DEF IInv, Good

Reclaims ==
  EndCompaction =>
    /\ ~AtBlock
    /\ \A c \in 0 .. vector_free_cells'-1 : \E v \in held : c \in Blocks(v)

LEMMA ReclaimStep == ASSUME IInv, ~Harm PROVE Reclaims
<1> SUFFICES ASSUME EndCompaction
             PROVE  /\ ~AtBlock
                    /\ \A c \in 0 .. vector_free_cells'-1 : \E v \in held : c \in Blocks(v)
  BY DEF Reclaims
<1>1. pc = "compact"
  BY DEF EndCompaction
<1>2. PICK A, B, g : Walk(A, B, g)
  BY <1>1 DEF IInv, Shape
<1>3. ~AtBlock /\ vector_free_cells' = g
  BY <1>2, AtEnd
<1>4. ASSUME NEW c \in 0 .. vector_free_cells'-1 PROVE \E v \in held : c \in Blocks(v)
  BY <1>1, <1>2, <1>3, Covered
<1> QED
  BY <1>3, <1>4

LEMMA NextKeeps ==
  IInv /\ [Next]_vars /\ [~Harm]_vars => IInv' /\ [Store!Next]_Contents /\ [Reclaims]_vars
<1>1. ASSUME IInv, UNCHANGED vars PROVE Good
  BY <1>1, StutterStep
<1>2. ASSUME IInv, Next, ~Harm PROVE Good
  BY <1>2, SetByteStep, ForgetStep, MakeVectorStep, NewObjectStep, CollectForObjectStep,
     NewBlockStep, NoRoomStep, MergeFreeStep, MoveBlockStep, NextBlockStep, EndCompactionStep
  DEF Next, NewVector, Compact
<1>3. ASSUME IInv, ~Harm PROVE Reclaims
  BY <1>3, ReclaimStep
<1> QED
  BY <1>1, <1>2, <1>3 DEF Good

LEMMA Always ==
  Spec /\ UntilHarm => []IInv /\ [][Store!Next]_Contents /\ [][Reclaims]_vars
<1>1. Init => IInv
  BY InitKeeps
<1>2. IInv /\ [Next]_vars /\ [~Harm]_vars => IInv' /\ [Store!Next]_Contents /\ [Reclaims]_vars
  BY NextKeeps
<1> QED
  BY <1>1, <1>2, PTL DEF Spec, UntilHarm

\* The vectors of the program and the walk of the compaction stay within
\* their bounds: the walk leaves the space only after Harm.
THEOREM VectorTypeOK == Spec /\ UntilHarm => []TypeOK
<1>1. IInv => TypeOK
  BY DEF IInv
<1> QED
  BY <1>1, Always, PTL

(***************************************************************************)
(* Whenever the program runs, each vector that it holds has a block of its *)
(* own in the used part, and a header that gives its size and leads back:  *)
(* what new_vector, the sweep and mm_compact_vector_space rely on when     *)
(* they walk from header to header.                                        *)
(***************************************************************************)
THEOREM VectorBlocksSound == Spec /\ UntilHarm => []BlocksSound
<1>1. ASSUME IInv, pc = "run", NEW v \in held
      PROVE  /\ Blocks(v) \subseteq 0 .. vector_free_cells-1
             /\ vector_heap[start[v]-1] = Header(v, BlockSize(length[v]), 1)
             /\ \A w \in held \ {v} : Blocks(v) \cap Blocks(w) = {}
  <2>1. PICK H : BlocksOK(H)
    BY <1>1, SomeBlocks
  <2>2. vector_free_cells \in Nat /\ held \subseteq Placed
    BY <1>1, VectorAssumption, HeldPlaced DEF IInv, TypeOK
  <2>3. ASSUME NEW x \in held
        PROVE  /\ start[x] - 1 \in Nat /\ start[x] - 1 \in H /\ BlockSize(length[x]) \in Nat \ {0}
               /\ start[x] - 1 + BlockSize(length[x]) <= vector_free_cells
               /\ SizeOf(start[x] - 1) = BlockSize(length[x])
               /\ Blocks(x) = start[x]-1 .. (start[x]-1) + BlockSize(length[x]) - 1
    <3>1. x \in Placed /\ VectorOK(H, x)
      BY <2>1, <2>2 DEF BlocksOK
    <3>2. /\ start[x] \in Nat /\ start[x] - 1 \in Nat /\ BlockSize(length[x]) \in Nat \ {0}
          /\ start[x] - 1 + BlockSize(length[x]) <= vector_free_cells
      BY <1>1, <2>1, <3>1, Facts DEF IInv
    <3>3. start[x] + BlockSize(length[x]) - 2 = (start[x]-1) + BlockSize(length[x]) - 1
      BY <3>2
    <3> QED
      BY <3>1, <3>2, <3>3 DEF VectorOK, Blocks
  <2>4. Blocks(v) \subseteq 0 .. vector_free_cells-1
    BY <2>2, <2>3
  <2>5. vector_heap[start[v]-1] = Header(v, BlockSize(length[v]), 1)
    <3>1. VectorOK(H, v) /\ start[v]-1 \in Address
      BY <2>1, <2>2 DEF BlocksOK, VectorOK
    <3>2. vector_heap[start[v]-1] \in [1 .. 3 -> Object \cup Nat]
      BY <1>1, <3>1 DEF IInv, HeapOK
    <3>3. vector_heap[start[v]-1] = <<v, BlockSize(length[v]), 1>>
      BY <3>1, <3>2 DEF VectorOK, Used, SizeOf, Owner
    <3> QED
      BY <3>3 DEF Header
  <2>6. ASSUME NEW w \in held \ {v} PROVE Blocks(v) \cap Blocks(w) = {}
    <3>1. PICK a, b, m, n : /\ a = start[v] - 1 /\ b = start[w] - 1
                            /\ m = BlockSize(length[v]) /\ n = BlockSize(length[w])
      OBVIOUS
    <3>2. /\ a \in Nat /\ b \in Nat /\ m \in Nat \ {0} /\ n \in Nat \ {0} /\ a \in H /\ b \in H
          /\ SizeOf(a) = m /\ SizeOf(b) = n
          /\ Blocks(v) = a .. a + m - 1 /\ Blocks(w) = b .. b + n - 1
      BY <2>3, <3>1
    <3>3. a # b
      BY <2>1, <2>2, <3>1 DEF BlocksOK, VectorOK
    <3>4. (a < b => a + m <= b) /\ (b < a => b + n <= a)
      BY <2>1, <3>2 DEF BlocksOK, HeaderOK
    <3> QED
      BY <3>2, <3>3, <3>4
  <2> QED
    BY <2>4, <2>5, <2>6
<1>2. IInv => BlocksSound
  BY <1>1 DEF BlocksSound
<1> QED
  BY <1>2, Always, PTL

(***************************************************************************)
(* Every vector that the program holds keeps its bytes through each        *)
(* allocation, collection and step of a compaction, over blocks of any     *)
(* sizes.  A block that would move onto itself is Harm: the others move to *)
(* an area of their own, where memcpy has one outcome (CopyOrder).         *)
(***************************************************************************)
THEOREM VectorKeepsContents == Spec /\ UntilHarm => KeepsContents
<1>1. Init => Store!Init
  BY InitKeeps
<1> QED
  BY <1>1, Always, PTL DEF KeepsContents, Store!Spec, Spec

(***************************************************************************)
(* A compaction ends, with no cell unused in front of the free part, so    *)
(* new_vector stops the program for want of room only when the vectors     *)
(* that it holds leave none.                                               *)
(***************************************************************************)
THEOREM VectorSpaceReclaimed == Spec /\ UntilHarm => SpaceReclaimed
<1>1. [Reclaims]_vars =>
        [EndCompaction =>
           /\ ~AtBlock
           /\ \A c \in 0 .. vector_free_cells'-1 : \E v \in held : c \in Blocks(v)]_vars
  BY DEF Reclaims
<1> QED
  BY <1>1, Always, PTL DEF SpaceReclaimed

=============================================================================
