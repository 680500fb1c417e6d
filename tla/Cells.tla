------------------------------- MODULE Cells -------------------------------
(***************************************************************************)
(* The RAM heap of the PICOBIT virtual machine as data: cell types, link   *)
(* fields, reachability, and the free list that a sweep leaves behind      *)
(* (src/main/include/vm_arch.h, src/main/mm.c).                            *)
(*                                                                         *)
(* A cell has a type, a car field and a cdr field.  What a field means     *)
(* depends on the type: it holds a link, or raw data (a code address, a    *)
(* digit, a length) that only happens to look like one.  A field value is  *)
(* a cell address, NIL, or an immediate (a small integer, a boolean, a ROM *)
(* constant, a code address), all of which lie above ram_heap_end.         *)
(***************************************************************************)
EXTENDS Naturals

CONSTANTS
  N,         \* ram_heap_end: the number of cells of the RAM heap
  Reserved,  \* reserved_cells_count: the cells that hold the globals
  NIL,       \* 0xFFFF
  Imm        \* the other values at or above ram_heap_end

ASSUME SizesAssumption == N \in Nat \ {0} /\ Reserved \in 0 .. N-1

Cell == 0 .. N-1

ASSUME ValuesAssumption ==
  /\ NIL \notin Cell
  /\ Imm \cap Cell = {}
  /\ NIL \notin Imm

Value == Cell \cup Imm \cup {NIL}

\* The values of a link that is followed no further.
Leaf == Imm \cup {NIL}

CellType == {"CONS", "CONTINUATION", "CLOSURE", "BIGNUM", "STRING",
             "FIXNUM", "CSTRING", "VECTOR", "SYMBOL"}

\* car is a link.
HasLeftLink(t) == t \in {"CONS", "CONTINUATION", "CLOSURE", "BIGNUM", "STRING"}

\* cdr is a link.
HasRightLink(t) == t \in {"CONS", "CONTINUATION"}

\* The links: pairs of a cell and a cell that it points to.
Links(type, car, cdr) ==
  LET left  == {c \in Cell : HasLeftLink(type[c]) /\ car[c] \in Cell}
      right == {c \in Cell : HasRightLink(type[c]) /\ cdr[c] \in Cell}
  IN  {<<c, car[c]>> : c \in left} \cup {<<c, cdr[c]>> : c \in right}

(***************************************************************************)
(* Reachability.  E is a set of links, R a set of values to start from.    *)
(* What is reachable is what lies in every set of cells that contains R    *)
(* and is closed under E.  (The singletons make TLC compute R, E and the   *)
(* closed sets once instead of at every use.)                              *)
(***************************************************************************)
Closed(X, E) == \A e \in E : e[1] \in X => e[2] \in X

Supersets(R) == {X \cup (R \cap Cell) : X \in SUBSET (Cell \ R)}

ClosedSets(R, E) == {X \in Supersets(R) : Closed(X, E)}

Reach(R, E) ==
  UNION {{c \in Cell : \A X \in S : c \in X} :
           S \in {ClosedSets(r, e) : r \in {R}, e \in {E}}}

(***************************************************************************)
(* The free list after a sweep (mm_sweep).  It visits the cells from the   *)
(* highest address down to Reserved and pushes every unmarked one, so the  *)
(* list is in increasing order of address.                                 *)
(***************************************************************************)
Least(S) == CHOOSE x \in S : \A y \in S : x <= y

Unmarked(marked) == {p \in Reserved .. N-1 : p \notin marked}

SweptHead(U) == IF U = {} THEN NIL ELSE Least(U)

SweptNext(U, p) == SweptHead({q \in U : q > p})

SweptCdr(cdr, U) == [p \in Cell |-> IF p \in U THEN SweptNext(U, p) ELSE cdr[p]]

\* A vector cell that is swept becomes a pair, its block of bytes is released.
SweptType(type, U) ==
  [p \in Cell |-> IF p \in U /\ type[p] = "VECTOR" THEN "CONS" ELSE type[p]]

=============================================================================
