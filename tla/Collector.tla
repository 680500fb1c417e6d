----------------------------- MODULE Collector -----------------------------
(***************************************************************************)
(* What a garbage collection promises (mm_gc, src/main/mm.c:253): in one   *)
(* step every cell that no root reaches is on the free list, in order of   *)
(* address, the other cells are as they were, and no mark is left.         *)
(***************************************************************************)
EXTENDS Cells

VARIABLES collected, type, car, cdr, marked, free_cells, released, roots

vars == <<collected, type, car, cdr, marked, free_cells, released, roots>>

Garbage ==
  Unmarked(Reach(roots, Links(type, car, cdr)))

Init == ~collected /\ marked = {} /\ free_cells = NIL /\ released = {}

Collect ==
  /\ ~collected /\ collected'
  /\ type' = SweptType(type, Garbage)
  /\ cdr' = SweptCdr(cdr, Garbage)
  /\ free_cells' = SweptHead(Garbage)
  /\ released' = {c \in Garbage : type[c] = "VECTOR"}
  /\ UNCHANGED <<car, marked, roots>>

Spec == Init /\ [][Collect]_vars

=============================================================================
