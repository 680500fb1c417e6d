-------------------------------- MODULE Heap --------------------------------
(***************************************************************************)
(* The memory manager of src/main/mm.c between two of its calls: the RAM   *)
(* cells, the registers that keep them alive, the free list threaded       *)
(* through the cdr of the free cells, and the contract that the code which *)
(* uses it has to respect (the "golden rules" of vm_arch.h:653-675).       *)
(*                                                                         *)
(* HSpec is that contract: any behaviour in which cells are allocated,     *)
(* linked, released and collected under it.  VM refines it with the        *)
(* instructions of the interpreter; HeapProofs shows what it guarantees.   *)
(***************************************************************************)
EXTENDS Cells

VARIABLES
  type, car, cdr,  \* the cells
  free_cells,      \* head of the free list
  reg,             \* env, cont, reg1 .. reg4
  stale            \* ghost: continuations that were resumed, whose
                   \* environment belongs to the running frame again

hvars == <<type, car, cdr, free_cells, reg, stale>>

Register == {"env", "cont", "reg1", "reg2", "reg3", "reg4"}

-----------------------------------------------------------------------------
\* Mutant: a register that mm_gc does not mark.
RootsButReg4 == (0 .. Reserved-1) \cup {reg[r] : r \in Register \ {"reg4"}}

\* What mm_gc marks from: mm.c:270-279.
Roots == (0 .. Reserved-1) \cup {reg[r] : r \in Register}

\* All the links, and those that a running program may still follow.
Edges     == Links(type, car, cdr)
LiveEdges == {e \in Edges : e[1] \notin stale}

Live == Reach(Roots, LiveEdges)

\* A value that the program holds: it can be stored and followed.
LiveValue == Live \cup Leaf

\* The cells on the free list.
NextFree   == {<<c, cdr[c]>> : c \in {c \in Cell : cdr[c] \in Cell}}
OnFreeList == Reach({free_cells}, NextFree)

-----------------------------------------------------------------------------
(* The operations of the memory manager.                                   *)

\* mm_new_ram_cell followed by the stores of new_pair, new_closure, new_cont:
\* the head of the free list leaves it.
NewCell(t, a, d) ==
  /\ free_cells \in Cell
  /\ free_cells' = cdr[free_cells]
  /\ type' = [type EXCEPT ![free_cells] = t]
  /\ car' = [car EXCEPT ![free_cells] = a]
  /\ cdr' = [cdr EXCEPT ![free_cells] = d]
  /\ stale' = stale \ {free_cells}

\* return_to_free_list(f), the cdr of the other cells becoming c.
ReturnToFreeList(f, c) ==
  /\ type' = [type EXCEPT ![f] = "CONS"]
  /\ cdr' = [c EXCEPT ![f] = free_cells]
  /\ free_cells' = f

\* mm_gc: see Collector and MarkSweep.
CollectGarbage ==
  \E U \in {Unmarked(Reach(Roots, Edges))} :
    /\ type' = SweptType(type, U)
    /\ cdr' = SweptCdr(cdr, U)
    /\ free_cells' = SweptHead(U)
    /\ stale' = stale \ U
    /\ UNCHANGED <<car, reg>>

-----------------------------------------------------------------------------
(* The contract.                                                           *)

\* mm_init: the heap is zeroed, the globals are NIL, all else is free.
HInit ==
  LET U == Reserved .. N-1
  IN  /\ type = [c \in Cell |-> "CONS"]
      /\ car = [c \in Cell |-> IF c \in U THEN 0 ELSE NIL]
      /\ cdr = [c \in Cell |-> IF c \in U THEN SweptNext(U, c) ELSE NIL]
      /\ free_cells = SweptHead(U)
      /\ reg = [r \in Register |-> NIL]
      /\ stale = {}

\* Links are only written into live cells, and only to live values.
WritesLive(L, except) ==
  /\ car' \in [Cell -> Value] /\ cdr' \in [Cell -> Value]
  /\ \A c \in Cell \ {except} :
       /\ car'[c] # car[c] => c \in L /\ car'[c] \in L \cup Leaf
       /\ cdr'[c] # cdr[c] => c \in L /\ cdr'[c] \in L \cup Leaf

\* A new cell holds live values where its type has links.
HNew ==
  LET p == free_cells
  IN  /\ NewCell(type'[p], car'[p], cdr'[p])
      /\ type' \in [Cell -> CellType]
      /\ car' \in [Cell -> Value] /\ cdr' \in [Cell -> Value]
      /\ \E LV \in {LiveValue} :
           /\ HasLeftLink(type'[p]) => car'[p] \in LV
           /\ HasRightLink(type'[p]) => cdr'[p] \in LV
           /\ reg' \in [Register -> LV \cup {p}]

\* Registers and links are moved around.
HMutate ==
  /\ UNCHANGED <<type, free_cells>>
  /\ \E L \in {Live} : WritesLive(L, NIL) /\ reg' \in [Register -> L \cup Leaf]
  /\ stale \subseteq stale' /\ stale' \subseteq Cell

\* The cell of env goes back to the free list; nothing may lead to it any more.
HRelease ==
  LET f == reg["env"]
  IN  /\ f \in Reserved .. N-1
      /\ type' = [type EXCEPT ![f] = "CONS"]
      /\ free_cells' = f
      /\ \E L \in {Live} : WritesLive(L, f) /\ reg' \in [Register -> L \cup Leaf]
      /\ car'[f] = car[f] /\ cdr'[f] = free_cells
      /\ stale \subseteq stale' /\ stale' \subseteq Cell
      /\ f \notin Live'

HNext == HNew \/ HMutate \/ HRelease \/ CollectGarbage

HSpec == HInit /\ [][HNext]_hvars

-----------------------------------------------------------------------------
(* What it guarantees.                                                     *)

\* Cells, registers and the free list hold values of the right kind.
HTypeOK ==
  /\ type \in [Cell -> CellType]
  /\ car \in [Cell -> Value]
  /\ cdr \in [Cell -> Value]
  /\ free_cells \in Cell \cup {NIL}
  /\ reg \in [Register -> Value]
  /\ stale \subseteq Cell

(***************************************************************************)
(* No cell that the program can still reach is on the free list, where the *)
(* next allocation would overwrite it (pop frees the cells of the stack    *)
(* one by one without looking for other references, vm_arch.c:56).         *)
(***************************************************************************)
LiveNotFree == Live \cap OnFreeList = {}

(***************************************************************************)
(* The globals are never on the free list, and the list has one end: it    *)
(* does not loop back into itself.                                         *)
(***************************************************************************)
FreeListSound ==
  LET F == OnFreeList
      E == NextFree
  IN  /\ F \subseteq Reserved .. N-1
      /\ \A p \in F : p \notin Reach({cdr[p]}, E)

=============================================================================
