----------------------------- MODULE MarkSweep -----------------------------
(***************************************************************************)
(* mm_gc() of src/main/mm.c, one loop iteration per step: mm_mark by       *)
(* pointer reversal (Deutsch-Schorr-Waite) from every root in turn, then   *)
(* mm_sweep.  The heap and the roots are chosen by Init: the collector has *)
(* to do its work on every one of them.                                    *)
(*                                                                         *)
(* While mm_mark descends it has no stack.  The way back to the root is    *)
(* kept in the heap: in the car of a cell whose left branch is being       *)
(* marked, and, when gc_flip is set, in the cdr of one whose right branch  *)
(* is.                                                                     *)
(***************************************************************************)
EXTENDS Cells, Sequences, SequencesExt

CONSTANTS
  Types,      \* the cell types that Init chooses from
  Registers   \* how many registers Init gives a value to

ASSUME TypesAssumption == Types \subseteq CellType /\ Registers \in Nat

VARIABLES
  type, car, cdr, mark, flip,  \* the cells and their flags
  free_cells,                  \* head of the free list
  released,                    \* vector cells whose block VECTOR_SET_FREE was called on
  pc,                          \* where mm_gc is
  todo,                        \* the roots still to be marked
  current, prev,               \* the locals of mm_mark
  p,                           \* the local of mm_sweep
  heap0                        \* the heap and roots before the collection

vars == <<type, car, cdr, mark, flip, free_cells, released, pc, todo,
          current, prev, p, heap0>>

Phases == {"next", "down", "up", "left", "sweep", "globals", "done"}

-----------------------------------------------------------------------------
\* The globals are marked first, then the registers: mm.c:270-279.
Roots(regs) == [i \in 1 .. Reserved |-> i - 1] \o regs

\* A length or an address in the vector space that looks like a cell.
RawData == N - 1

Init ==
  /\ type \in {f \in [Cell -> Types] : \A c \in 0 .. Reserved-1 : f[c] = "CONS"}
  /\ car \in [Cell -> Value]
  /\ cdr \in [Cell -> Value]
  /\ \A c \in Cell : type[c] = "VECTOR" => car[c] = RawData /\ cdr[c] = RawData
  /\ mark = [c \in Cell |-> FALSE]
  /\ flip = [c \in Cell |-> FALSE]
  /\ free_cells = NIL
  /\ released = {}
  /\ pc = "next"
  /\ \E regs \in [1 .. Registers -> Value] : todo = Roots(regs)
  /\ current = NIL
  /\ prev = NIL
  /\ p = 0
  /\ heap0 = [type |-> type, car |-> car, cdr |-> cdr, roots |-> ToSet(todo)]

\* mm_mark is called on the next root, or all are marked and mm_sweep starts.
NextRoot ==
  /\ pc = "next"
  /\ IF todo = << >>
     THEN pc' = "sweep" /\ p' = N - 1 /\ UNCHANGED <<todo, current, prev>>
     ELSE /\ pc' = "down"
          /\ current' = Head(todo) /\ prev' = NIL
          /\ todo' = Tail(todo)
          /\ p' = p
  /\ UNCHANGED <<type, car, cdr, mark, flip, free_cells, released, heap0>>

\* Mutant: the mark bit is not looked at.
InHeap(v) == v \in Cell

(***************************************************************************)
(* mm_mark's body is an endless loop around three inner ones.  pc names    *)
(* the loop the last step was in; when that loop's condition fails the     *)
(* next one is tested at once, so At... says which one takes the step.     *)
(***************************************************************************)
Unvisited(v) == v \in Cell /\ ~mark[v]
NoRightLink(v) == v \in Cell /\ ~HasRightLink(type[v])

AtDown == pc = "down" \/ (pc = "left" /\ ~NoRightLink(prev))
AtUp   == pc = "up" \/ (AtDown /\ ~Unvisited(current))
AtTurn == AtUp /\ ~(prev \in Cell /\ flip[prev])

\* One round of the loop that marks down the car links: mm.c:118-129.
MarkDown ==
  /\ AtDown /\ Unvisited(current)
  /\ pc' = "down"
  /\ mark' = [mark EXCEPT ![current] = TRUE]
  /\ IF HasLeftLink(type[current])
     THEN /\ car' = [car EXCEPT ![current] = prev]
          /\ prev' = current
          /\ current' = car[current]
     ELSE UNCHANGED <<car, prev, current>>
  /\ UNCHANGED <<type, cdr, flip, free_cells, released, todo, p, heap0>>

\* Mutant: the flip bit is left set.
UpRightFlipped ==
  /\ AtUp /\ prev \in Cell /\ flip[prev]
  /\ pc' = "up"
  /\ cdr' = [cdr EXCEPT ![prev] = current]
  /\ current' = prev
  /\ prev' = cdr[prev]
  /\ UNCHANGED <<type, car, mark, flip, free_cells, released, todo, p, heap0>>

\* The right branch of prev is complete, go up through its cdr: mm.c:134-140.
UpRight ==
  /\ AtUp /\ prev \in Cell /\ flip[prev]
  /\ pc' = "up"
  /\ flip' = [flip EXCEPT ![prev] = FALSE]
  /\ cdr' = [cdr EXCEPT ![prev] = current]
  /\ current' = prev
  /\ prev' = cdr[prev]
  /\ UNCHANGED <<type, car, mark, free_cells, released, todo, p, heap0>>

\* The way back has reached the root: mm_mark returns (mm.c:142).
MarkReturn ==
  /\ AtTurn /\ prev \notin Cell
  /\ pc' = "next"
  /\ UNCHANGED <<type, car, cdr, mark, flip, free_cells, released, todo,
                 current, prev, p, heap0>>

\* Mutant: the way back is not moved from the car to the cdr.
TurnRightLost ==
  /\ AtTurn /\ prev \in Cell /\ HasRightLink(type[prev])
  /\ pc' = "down"
  /\ car' = [car EXCEPT ![prev] = current]
  /\ flip' = [flip EXCEPT ![prev] = TRUE]
  /\ current' = cdr[prev]
  /\ UNCHANGED <<type, cdr, mark, free_cells, released, todo, prev, p, heap0>>

\* The left branch of prev is complete, go down its right link: mm.c:146-152.
TurnRight ==
  /\ AtTurn /\ prev \in Cell /\ HasRightLink(type[prev])
  /\ pc' = "down"
  /\ car' = [car EXCEPT ![prev] = current]
  /\ flip' = [flip EXCEPT ![prev] = TRUE]
  /\ current' = cdr[prev]
  /\ cdr' = [cdr EXCEPT ![prev] = car[prev]]
  /\ UNCHANGED <<type, mark, free_cells, released, todo, prev, p, heap0>>

\* prev has no right link, go up through its car: mm.c:153-161.
UpLeft ==
  /\ AtTurn \/ pc = "left"
  /\ NoRightLink(prev)
  /\ pc' = "left"
  /\ car' = [car EXCEPT ![prev] = current]
  /\ current' = prev
  /\ prev' = car[prev]
  /\ UNCHANGED <<type, cdr, mark, flip, free_cells, released, todo, p, heap0>>

\* Mutant: the last cell above the globals is not swept.
SweepCellShort ==
  /\ pc = "sweep"
  /\ IF mark[p]
     THEN mark' = [mark EXCEPT ![p] = FALSE] /\ UNCHANGED <<cdr, free_cells>>
     ELSE cdr' = [cdr EXCEPT ![p] = free_cells] /\ free_cells' = p /\ mark' = mark
  /\ p' = p - 1
  /\ pc' = IF p > Reserved + 1 THEN pc ELSE "globals"
  /\ UNCHANGED <<type, car, flip, released, todo, current, prev, heap0>>

\* One round of mm_sweep's loop over the cells that can be freed: mm.c:204-224.
SweepCell ==
  /\ pc = "sweep"
  /\ IF mark[p]
     THEN /\ mark' = [mark EXCEPT ![p] = FALSE]
          /\ UNCHANGED <<type, cdr, free_cells, released>>
     ELSE /\ IF type[p] = "VECTOR"
             THEN /\ released' = released \cup {p}
                  /\ type' = [type EXCEPT ![p] = "CONS"]
             ELSE UNCHANGED <<released, type>>
          /\ cdr' = [cdr EXCEPT ![p] = free_cells]
          /\ free_cells' = p
          /\ mark' = mark
  /\ IF p > Reserved
     THEN p' = p - 1 /\ pc' = pc
     ELSE IF Reserved > 0
          THEN p' = p - 1 /\ pc' = "globals"
          ELSE p' = p /\ pc' = "done"
  /\ UNCHANGED <<car, flip, todo, current, prev, heap0>>

\* Mutant: the loop ends one cell too late.
SweepBelow ==
  /\ pc = "globals"
  /\ p >= 0
  /\ mark' = [mark EXCEPT ![p] = FALSE]
  /\ p' = p - 1
  /\ UNCHANGED <<type, car, cdr, flip, free_cells, released, pc, todo, current,
                 prev, heap0>>

\* The mark bits of the globals are cleared: mm.c:227-231.
SweepGlobal ==
  /\ pc = "globals"
  /\ mark' = [mark EXCEPT ![p] = FALSE]
  /\ IF p > 0 THEN p' = p - 1 /\ pc' = pc ELSE p' = p /\ pc' = "done"
  /\ UNCHANGED <<type, car, cdr, flip, free_cells, released, todo, current,
                 prev, heap0>>

Next == \/ NextRoot \/ MarkDown \/ UpRight \/ MarkReturn \/ TurnRight \/ UpLeft
        \/ SweepCell \/ SweepGlobal

\* mm_gc is called and runs to its end in the interpreter's thread: nothing
\* else touches the heap, and its next step is always taken.
Spec == Init /\ [][Next]_vars /\ WF_vars(Next)

-----------------------------------------------------------------------------
\* The collector stays within the heap: the loops of mm_sweep, whose counter is
\* unsigned and is decremented after it is compared, never leave it.
TypeOK ==
  /\ type \in [Cell -> CellType]
  /\ car \in [Cell -> Value] /\ cdr \in [Cell -> Value]
  /\ mark \in [Cell -> BOOLEAN] /\ flip \in [Cell -> BOOLEAN]
  /\ free_cells \in Cell \cup {NIL}
  /\ released \subseteq Cell
  /\ pc \in Phases
  /\ todo \in Seq(Value)
  /\ current \in Value /\ prev \in Value
  /\ p \in Cell

Edges0 == Links(heap0.type, heap0.car, heap0.cdr)
Reachable0 == Reach(heap0.roots, Edges0)

(***************************************************************************)
(* w is the way back to the root, of n cells, the root first: every cell   *)
(* leads to the one above it, through its cdr if it is flipped, else       *)
(* through its car.  The link that was turned round led to the cell below. *)
(***************************************************************************)
Above(w, i)    == IF i = 1 THEN NIL ELSE w[i-1]
Below(n, w, i) == IF i = n THEN current ELSE w[i+1]

WayBack(n, w) ==
  /\ prev = Above(w, n + 1)
  /\ \A i, j \in 1 .. n : w[i] = w[j] => i = j
  /\ \A i \in 1 .. n : Above(w, i) = IF flip[w[i]] THEN cdr[w[i]] ELSE car[w[i]]

\* The heap is the original one once the links along w are put back.
Recovers(n, w) ==
  /\ \A c \in Cell \ {w[i] : i \in 1 .. n} : car[c] = heap0.car[c] /\ cdr[c] = heap0.cdr[c]
  /\ \A i \in 1 .. n :
       /\ heap0.car[w[i]] = IF flip[w[i]] THEN car[w[i]] ELSE Below(n, w, i)
       /\ heap0.cdr[w[i]] = IF flip[w[i]] THEN Below(n, w, i) ELSE cdr[w[i]]

(***************************************************************************)
(* At every step of mm_mark no link is lost: the original heap can be      *)
(* rebuilt from the reversed one, and the way back to the root is finite   *)
(* and visits no cell twice (it is no longer than the heap).               *)
(***************************************************************************)
GraphRecoverable ==
  pc \in {"down", "up", "left"} =>
    \E n \in 0 .. N : \E w \in [1 .. n -> Cell] : WayBack(n, w) /\ Recovers(n, w)

(***************************************************************************)
(* When mm_mark has returned from the last root, exactly the reachable     *)
(* cells are marked, every link is back in place and no flip bit is left   *)
(* behind for the next collection.                                         *)
(***************************************************************************)
MarkExact ==
  pc = "sweep" /\ p = N - 1 =>
    /\ {c \in Cell : mark[c]} = Reachable0
    /\ car = heap0.car /\ cdr = heap0.cdr
    /\ flip = [c \in Cell |-> FALSE]

(***************************************************************************)
(* The collection as one step: what mm_gc promises to its callers.  The    *)
(* state during the collection stands for the state before it.             *)
(***************************************************************************)
Idle(before, after) == IF pc = "done" THEN after ELSE before

Atomic == INSTANCE Collector WITH
  collected  <- pc = "done",
  type       <- Idle(heap0.type, type),
  car        <- Idle(heap0.car, car),
  cdr        <- Idle(heap0.cdr, cdr),
  marked     <- Idle({}, {c \in Cell : mark[c] \/ flip[c]}),
  free_cells <- Idle(NIL, free_cells),
  released   <- Idle({}, released),
  roots      <- heap0.roots

\* mm_gc implements the atomic collection.
CollectsAtomically == Atomic!Spec

\* mm_gc ends, whatever the shape of the heap (cycles included).
Terminates == <>(pc = "done")

=============================================================================
