-------------------------- MODULE MarkSweepProofs --------------------------
(***************************************************************************)
(* mm_gc is correct for a heap of any size and shape, cycles included:     *)
(* mm_mark's pointer reversal loses no link and marks what is reachable,   *)
(* no more and no less, and mm_gc implements the collection in one step of *)
(* module Collector.                                                       *)
(***************************************************************************)
EXTENDS MarkSweep, CellsProofs, FiniteSetTheorems

-----------------------------------------------------------------------------
(***************************************************************************)
(* The inductive invariant of mm_mark.  GraphRecoverable and MarkExact say *)
(* nothing about where the work that is left can be found: every link of a *)
(* marked cell leads to a marked cell, or is the one that is followed now, *)
(* or is the right link of a cell of the way back whose left branch is     *)
(* being marked.                                                           *)
(***************************************************************************)
Marking  == {"next", "down", "up", "left"}
OnWay(n, w) == {w[i] : i \in 1 .. n}
Marked   == {c \in Cell : mark[c]}

\* What is about to be visited.
Pending  == IF pc = "down" THEN {current} ELSE {}
Visited(v) == v \in Cell => v \in Marked \cup Pending

WayMarked(n, w) ==
  /\ \A i \in 1 .. n : /\ mark[w[i]] /\ HasLeftLink(type[w[i]])
                       /\ flip[w[i]] => HasRightLink(type[w[i]])
  /\ \A c \in Cell : flip[c] => c \in OnWay(n, w)

LinksVisited(n, w) ==
  \A c \in Marked :
    /\ HasLeftLink(type[c]) => Visited(heap0.car[c])
    /\ HasRightLink(type[c]) =>
         Visited(heap0.cdr[c]) \/ (c \in OnWay(n, w) /\ ~flip[c])

RootsVisited ==
  /\ \A r \in heap0.roots : Visited(r) \/ r \in ToSet(todo)
  /\ ToSet(todo) \subseteq heap0.roots

OnlyReachable ==
  /\ Marked \subseteq Reachable0
  /\ pc \in Marking \ {"next"} /\ current \in Cell => current \in Reachable0
  /\ pc \in {"up", "left"} => current \in Marked

Untouched ==
  /\ type = heap0.type
  /\ free_cells = NIL /\ released = {}

MarkInv ==
  \E n \in 0 .. N : \E w \in [1 .. n -> Cell] :
    /\ pc = "next" => n = 0
    /\ WayBack(n, w) /\ Recovers(n, w)
    /\ WayMarked(n, w) /\ LinksVisited(n, w)

(***************************************************************************)
(* The inductive invariant of mm_sweep: the cells above p are as the sweep *)
(* leaves them, the others as mm_mark did.                                 *)
(***************************************************************************)
Garbage0 == Unmarked(Reachable0)
Swept    == {c \in Garbage0 : pc = "sweep" => c > p}

SweepInv ==
  /\ car = heap0.car /\ flip = [c \in Cell |-> FALSE]
  /\ type = SweptType(heap0.type, Swept)
  /\ cdr = SweptCdr(heap0.cdr, Swept)
  /\ free_cells = SweptHead(Swept)
  /\ released = {c \in Swept : heap0.type[c] = "VECTOR"}
  /\ \A c \in Cell : mark[c] <=> c \in Reachable0 /\ pc # "done" /\ c <= p
  /\ pc = "sweep" => p \in Reserved .. N-1
  /\ pc = "globals" => p \in 0 .. Reserved-1

Heap0OK ==
  /\ heap0.type \in [Cell -> CellType]
  /\ heap0.car \in [Cell -> Value] /\ heap0.cdr \in [Cell -> Value]
  /\ heap0.roots \subseteq Value

IInv ==
  /\ TypeOK /\ Heap0OK
  /\ pc \in Marking => Untouched /\ RootsVisited /\ OnlyReachable /\ MarkInv
  /\ pc \notin Marking => SweepInv

-----------------------------------------------------------------------------
(* Types.                                                                  *)

LEMMA CellFacts ==
  /\ N \in Nat \ {0} /\ Reserved \in Nat /\ Reserved < N
  /\ Cell \subseteq Value /\ NIL \in Value /\ NIL \notin Cell
  /\ Cell \subseteq Nat
  BY SizesAssumption, ValuesAssumption DEF Cell, Value

LEMMA RootsAreValues ==
  ASSUME NEW regs \in [1 .. Registers -> Value]
  PROVE  Roots(regs) \in Seq(Value)
<1>1. [i \in 1 .. Reserved |-> i - 1] \in Seq(Value)
  <2>1. \A i \in 1 .. Reserved : i - 1 \in Value
    BY CellFacts DEF Cell, Value
  <2> QED
    BY <2>1, CellFacts
<1>2. regs \in Seq(Value)
  BY TypesAssumption
<1> QED
  BY <1>1, <1>2 DEF Roots

LEMMA InitTypeOK == Init => TypeOK /\ Heap0OK
<1> SUFFICES ASSUME Init PROVE TypeOK /\ Heap0OK
  OBVIOUS
<1>1. type \in [Cell -> CellType]
  BY TypesAssumption DEF Init
<1>2. todo \in Seq(Value)
  BY RootsAreValues DEF Init
<1>3. TypeOK
  BY <1>1, <1>2, CellFacts DEF Init, TypeOK, Phases, Cell
<1>4. ToSet(todo) \subseteq Value
  BY <1>2 DEF ToSet
<1> QED
  BY <1>1, <1>3, <1>4 DEF Init, TypeOK, Heap0OK

LEMMA TypeOKKept == TypeOK /\ (pc = "sweep" => p >= Reserved) /\ [Next]_vars => TypeOK'
<1> SUFFICES ASSUME TypeOK, pc = "sweep" => p >= Reserved, [Next]_vars PROVE TypeOK'
  OBVIOUS
<1> USE CellFacts DEF TypeOK, Phases
<1>1. CASE NextRoot
  <2>1. p' \in Cell
    <3>1. N - 1 \in Cell
      BY SizesAssumption DEF Cell
    <3> QED
      BY <1>1, <3>1 DEF NextRoot
  <2>2. todo' \in Seq(Value) /\ current' \in Value /\ prev' \in Value
    <3>1. todo # << >> => Head(todo) \in Value /\ Tail(todo) \in Seq(Value)
      OBVIOUS
    <3> QED
      BY <1>1, <3>1 DEF NextRoot
  <2> QED
    BY <1>1, <2>1, <2>2 DEF NextRoot
<1>2. CASE MarkDown
  BY <1>2 DEF MarkDown, Unvisited
<1>3. CASE UpRight
  BY <1>3 DEF UpRight
<1>4. CASE MarkReturn
  BY <1>4 DEF MarkReturn
<1>5. CASE TurnRight
  BY <1>5 DEF TurnRight
<1>6. CASE UpLeft
  BY <1>6 DEF UpLeft, NoRightLink
<1>7. CASE SweepCell
  <2>1. type' \in [Cell -> CellType]
    BY <1>7 DEF SweepCell, CellType
  <2>2. p' \in Cell
    <3>1. (p > 0 /\ p' = p - 1) \/ p' = p
      BY <1>7, SizesAssumption DEF SweepCell, Cell
    <3> QED
      BY <3>1, SizesAssumption DEF Cell
  <2>3. cdr' \in [Cell -> Value] /\ free_cells' \in Cell \cup {NIL}
    BY <1>7 DEF SweepCell
  <2>4. mark' \in [Cell -> BOOLEAN] /\ released' \subseteq Cell
    BY <1>7 DEF SweepCell
  <2>5. pc' \in Phases
    BY <1>7 DEF SweepCell
  <2> QED
    BY <1>7, <2>1, <2>2, <2>3, <2>4, <2>5 DEF SweepCell
<1>8. CASE SweepGlobal
  BY <1>8 DEF SweepGlobal, Cell
<1>9. CASE UNCHANGED vars
  BY <1>9 DEF vars
<1> QED
  BY <1>1, <1>2, <1>3, <1>4, <1>5, <1>6, <1>7, <1>8, <1>9 DEF Next

-----------------------------------------------------------------------------
(* What is reachable, and ways of cells.                                   *)

LEMMA Reachable0Is == Reachable0 = LiveSet(heap0.roots, heap0.type, heap0.car, heap0.cdr, {})
<1>1. Edges0 = {e \in Links(heap0.type, heap0.car, heap0.cdr) : e[1] \notin {}}
  BY DEF Edges0
<1> QED
  BY <1>1 DEF Reachable0, LiveSet

LEMMA Reachable0Closed ==
  /\ Reachable0 \subseteq Cell
  /\ \A r \in heap0.roots : r \in Cell => r \in Reachable0
  /\ \A c \in Reachable0 :
       /\ HasLeftLink(heap0.type[c]) /\ heap0.car[c] \in Cell => heap0.car[c] \in Reachable0
       /\ HasRightLink(heap0.type[c]) /\ heap0.cdr[c] \in Cell => heap0.cdr[c] \in Reachable0
  BY Reachable0Is, LiveSetClosed DEF KeepsLinks

LEMMA Reachable0Least ==
  ASSUME NEW X \in SUBSET Cell,
         \A r \in heap0.roots : r \in Cell => r \in X,
         \A c \in X :
           /\ HasLeftLink(heap0.type[c]) /\ heap0.car[c] \in Cell => heap0.car[c] \in X
           /\ HasRightLink(heap0.type[c]) /\ heap0.cdr[c] \in Cell => heap0.cdr[c] \in X
  PROVE  Reachable0 \subseteq X
<1>1. KeepsLinks(X, heap0.type, heap0.car, heap0.cdr, {})
  BY DEF KeepsLinks
<1> QED
  BY <1>1, Reachable0Is, LiveSetLeast

\* A way that meets no cell twice is no longer than the heap.
LEMMA WayIsShort ==
  ASSUME NEW n \in Nat, NEW w \in [1 .. n -> Cell],
         \A i, j \in 1 .. n : w[i] = w[j] => i = j
  PROVE  n \in 0 .. N
<1>1. w \in Injection(1 .. n, Cell)
  BY DEF Injection, IsInjective
<1>2. IsFiniteSet(Cell) /\ Cardinality(Cell) = N
  BY FS_Interval, SizesAssumption DEF Cell
<1>3. Cardinality(1 .. n) = n
  BY FS_Interval
<1>4. Cardinality(1 .. n) <= Cardinality(Cell)
  BY <1>1, <1>2, FS_Injection
<1> QED
  BY <1>2, <1>3, <1>4, SizesAssumption

LEMMA PushWay ==
  ASSUME NEW n \in 0 .. N, NEW w \in [1 .. n -> Cell],
         \A i, j \in 1 .. n : w[i] = w[j] => i = j,
         NEW x \in Cell, x \notin OnWay(n, w)
  PROVE  /\ n + 1 \in 0 .. N
         /\ \E v \in [1 .. n + 1 -> Cell] :
              /\ v[n + 1] = x /\ \A i \in 1 .. n : v[i] = w[i]
              /\ \A i, j \in 1 .. n + 1 : v[i] = v[j] => i = j
              /\ OnWay(n + 1, v) = OnWay(n, w) \cup {x}
<1> DEFINE v == [i \in 1 .. n + 1 |-> IF i = n + 1 THEN x ELSE w[i]]
<1>1. n \in Nat
  BY CellFacts
<1>2. \A i \in 1 .. n + 1 : i = n + 1 \/ i \in 1 .. n
  BY <1>1
<1>3. v \in [1 .. n + 1 -> Cell]
  BY <1>2
<1>4. v[n + 1] = x /\ \A i \in 1 .. n : v[i] = w[i]
  BY <1>1
<1> HIDE DEF v
<1>5. \A i, j \in 1 .. n + 1 : v[i] = v[j] => i = j
  BY <1>2, <1>4 DEF OnWay
<1>6. OnWay(n + 1, v) = OnWay(n, w) \cup {x}
  <2>1. \A i \in 1 .. n : i \in 1 .. n + 1
    BY <1>1
  <2>2. n + 1 \in 1 .. n + 1
    BY <1>1
  <2> QED
    BY <1>2, <1>4, <2>1, <2>2 DEF OnWay
<1>7. n + 1 \in 0 .. N
  BY <1>1, <1>3, <1>5, WayIsShort
<1> QED
  BY <1>3, <1>4, <1>5, <1>6, <1>7

LEMMA PopWay ==
  ASSUME NEW n \in 1 .. N, NEW w \in [1 .. n -> Cell],
         \A i, j \in 1 .. n : w[i] = w[j] => i = j
  PROVE  /\ n - 1 \in 0 .. N
         /\ \E v \in [1 .. n - 1 -> Cell] :
              /\ \A i \in 1 .. n - 1 : v[i] = w[i]
              /\ \A i, j \in 1 .. n - 1 : v[i] = v[j] => i = j
              /\ OnWay(n - 1, v) = OnWay(n, w) \ {w[n]}
<1> DEFINE v == [i \in 1 .. n - 1 |-> w[i]]
<1>1. n \in Nat /\ n >= 1 /\ n - 1 \in 0 .. N
  BY CellFacts
<1>2. \A i \in 1 .. n : i = n \/ i \in 1 .. n - 1
  BY <1>1
<1>3. \A i \in 1 .. n - 1 : i \in 1 .. n /\ i # n
  BY <1>1
<1>4. v \in [1 .. n - 1 -> Cell] /\ \A i \in 1 .. n - 1 : v[i] = w[i]
  BY <1>3
<1> HIDE DEF v
<1>5. \A i, j \in 1 .. n - 1 : v[i] = v[j] => i = j
  BY <1>3, <1>4
<1>6. OnWay(n - 1, v) = OnWay(n, w) \ {w[n]}
  <2>1. n \in 1 .. n
    BY <1>1
  <2> QED
    BY <1>2, <1>3, <1>4, <2>1 DEF OnWay
<1> QED
  BY <1>1, <1>4, <1>5, <1>6

-----------------------------------------------------------------------------
(* Each step of mm_mark keeps the invariant.                               *)

LEMMA TypesKept == IInv /\ [Next]_vars => TypeOK' /\ Heap0OK'
<1> SUFFICES ASSUME IInv, [Next]_vars PROVE TypeOK' /\ Heap0OK'
  OBVIOUS
<1>1. pc = "sweep" => p >= Reserved
  BY CellFacts DEF IInv, Marking, SweepInv
<1>2. heap0' = heap0
  BY DEF Next, vars, NextRoot, MarkDown, UpRight, MarkReturn, TurnRight, UpLeft,
         SweepCell, SweepGlobal
<1> QED
  BY <1>1, <1>2, TypeOKKept DEF IInv, Heap0OK

\* What a step has to show that stays within mm_mark.
LEMMA MarkStep ==
  ASSUME IInv, Next, pc' \in Marking, Untouched, UNCHANGED <<type, free_cells, released, heap0>>,
         RootsVisited', OnlyReachable', MarkInv'
  PROVE  IInv'
<1>1. Untouched'
  BY DEF Untouched
<1> QED
  BY <1>1, TypesKept DEF IInv

LEMMA MarkDownKeeps == IInv /\ MarkDown => IInv'
<1> SUFFICES ASSUME IInv, MarkDown PROVE IInv'
  OBVIOUS
<1>1. /\ pc \in {"down", "left"} /\ pc' = "down"
      /\ current \in Cell /\ ~mark[current]
      /\ mark' = [mark EXCEPT ![current] = TRUE]
      /\ UNCHANGED <<type, cdr, flip, free_cells, released, todo, heap0>>
  BY DEF MarkDown, AtDown, Unvisited
<1>2. /\ TypeOK /\ Heap0OK /\ Untouched /\ RootsVisited /\ OnlyReachable /\ MarkInv
      /\ TypeOK'
  BY <1>1, TypesKept DEF IInv, Marking, Next
<1>3. pc = "down"
  BY <1>1, <1>2 DEF OnlyReachable, Marked
<1>4. Marked' = Marked \cup {current}
  BY <1>1, <1>2 DEF Marked, TypeOK
<1>5. PICK n \in 0 .. N : \E w \in [1 .. n -> Cell] :
         WayBack(n, w) /\ Recovers(n, w) /\ WayMarked(n, w) /\ LinksVisited(n, w)
  BY <1>2 DEF MarkInv
<1>6. PICK w \in [1 .. n -> Cell] :
         WayBack(n, w) /\ Recovers(n, w) /\ WayMarked(n, w) /\ LinksVisited(n, w)
  BY <1>5
<1>7. current \notin OnWay(n, w) /\ ~flip[current]
  BY <1>1, <1>2, <1>6 DEF WayMarked, OnWay, TypeOK
<1>8. car[current] = heap0.car[current] /\ cdr[current] = heap0.cdr[current]
  BY <1>1, <1>6, <1>7 DEF Recovers, OnWay
<1>9. type[current] = heap0.type[current] /\ current \in Reachable0
  BY <1>1, <1>2, <1>3 DEF Untouched, OnlyReachable, Marking
<1>10. \A x : Visited(x) => (x \in Cell => x \in Marked')
  BY <1>3, <1>4 DEF Visited, Pending
<1>11. RootsVisited'
  BY <1>1, <1>2, <1>10 DEF RootsVisited, Visited
<1>12. CASE HasLeftLink(type[current])
  <2>1. car' = [car EXCEPT ![current] = prev] /\ prev' = current /\ current' = car[current]
    BY <1>12 DEF MarkDown
  <2>2. OnlyReachable'
    BY <1>1, <1>2, <1>4, <1>8, <1>9, <1>12, <2>1, Reachable0Closed
    DEF OnlyReachable, Reachable0, Edges0
  <2>3. PICK v \in [1 .. n + 1 -> Cell] :
          /\ n + 1 \in 0 .. N
          /\ v[n + 1] = current /\ \A i \in 1 .. n : v[i] = w[i]
          /\ \A i, j \in 1 .. n + 1 : v[i] = v[j] => i = j
          /\ OnWay(n + 1, v) = OnWay(n, w) \cup {current}
    BY <1>1, <1>6, <1>7, PushWay DEF WayBack
  <2>4. n \in Nat /\ n + 1 \in 1 .. n + 1 /\ \A i \in 1 .. n + 1 : i \in 1 .. n \/ i = n + 1
    BY CellFacts
  <2>5. \A i \in 1 .. n : w[i] \in Cell /\ w[i] # current
    BY <1>7 DEF OnWay
  <2>6. \A c \in Cell : c # current => car'[c] = car[c]
    BY <1>2, <2>1 DEF TypeOK
  <2>7. car'[current] = prev
    BY <1>1, <1>2, <2>1 DEF TypeOK
  <2>8. \A i \in 1 .. n : Above(v, i) = Above(w, i)
    <3>1. \A i \in 1 .. n : i # 1 => i - 1 \in 1 .. n
      BY <2>4
    <3> QED
      BY <3>1, <2>3 DEF Above
  <2>9. Above(v, n + 1) = prev /\ Above(v, n + 1 + 1) = current
    <3>1. Above(w, n + 1) = prev
      BY <1>6 DEF WayBack
    <3>2. n # 0 => Above(v, n + 1) = v[n] /\ Above(w, n + 1) = w[n] /\ n \in 1 .. n
      BY <2>4 DEF Above
    <3>3. n = 0 => Above(v, n + 1) = NIL /\ Above(w, n + 1) = NIL
      BY DEF Above
    <3>4. Above(v, n + 1 + 1) = v[n + 1]
      BY <2>4 DEF Above
    <3> QED
      BY <2>3, <3>1, <3>2, <3>3, <3>4
  <2>10. WayBack(n + 1, v)'
    <3>1. ASSUME NEW i \in 1 .. n + 1
          PROVE  Above(v, i)' = IF flip'[v[i]] THEN cdr'[v[i]] ELSE car'[v[i]]
      <4>1. CASE i \in 1 .. n
        <5>1. Above(w, i) = IF flip[w[i]] THEN cdr[w[i]] ELSE car[w[i]]
          BY <1>6, <4>1 DEF WayBack
        <5> QED
          BY <1>1, <2>3, <2>5, <2>6, <2>8, <4>1, <5>1 DEF Above
      <4>2. CASE i = n + 1
        BY <1>1, <1>7, <2>3, <2>7, <2>9, <4>2 DEF Above
      <4> QED
        BY <2>4, <4>1, <4>2
    <3>2. prev' = Above(v, n + 1 + 1)'
      BY <2>1, <2>9 DEF Above
    <3> QED
      BY <2>3, <3>1, <3>2 DEF WayBack
  <2>11. Recovers(n + 1, v)'
    <3>1. ASSUME NEW c \in Cell \ {v[i] : i \in 1 .. n + 1}
          PROVE  car'[c] = heap0'.car[c] /\ cdr'[c] = heap0'.cdr[c]
      <4>1. c \notin OnWay(n, w) /\ c # current
        BY <2>3 DEF OnWay
      <4> QED
        BY <1>1, <1>6, <2>6, <4>1 DEF Recovers, OnWay
    <3>2. ASSUME NEW i \in 1 .. n + 1
          PROVE  /\ heap0'.car[v[i]] = IF flip'[v[i]] THEN car'[v[i]] ELSE Below(n + 1, v, i)'
                 /\ heap0'.cdr[v[i]] = IF flip'[v[i]] THEN Below(n + 1, v, i)' ELSE cdr'[v[i]]
      <4>1. CASE i \in 1 .. n
        <5>1. Below(n + 1, v, i)' = Below(n, w, i)
          <6>1. i # n => i + 1 \in 1 .. n
            BY <2>4, <4>1
          <6>2. i # n + 1
            BY <2>4, <4>1
          <6> QED
            BY <2>3, <6>1, <6>2 DEF Below
        <5>2. /\ heap0.car[w[i]] = IF flip[w[i]] THEN car[w[i]] ELSE Below(n, w, i)
              /\ heap0.cdr[w[i]] = IF flip[w[i]] THEN Below(n, w, i) ELSE cdr[w[i]]
          BY <1>6, <4>1 DEF Recovers
        <5> QED
          BY <1>1, <2>3, <2>5, <2>6, <4>1, <5>1, <5>2
      <4>2. CASE i = n + 1
        <5>1. Below(n + 1, v, i)' = car[current]
          BY <2>1, <4>2 DEF Below
        <5> QED
          BY <1>1, <1>7, <1>8, <2>3, <4>2, <5>1
      <4> QED
        BY <2>4, <4>1, <4>2
    <3> QED
      BY <3>1, <3>2 DEF Recovers
  <2>12. WayMarked(n + 1, v)'
    <3>1. ASSUME NEW i \in 1 .. n + 1
          PROVE  /\ mark'[v[i]] /\ HasLeftLink(type'[v[i]])
                 /\ flip'[v[i]] => HasRightLink(type'[v[i]])
      <4>1. CASE i \in 1 .. n
        BY <1>1, <1>2, <1>6, <2>3, <2>5, <4>1 DEF WayMarked, TypeOK
      <4>2. CASE i = n + 1
        BY <1>1, <1>2, <1>7, <1>12, <2>3, <4>2 DEF TypeOK
      <4> QED
        BY <2>4, <4>1, <4>2
    <3>2. \A c \in Cell : flip'[c] => c \in OnWay(n + 1, v)
      BY <1>1, <1>6, <2>3 DEF WayMarked
    <3> QED
      BY <3>1, <3>2 DEF WayMarked, OnWay
  <2>13. LinksVisited(n + 1, v)'
    <3>1. ASSUME NEW c \in Marked'
          PROVE  /\ HasLeftLink(type'[c]) => Visited(heap0.car[c])'
                 /\ HasRightLink(type'[c]) =>
                      Visited(heap0.cdr[c])' \/ (c \in OnWay(n + 1, v) /\ ~flip'[c])
      <4>1. CASE c = current
        BY <1>1, <1>7, <1>8, <2>1, <2>3, <4>1 DEF Visited, Pending
      <4>2. CASE c \in Marked
        BY <1>1, <1>6, <1>10, <2>3, <4>2 DEF LinksVisited, Visited
      <4> QED
        BY <1>4, <4>1, <4>2
    <3> QED
      BY <3>1 DEF LinksVisited, OnWay, Visited, Pending, Marked
  <2>14. MarkInv'
    BY <1>1, <2>3, <2>10, <2>11, <2>12, <2>13 DEF MarkInv
  <2> QED
    BY <1>1, <1>2, <1>11, <2>2, <2>14, MarkStep DEF Marking, Next
<1>13. CASE ~HasLeftLink(type[current])
  <2>1. UNCHANGED <<car, prev, current>>
    BY <1>13 DEF MarkDown
  <2>2. OnlyReachable'
    BY <1>1, <1>2, <1>4, <1>9, <2>1
    DEF OnlyReachable, Reachable0, Edges0
  <2>3. WayBack(n, w)' /\ Recovers(n, w)'
    BY <1>1, <1>6, <2>1 DEF WayBack, Recovers, Below, Above
  <2>4. WayMarked(n, w)'
    BY <1>1, <1>2, <1>6, <2>1 DEF WayMarked, TypeOK
  <2>5. ASSUME NEW c \in Marked'
        PROVE  /\ HasLeftLink(type'[c]) => Visited(heap0.car[c])'
               /\ HasRightLink(type'[c]) =>
                    Visited(heap0.cdr[c])' \/ (c \in OnWay(n, w) /\ ~flip'[c])
    <3>1. CASE c = current
      BY <1>1, <1>13, <3>1 DEF HasLeftLink, HasRightLink
    <3>2. CASE c \in Marked
      BY <1>1, <1>6, <1>10, <3>2 DEF LinksVisited, Visited
    <3> QED
      BY <1>4, <3>1, <3>2
  <2>6. MarkInv'
    <3>1. LinksVisited(n, w)'
      BY <2>5 DEF LinksVisited, OnWay, Visited, Pending, Marked
    <3> QED
      BY <1>1, <2>3, <2>4, <3>1 DEF MarkInv
  <2> QED
    BY <1>1, <1>2, <1>11, <2>2, <2>6, MarkStep DEF Marking, Next
<1> QED
  BY <1>12, <1>13

(* The steps back: current is complete.                                    *)
AtWork == pc \in {"down", "up", "left"} /\ IInv
CurrentDone == AtUp \/ pc = "left"

LEMMA AtWorkFacts ==
  ASSUME AtWork
  PROVE  TypeOK /\ Heap0OK /\ Untouched /\ RootsVisited /\ OnlyReachable /\ MarkInv
  BY DEF AtWork, IInv, Marking

LEMMA VisitedIsMarked ==
  ASSUME AtWork, CurrentDone
  PROVE  /\ current \in Cell => current \in Marked
         /\ \A v : Visited(v) => (v \in Cell => v \in Marked)
<1>1. current \in Cell => current \in Marked
  BY AtWorkFacts DEF AtWork, CurrentDone, AtUp, AtDown, Unvisited, Marked, OnlyReachable
<1> QED
  BY <1>1 DEF Visited, Pending

LEMMA PrevIsLast ==
  ASSUME NEW n \in 0 .. N, NEW w \in [1 .. n -> Cell], WayBack(n, w)
  PROVE  /\ prev \in Cell => n \in 1 .. N /\ n \in 1 .. n /\ prev = w[n]
         /\ prev \notin Cell => n = 0
<1>1. n \in Nat
  BY CellFacts
<1>2. n = 0 \/ (n \in 1 .. N /\ n \in 1 .. n)
  BY <1>1
<1>3. n = 0 => Above(w, n + 1) = NIL
  BY DEF Above
<1>4. n # 0 => Above(w, n + 1) = w[n]
  BY <1>1 DEF Above
<1> QED
  BY <1>2, <1>3, <1>4, CellFacts DEF WayBack

LEMMA AtPrev ==
  ASSUME AtWork, prev \in Cell
  PROVE  /\ heap0.car[prev] = IF flip[prev] THEN car[prev] ELSE current
         /\ heap0.cdr[prev] = IF flip[prev] THEN current ELSE cdr[prev]
         /\ prev \in Marked /\ HasLeftLink(type[prev])
         /\ flip[prev] => HasRightLink(type[prev])
<1>1. PICK n \in 0 .. N : \E w \in [1 .. n -> Cell] :
         WayBack(n, w) /\ Recovers(n, w) /\ WayMarked(n, w) /\ LinksVisited(n, w)
  BY AtWorkFacts DEF MarkInv
<1>2. PICK w \in [1 .. n -> Cell] :
         WayBack(n, w) /\ Recovers(n, w) /\ WayMarked(n, w) /\ LinksVisited(n, w)
  BY <1>1
<1>3. n \in 1 .. n /\ prev = w[n]
  BY <1>2, PrevIsLast
<1>4. Below(n, w, n) = current
  BY DEF Below
<1>5. /\ heap0.car[w[n]] = IF flip[w[n]] THEN car[w[n]] ELSE Below(n, w, n)
      /\ heap0.cdr[w[n]] = IF flip[w[n]] THEN Below(n, w, n) ELSE cdr[w[n]]
  BY <1>2, <1>3 DEF Recovers
<1>6. mark[w[n]] /\ HasLeftLink(type[w[n]]) /\ (flip[w[n]] => HasRightLink(type[w[n]]))
  BY <1>2, <1>3 DEF WayMarked
<1> QED
  BY <1>3, <1>4, <1>5, <1>6 DEF Marked

\* Going up: prev leaves the way back, its links as they were.
LEMMA GoingUp ==
  ASSUME AtWork, Next, CurrentDone, pc' \in {"up", "left"}, prev \in Cell,
         HasRightLink(type[prev]) => flip[prev],
         UNCHANGED <<type, mark, free_cells, released, todo, heap0>>,
         current' = prev, prev' = IF flip[prev] THEN cdr[prev] ELSE car[prev],
         car'[prev] = heap0.car[prev], cdr'[prev] = heap0.cdr[prev], ~flip'[prev],
         \A c \in Cell \ {prev} : car'[c] = car[c] /\ cdr'[c] = cdr[c] /\ flip'[c] = flip[c]
  PROVE  IInv'
<1>1. /\ TypeOK /\ Heap0OK /\ Untouched /\ RootsVisited /\ OnlyReachable /\ MarkInv
      /\ prev \in Marked /\ Marked' = Marked
  BY AtWorkFacts, AtPrev DEF Marked
<1>2. \A x : Visited(x) => Visited(x)'
  BY <1>1, VisitedIsMarked DEF Visited
<1>3. RootsVisited'
  BY <1>1, <1>2 DEF RootsVisited, Visited, Pending
<1>4. OnlyReachable'
  BY <1>1 DEF OnlyReachable, Reachable0, Edges0
<1>5. PICK n \in 0 .. N : \E w \in [1 .. n -> Cell] :
         WayBack(n, w) /\ Recovers(n, w) /\ WayMarked(n, w) /\ LinksVisited(n, w)
  BY <1>1 DEF MarkInv
<1>6. PICK w \in [1 .. n -> Cell] :
         WayBack(n, w) /\ Recovers(n, w) /\ WayMarked(n, w) /\ LinksVisited(n, w)
  BY <1>5
<1>7. n \in 1 .. N /\ n \in 1 .. n /\ prev = w[n]
  BY <1>6, PrevIsLast
<1>8. PICK v \in [1 .. n - 1 -> Cell] :
        /\ n - 1 \in 0 .. N
        /\ \A i \in 1 .. n - 1 : v[i] = w[i]
        /\ \A i, j \in 1 .. n - 1 : v[i] = v[j] => i = j
        /\ OnWay(n - 1, v) = OnWay(n, w) \ {w[n]}
  <2>1. \A i, j \in 1 .. n : w[i] = w[j] => i = j
    BY <1>6 DEF WayBack
  <2> QED
    BY <1>7, <2>1, PopWay
<1>9. /\ n \in Nat /\ \A i \in 1 .. n - 1 : i \in 1 .. n /\ i # n /\ i + 1 \in 1 .. n
      /\ \A i \in 1 .. n - 1 : i # 1 => i - 1 \in 1 .. n - 1
      /\ \A i \in 1 .. n - 1 : i # n - 1 => i + 1 \in 1 .. n - 1
  BY <1>7, CellFacts
<1>10. \A i \in 1 .. n - 1 : v[i] = w[i] /\ w[i] \in Cell /\ w[i] # prev
  BY <1>6, <1>7, <1>8, <1>9 DEF WayBack
<1>11. WayBack(n - 1, v)'
  <2>1. \A i \in 1 .. n - 1 : Above(v, i)' = Above(w, i)
    BY <1>8, <1>9 DEF Above
  <2>2. ASSUME NEW i \in 1 .. n - 1
        PROVE  Above(v, i)' = IF flip'[v[i]] THEN cdr'[v[i]] ELSE car'[v[i]]
    <3>1. Above(w, i) = IF flip[w[i]] THEN cdr[w[i]] ELSE car[w[i]]
      BY <1>6, <1>9 DEF WayBack
    <3> QED
      BY <1>10, <2>1, <3>1
  <2>3. prev' = Above(v, n - 1 + 1)'
    <3>1. Above(w, n) = IF flip[w[n]] THEN cdr[w[n]] ELSE car[w[n]]
      BY <1>6, <1>7 DEF WayBack
    <3>2. n - 1 + 1 = n /\ (n # 1 => n - 1 \in 1 .. n - 1)
      BY <1>7, <1>9
    <3>3. Above(v, n)' = Above(w, n)
      BY <1>8, <3>2 DEF Above
    <3> QED
      BY <1>7, <3>1, <3>2, <3>3
  <2> QED
    BY <1>8, <2>2, <2>3 DEF WayBack
<1>12. Recovers(n - 1, v)'
  <2>1. ASSUME NEW c \in Cell \ {v[i] : i \in 1 .. n - 1}
        PROVE  car'[c] = heap0'.car[c] /\ cdr'[c] = heap0'.cdr[c]
    <3>1. CASE c = prev
      BY <3>1
    <3>2. CASE c # prev
      <4>1. c \notin OnWay(n, w)
        BY <1>7, <1>8, <3>2 DEF OnWay
      <4> QED
        BY <1>6, <3>2, <4>1 DEF Recovers, OnWay
    <3> QED
      BY <3>1, <3>2
  <2>2. ASSUME NEW i \in 1 .. n - 1
        PROVE  /\ heap0'.car[v[i]] = IF flip'[v[i]] THEN car'[v[i]] ELSE Below(n - 1, v, i)'
               /\ heap0'.cdr[v[i]] = IF flip'[v[i]] THEN Below(n - 1, v, i)' ELSE cdr'[v[i]]
    <3>1. Below(n - 1, v, i)' = Below(n, w, i)
      <4>1. CASE i = n - 1
        BY <1>7, <1>9, <4>1 DEF Below
      <4>2. CASE i # n - 1
        BY <1>8, <1>9, <4>2 DEF Below
      <4> QED
        BY <4>1, <4>2
    <3>2. /\ heap0.car[w[i]] = IF flip[w[i]] THEN car[w[i]] ELSE Below(n, w, i)
          /\ heap0.cdr[w[i]] = IF flip[w[i]] THEN Below(n, w, i) ELSE cdr[w[i]]
      BY <1>6, <1>9 DEF Recovers
    <3> QED
      BY <1>10, <3>1, <3>2
  <2> QED
    BY <2>1, <2>2 DEF Recovers
<1>13. WayMarked(n - 1, v)'
  <2>1. ASSUME NEW i \in 1 .. n - 1
        PROVE  /\ mark'[v[i]] /\ HasLeftLink(type'[v[i]])
               /\ flip'[v[i]] => HasRightLink(type'[v[i]])
    BY <1>6, <1>9, <1>10 DEF WayMarked
  <2>2. \A c \in Cell : flip'[c] => c \in OnWay(n - 1, v)
    BY <1>6, <1>7, <1>8 DEF WayMarked
  <2> QED
    BY <2>1, <2>2 DEF WayMarked, OnWay
<1>14. LinksVisited(n - 1, v)'
  <2>1. ASSUME NEW c \in Marked'
        PROVE  /\ HasLeftLink(type'[c]) => Visited(heap0.car[c])'
               /\ HasRightLink(type'[c]) =>
                    Visited(heap0.cdr[c])' \/ (c \in OnWay(n - 1, v) /\ ~flip'[c])
    <3>1. /\ c \in Cell /\ (HasLeftLink(type[c]) => Visited(heap0.car[c]))
          /\ HasRightLink(type[c]) => Visited(heap0.cdr[c]) \/ (c \in OnWay(n, w) /\ ~flip[c])
      BY <1>1, <1>6 DEF LinksVisited, Marked
    <3>2. \A x : Visited(x)' = (x \in Cell => x \in Marked')
      BY DEF Visited, Pending
    <3>3. \A x : Visited(x) => Visited(x)'
      BY <1>1, <3>2, VisitedIsMarked
    <3> QED
      BY <1>7, <1>8, <1>2, <3>1, <3>3
  <2> QED
    BY <2>1 DEF LinksVisited, OnWay, Visited, Pending, Marked
<1>15. MarkInv'
  BY <1>8, <1>11, <1>12, <1>13, <1>14 DEF MarkInv
<1> QED
  BY <1>1, <1>3, <1>4, <1>15, MarkStep DEF Marking, AtWork

LEMMA UpRightKeeps == IInv /\ UpRight => IInv'
<1> SUFFICES ASSUME IInv, UpRight PROVE IInv'
  OBVIOUS
<1>1. /\ AtWork /\ CurrentDone /\ Next
      /\ prev \in Cell /\ flip[prev] /\ pc' = "up"
      /\ flip' = [flip EXCEPT ![prev] = FALSE]
      /\ cdr' = [cdr EXCEPT ![prev] = current]
      /\ current' = prev /\ prev' = cdr[prev]
      /\ UNCHANGED <<type, car, mark, free_cells, released, todo, heap0>>
  BY DEF UpRight, AtWork, CurrentDone, AtUp, AtDown, Next
<1>2. TypeOK
  BY DEF IInv
<1>3. /\ car'[prev] = heap0.car[prev] /\ cdr'[prev] = heap0.cdr[prev] /\ ~flip'[prev]
      /\ \A c \in Cell \ {prev} : car'[c] = car[c] /\ cdr'[c] = cdr[c] /\ flip'[c] = flip[c]
  BY <1>1, <1>2, AtPrev DEF TypeOK
<1> QED
  BY <1>1, <1>3, GoingUp

LEMMA UpLeftKeeps == IInv /\ UpLeft => IInv'
<1> SUFFICES ASSUME IInv, UpLeft PROVE IInv'
  OBVIOUS
<1>1. /\ AtWork /\ CurrentDone /\ Next
      /\ prev \in Cell /\ ~HasRightLink(type[prev]) /\ pc' = "left"
      /\ car' = [car EXCEPT ![prev] = current]
      /\ current' = prev /\ prev' = car[prev]
      /\ UNCHANGED <<type, cdr, mark, flip, free_cells, released, todo, heap0>>
  BY DEF UpLeft, NoRightLink, AtWork, CurrentDone, AtTurn, AtUp, AtDown, Next
<1>2. TypeOK
  BY DEF IInv
<1>3. /\ ~flip[prev]
      /\ car'[prev] = heap0.car[prev] /\ cdr'[prev] = heap0.cdr[prev] /\ ~flip'[prev]
      /\ \A c \in Cell \ {prev} : car'[c] = car[c] /\ cdr'[c] = cdr[c] /\ flip'[c] = flip[c]
  BY <1>1, <1>2, AtPrev DEF TypeOK
<1> QED
  BY <1>1, <1>3, GoingUp

\* Turning: the way back stays the same, its last link moves to the cdr.
LEMMA TurnRightKeeps == IInv /\ TurnRight => IInv'
<1> SUFFICES ASSUME IInv, TurnRight PROVE IInv'
  OBVIOUS
<1>1. /\ AtWork /\ CurrentDone /\ Next
      /\ prev \in Cell /\ ~flip[prev] /\ HasRightLink(type[prev]) /\ pc' = "down"
      /\ car' = [car EXCEPT ![prev] = current]
      /\ flip' = [flip EXCEPT ![prev] = TRUE]
      /\ current' = cdr[prev]
      /\ cdr' = [cdr EXCEPT ![prev] = car[prev]]
      /\ UNCHANGED <<type, mark, free_cells, released, todo, prev, heap0>>
  BY DEF TurnRight, AtWork, CurrentDone, AtTurn, AtUp, AtDown, Next
<1>2. /\ TypeOK /\ Heap0OK /\ Untouched /\ RootsVisited /\ OnlyReachable /\ MarkInv
      /\ prev \in Marked /\ HasLeftLink(type[prev]) /\ Marked' = Marked
      /\ heap0.car[prev] = current /\ heap0.cdr[prev] = cdr[prev]
  BY <1>1, AtWorkFacts, AtPrev DEF Marked
<1>3. /\ car'[prev] = current /\ cdr'[prev] = car[prev] /\ flip'[prev]
      /\ \A c \in Cell \ {prev} : car'[c] = car[c] /\ cdr'[c] = cdr[c] /\ flip'[c] = flip[c]
  BY <1>1, <1>2 DEF TypeOK
<1>4. \A x : Visited(x) => Visited(x)'
  BY <1>1, <1>2, VisitedIsMarked DEF Visited
<1>5. RootsVisited'
  BY <1>1, <1>2, <1>4 DEF RootsVisited, Visited, Pending
<1>6. OnlyReachable'
  <2>1. type[prev] = heap0.type[prev] /\ prev \in Reachable0
    BY <1>2 DEF Untouched, OnlyReachable
  <2>2. current' \in Cell => current' \in Reachable0
    BY <1>1, <1>2, <2>1, Reachable0Closed
  <2> QED
    BY <1>1, <1>2, <2>2 DEF OnlyReachable, Reachable0, Edges0
<1>7. PICK n \in 0 .. N : \E w \in [1 .. n -> Cell] :
         WayBack(n, w) /\ Recovers(n, w) /\ WayMarked(n, w) /\ LinksVisited(n, w)
  BY <1>2 DEF MarkInv
<1>8. PICK w \in [1 .. n -> Cell] :
         WayBack(n, w) /\ Recovers(n, w) /\ WayMarked(n, w) /\ LinksVisited(n, w)
  BY <1>7
<1>9. n \in 1 .. n /\ prev = w[n]
  BY <1>1, <1>8, PrevIsLast
<1>10. \A i \in 1 .. n : i # n => w[i] # prev /\ w[i] \in Cell
  BY <1>8, <1>9 DEF WayBack
<1>11. WayBack(n, w)'
  <2>1. ASSUME NEW i \in 1 .. n
        PROVE  Above(w, i)' = IF flip'[w[i]] THEN cdr'[w[i]] ELSE car'[w[i]]
    <3>1. Above(w, i)' = IF flip[w[i]] THEN cdr[w[i]] ELSE car[w[i]]
      BY <1>8 DEF WayBack, Above
    <3> QED
      BY <1>1, <1>3, <1>9, <1>10, <3>1
  <2> QED
    BY <1>1, <1>8, <2>1 DEF WayBack, Above
<1>12. Recovers(n, w)'
  <2>1. ASSUME NEW c \in Cell \ {w[i] : i \in 1 .. n}
        PROVE  car'[c] = heap0'.car[c] /\ cdr'[c] = heap0'.cdr[c]
    <3>1. c # prev
      BY <1>9
    <3> QED
      BY <1>1, <1>3, <1>8, <3>1 DEF Recovers
  <2>2. ASSUME NEW i \in 1 .. n
        PROVE  /\ heap0'.car[w[i]] = IF flip'[w[i]] THEN car'[w[i]] ELSE Below(n, w, i)'
               /\ heap0'.cdr[w[i]] = IF flip'[w[i]] THEN Below(n, w, i)' ELSE cdr'[w[i]]
    <3>1. CASE i = n
      <4>1. Below(n, w, i)' = current'
        BY <3>1 DEF Below
      <4> QED
        BY <1>1, <1>2, <1>3, <1>9, <3>1, <4>1
    <3>2. CASE i # n
      <4>1. Below(n, w, i)' = Below(n, w, i)
        BY <3>2 DEF Below
      <4>2. /\ heap0.car[w[i]] = IF flip[w[i]] THEN car[w[i]] ELSE Below(n, w, i)
            /\ heap0.cdr[w[i]] = IF flip[w[i]] THEN Below(n, w, i) ELSE cdr[w[i]]
        BY <1>8 DEF Recovers
      <4> QED
        BY <1>1, <1>3, <1>10, <3>2, <4>1, <4>2
    <3> QED
      BY <3>1, <3>2
  <2> QED
    BY <2>1, <2>2 DEF Recovers
<1>13. WayMarked(n, w)'
  <2>1. ASSUME NEW i \in 1 .. n
        PROVE  /\ mark'[w[i]] /\ HasLeftLink(type'[w[i]])
               /\ flip'[w[i]] => HasRightLink(type'[w[i]])
    BY <1>1, <1>3, <1>8, <1>9, <1>10 DEF WayMarked
  <2>2. \A c \in Cell : flip'[c] => c \in OnWay(n, w)
    BY <1>3, <1>8, <1>9 DEF WayMarked, OnWay
  <2> QED
    BY <2>1, <2>2 DEF WayMarked, OnWay
<1>14. LinksVisited(n, w)'
  <2>1. ASSUME NEW c \in Marked'
        PROVE  /\ HasLeftLink(type'[c]) => Visited(heap0.car[c])'
               /\ HasRightLink(type'[c]) =>
                    Visited(heap0.cdr[c])' \/ (c \in OnWay(n, w) /\ ~flip'[c])
    <3>1. /\ c \in Cell /\ (HasLeftLink(type[c]) => Visited(heap0.car[c]))
          /\ HasRightLink(type[c]) => Visited(heap0.cdr[c]) \/ (c \in OnWay(n, w) /\ ~flip[c])
      BY <1>2, <1>8 DEF LinksVisited, Marked
    <3>2. \A x : Visited(x)' = (x \in Cell => x \in Marked' \/ x = current')
      BY <1>1 DEF Visited, Pending
    <3>3. \A x : Visited(x) => Visited(x)'
      BY <1>1, <1>2, <3>2, VisitedIsMarked
    <3>4. c # prev \/ Visited(heap0.cdr[c])'
      BY <1>1, <1>2, <3>2
    <3> QED
      BY <1>1, <1>3, <1>4, <3>1, <3>3, <3>4
  <2> QED
    BY <2>1 DEF LinksVisited, OnWay, Visited, Pending, Marked
<1>15. MarkInv'
  BY <1>1, <1>11, <1>12, <1>13, <1>14 DEF MarkInv
<1> QED
  BY <1>1, <1>2, <1>5, <1>6, <1>15, MarkStep DEF Marking

LEMMA MarkReturnKeeps == IInv /\ MarkReturn => IInv'
<1> SUFFICES ASSUME IInv, MarkReturn PROVE IInv'
  OBVIOUS
<1>1. /\ AtWork /\ CurrentDone /\ Next /\ prev \notin Cell /\ pc' = "next"
      /\ UNCHANGED <<type, car, cdr, mark, flip, free_cells, released, todo, current,
                     prev, p, heap0>>
  BY DEF MarkReturn, AtWork, CurrentDone, AtTurn, AtUp, AtDown, Next
<1>2. /\ Untouched /\ RootsVisited /\ OnlyReachable /\ MarkInv /\ Marked' = Marked
  BY <1>1, AtWorkFacts DEF Marked
<1>3. \A x : Visited(x) => Visited(x)'
  BY <1>1, <1>2, VisitedIsMarked DEF Visited
<1>4. RootsVisited'
  BY <1>1, <1>2, <1>3 DEF RootsVisited, Visited, Pending
<1>5. OnlyReachable'
  BY <1>1, <1>2 DEF OnlyReachable, Reachable0, Edges0
<1>6. PICK n \in 0 .. N : \E w \in [1 .. n -> Cell] :
         WayBack(n, w) /\ Recovers(n, w) /\ WayMarked(n, w) /\ LinksVisited(n, w)
  BY <1>2 DEF MarkInv
<1>7. PICK w \in [1 .. n -> Cell] :
         WayBack(n, w) /\ Recovers(n, w) /\ WayMarked(n, w) /\ LinksVisited(n, w)
  BY <1>6
<1>8. n = 0
  BY <1>1, <1>7, PrevIsLast
<1>9. WayBack(n, w)' /\ Recovers(n, w)' /\ WayMarked(n, w)'
  BY <1>1, <1>7 DEF WayBack, Recovers, WayMarked, Above, Below
<1>10. LinksVisited(n, w)'
  <2>1. ASSUME NEW c \in Marked'
        PROVE  /\ HasLeftLink(type'[c]) => Visited(heap0.car[c])'
               /\ HasRightLink(type'[c]) =>
                    Visited(heap0.cdr[c])' \/ (c \in OnWay(n, w) /\ ~flip'[c])
    <3>1. \A x : Visited(x)' = (x \in Cell => x \in Marked')
      BY <1>1 DEF Visited, Pending
    <3> QED
      BY <1>1, <1>2, <1>7, <3>1, VisitedIsMarked DEF LinksVisited
  <2> QED
    BY <2>1 DEF LinksVisited, OnWay, Visited, Pending, Marked
<1>11. MarkInv'
  BY <1>8, <1>9, <1>10 DEF MarkInv
<1> QED
  BY <1>1, <1>2, <1>4, <1>5, <1>11, MarkStep DEF Marking

-----------------------------------------------------------------------------
(* Between two roots, and the sweep.                                       *)

\* What has been marked and put back when mm_mark has returned.
LEMMA BetweenRoots ==
  ASSUME IInv, pc = "next"
  PROVE  /\ prev = NIL
         /\ car = heap0.car /\ cdr = heap0.cdr /\ flip = [c \in Cell |-> FALSE]
         /\ \A c \in Marked : /\ HasLeftLink(type[c]) /\ heap0.car[c] \in Cell => heap0.car[c] \in Marked
                              /\ HasRightLink(type[c]) /\ heap0.cdr[c] \in Cell => heap0.cdr[c] \in Marked
<1>1. TypeOK /\ Heap0OK /\ MarkInv
  BY DEF IInv, Marking
<1>2. PICK n \in 0 .. N : \E w \in [1 .. n -> Cell] :
         /\ n = 0
         /\ WayBack(n, w) /\ Recovers(n, w) /\ WayMarked(n, w) /\ LinksVisited(n, w)
  BY <1>1 DEF MarkInv
<1>3. PICK w \in [1 .. 0 -> Cell] :
         WayBack(0, w) /\ Recovers(0, w) /\ WayMarked(0, w) /\ LinksVisited(0, w)
  BY <1>2
<1>4. prev = NIL
  BY <1>3 DEF WayBack, Above
<1>5. OnWay(0, w) = {}
  BY DEF OnWay
<1>6. \A c \in Cell : car[c] = heap0.car[c] /\ cdr[c] = heap0.cdr[c]
  BY <1>3, <1>5 DEF Recovers, OnWay
<1>7. car = heap0.car /\ cdr = heap0.cdr
  BY <1>1, <1>6 DEF TypeOK, Heap0OK
<1>8. flip = [c \in Cell |-> FALSE]
  <2>1. \A c \in Cell : flip[c] = FALSE
    BY <1>1, <1>3, <1>5 DEF WayMarked, TypeOK
  <2> QED
    BY <1>1, <2>1 DEF TypeOK
<1>9. \A v : Visited(v) <=> (v \in Cell => v \in Marked)
  BY DEF Visited, Pending
<1> QED
  BY <1>3, <1>4, <1>5, <1>7, <1>8, <1>9 DEF LinksVisited

\* When the last root is done, exactly what is reachable is marked.
LEMMA AllMarked ==
  ASSUME IInv, pc = "next", todo = << >>
  PROVE  Marked = Reachable0
<1>1. Untouched /\ RootsVisited /\ OnlyReachable
  BY DEF IInv, Marking
<1>2. \A r \in heap0.roots : r \in Cell => r \in Marked
  <2>1. ToSet(todo) = {}
    BY DEF ToSet
  <2> QED
    BY <1>1, <2>1 DEF RootsVisited, Visited, Pending
<1>3. Reachable0 \subseteq Marked
  BY <1>1, <1>2, BetweenRoots, Reachable0Least DEF Marked, Untouched
<1> QED
  BY <1>1, <1>3 DEF OnlyReachable

LEMMA SweptNone ==
  /\ SweptHead({}) = NIL
  /\ \A S, f : f \in [Cell -> S] => SweptCdr(f, {}) = f /\ SweptType(f, {}) = f
  BY DEF SweptHead, SweptCdr, SweptType

\* A cell below all those of U is pushed in front of their list.
LEMMA SweptOneMore ==
  ASSUME NEW U \in SUBSET Cell, NEW x \in Cell, \A u \in U : u > x, NEW d, NEW t
  PROVE  /\ SweptHead(U \cup {x}) = x
         /\ SweptCdr(d, U \cup {x}) = [SweptCdr(d, U) EXCEPT ![x] = SweptHead(U)]
         /\ SweptType(t, U \cup {x}) =
              IF t[x] = "VECTOR" THEN [SweptType(t, U) EXCEPT ![x] = "CONS"] ELSE SweptType(t, U)
<1> DEFINE V == U \cup {x}
<1>1. V \in SUBSET Nat /\ V # {}
  BY CellFacts
<1>2. SweptHead(V) = x
  <2>1. Least(V) \in V /\ \A y \in V : Least(V) <= y
    BY <1>1, LeastIsLeast
  <2>2. Least(V) = x
    BY <1>1, <2>1
  <2> QED
    BY <2>2 DEF SweptHead
<1>3. {q \in V : q > x} = U
  BY <1>1
<1>4. \A u \in U : {q \in V : q > u} = {q \in U : q > u}
  BY <1>1
<1>5. SweptNext(V, x) = SweptHead(U) /\ \A u \in U : SweptNext(V, u) = SweptNext(U, u)
  BY <1>3, <1>4 DEF SweptNext
<1>6. x \notin U
  BY <1>1
<1>7. SweptCdr(d, V) = [SweptCdr(d, U) EXCEPT ![x] = SweptHead(U)]
  BY <1>5, <1>6 DEF SweptCdr
<1>8. SweptType(t, V) = IF t[x] = "VECTOR" THEN [SweptType(t, U) EXCEPT ![x] = "CONS"] ELSE SweptType(t, U)
  BY <1>6 DEF SweptType
<1> QED
  BY <1>2, <1>7, <1>8

LEMMA HeadAndTail ==
  ASSUME NEW s \in Seq(Value), s # << >>
  PROVE  /\ Head(s) \in ToSet(s) /\ ToSet(Tail(s)) \subseteq ToSet(s)
         /\ \A r \in ToSet(s) : r = Head(s) \/ r \in ToSet(Tail(s))
<1>1. Len(s) \in Nat \ {0} /\ DOMAIN s = 1 .. Len(s) /\ Head(s) = s[1]
  OBVIOUS
<1>2. DOMAIN Tail(s) = 1 .. Len(s) - 1 /\ \A i \in 1 .. Len(s) - 1 : Tail(s)[i] = s[i + 1]
  OBVIOUS
<1>3. \A i \in 1 .. Len(s) - 1 : i + 1 \in 1 .. Len(s)
  BY <1>1
<1>4. \A i \in 1 .. Len(s) : i = 1 \/ (i - 1 \in 1 .. Len(s) - 1 /\ i = (i - 1) + 1)
  BY <1>1
<1>5. \A i \in 1 .. Len(s) : i = 1 \/ s[i] = Tail(s)[i - 1]
  BY <1>2, <1>4
<1>6. 1 \in 1 .. Len(s)
  BY <1>1
<1>7. Head(s) \in ToSet(s)
  BY <1>1, <1>6 DEF ToSet
<1>8. ToSet(Tail(s)) \subseteq ToSet(s)
  BY <1>1, <1>2, <1>3 DEF ToSet
<1>9. \A r \in ToSet(s) : r = Head(s) \/ r \in ToSet(Tail(s))
  <2>1. ASSUME NEW i \in 1 .. Len(s), i # 1 PROVE s[i] \in ToSet(Tail(s))
    BY <1>2, <1>4, <1>5, <2>1 DEF ToSet
  <2> QED
    BY <1>1, <2>1 DEF ToSet
<1> QED
  BY <1>7, <1>8, <1>9

LEMMA NextRootKeeps == IInv /\ NextRoot => IInv'
<1> SUFFICES ASSUME IInv, NextRoot PROVE IInv'
  OBVIOUS
<1>1. /\ pc = "next" /\ Next
      /\ UNCHANGED <<type, car, cdr, mark, flip, free_cells, released, heap0>>
  BY DEF NextRoot, Next
<1>2. /\ TypeOK /\ Heap0OK /\ Untouched /\ RootsVisited /\ OnlyReachable
      /\ TypeOK' /\ Heap0OK'
  BY <1>1, TypesKept DEF IInv, Marking
<1>3. Marked' = Marked /\ Reachable0' = Reachable0
  BY <1>1 DEF Marked, Reachable0, Edges0
<1>4. CASE todo # << >>
  <2>1. pc' = "down" /\ current' = Head(todo) /\ prev' = NIL /\ todo' = Tail(todo)
    BY <1>4 DEF NextRoot
  <2>2. /\ Head(todo) \in ToSet(todo) /\ ToSet(Tail(todo)) \subseteq ToSet(todo)
        /\ \A r \in ToSet(todo) : r = Head(todo) \/ r \in ToSet(Tail(todo))
    BY <1>2, <1>4, HeadAndTail DEF TypeOK
  <2>3. RootsVisited'
    BY <1>1, <1>2, <1>3, <2>1, <2>2 DEF RootsVisited, Visited, Pending
  <2>4. OnlyReachable'
    BY <1>1, <1>2, <1>3, <2>1, <2>2, Reachable0Closed DEF OnlyReachable, RootsVisited
  <2>5. PICK w : w \in [1 .. 0 -> Cell]
    <3>1. [i \in 1 .. 0 |-> 0] \in [1 .. 0 -> Cell]
      OBVIOUS
    <3> QED
      BY <3>1
  <2>6. WayBack(0, w)'
    BY <2>1 DEF WayBack, Above
  <2>7. Recovers(0, w)'
    BY <1>1, BetweenRoots DEF Recovers
  <2>8. WayMarked(0, w)'
    BY <1>1, BetweenRoots DEF WayMarked
  <2>9. LinksVisited(0, w)'
    BY <1>1, <1>3, BetweenRoots DEF LinksVisited, Visited
  <2>10. MarkInv'
    <3>1. 0 \in 0 .. N
      BY CellFacts
    <3> QED
      BY <2>1, <2>5, <2>6, <2>7, <2>8, <2>9, <3>1 DEF MarkInv
  <2> QED
    BY <1>1, <1>2, <2>1, <2>3, <2>4, <2>10, MarkStep DEF Marking
<1>5. CASE todo = << >>
  <2>1. pc' = "sweep" /\ p' = N - 1
    BY <1>5 DEF NextRoot
  <2>2. Swept' = {}
    <3>1. Garbage0' = Garbage0 /\ Garbage0 \subseteq Cell
      BY <1>1, CellsAreNumbers DEF Garbage0, Reachable0, Edges0, Unmarked
    <3>2. \A c \in Cell : ~(c > N - 1)
      BY CellFacts DEF Cell
    <3> QED
      BY <2>1, <3>1, <3>2 DEF Swept
  <2>3. \A c \in Cell : mark'[c] <=> c \in Reachable0' /\ pc' # "done" /\ c <= p'
    <3>1. \A c \in Cell : c <= N - 1
      BY CellFacts DEF Cell
    <3> QED
      BY <1>1, <1>3, <1>5, <2>1, <3>1, AllMarked DEF Marked
  <2>4. p' \in Reserved .. N-1
    BY <2>1, SizesAssumption
  <2>5. /\ type' = SweptType(heap0'.type, {}) /\ cdr' = SweptCdr(heap0'.cdr, {})
        /\ car' = heap0'.car /\ flip' = [c \in Cell |-> FALSE]
        /\ free_cells' = SweptHead({}) /\ released' = {}
    BY <1>1, <1>2, SweptNone, BetweenRoots DEF Untouched, Heap0OK
  <2>6. SweepInv'
    BY <2>1, <2>2, <2>3, <2>4, <2>5 DEF SweepInv
  <2> QED
    BY <1>2, <2>1, <2>6 DEF IInv, Marking
<1> QED
  BY <1>4, <1>5

LEMMA SweepCellKeeps == IInv /\ SweepCell => IInv'
<1> SUFFICES ASSUME IInv, SweepCell PROVE IInv'
  OBVIOUS
<1>1. /\ pc = "sweep" /\ Next /\ pc' \in {"sweep", "globals", "done"}
      /\ UNCHANGED <<car, flip, heap0>>
  BY DEF SweepCell, Next
<1>2. TypeOK /\ Heap0OK /\ SweepInv /\ TypeOK' /\ Heap0OK'
  BY <1>1, TypesKept DEF IInv, Marking
<1>3. Garbage0' = Garbage0 /\ Reachable0' = Reachable0
  BY <1>1 DEF Garbage0, Reachable0, Edges0
<1>4. /\ p \in Reserved .. N-1 /\ p \in Cell /\ Cell \subseteq Nat /\ Reserved \in Nat
      /\ N \in Nat
  BY <1>1, <1>2, CellFacts DEF SweepInv, TypeOK
<1>5. /\ Garbage0 \subseteq Cell /\ \A c \in Garbage0 : c >= Reserved
      /\ \A c \in Cell : c \in Garbage0 <=> c >= Reserved /\ c \notin Reachable0
  BY CellFacts DEF Garbage0, Unmarked, Cell
<1>6. \/ p > Reserved /\ p' = p - 1 /\ pc' = "sweep"
      \/ p = Reserved /\ Reserved > 0 /\ p' = p - 1 /\ pc' = "globals"
      \/ p = Reserved /\ Reserved = 0 /\ p' = p /\ pc' = "done"
  BY <1>1, <1>4 DEF SweepCell
<1>7. mark[p] <=> p \notin Garbage0
  BY <1>1, <1>2, <1>4, <1>5 DEF SweepInv
<1>8. Swept \in SUBSET Cell /\ \A u \in Swept : u > p
  BY <1>1, <1>5 DEF Swept
<1>9. Swept' = IF mark[p] THEN Swept ELSE Swept \cup {p}
  <2>1. \A c \in Garbage0 : (pc' = "sweep" => c > p') <=> c > p \/ c = p
    BY <1>4, <1>5, <1>6
  <2> QED
    BY <1>1, <1>3, <1>7, <2>1 DEF Swept
<1>10. /\ type' = SweptType(heap0.type, Swept')
       /\ cdr' = SweptCdr(heap0.cdr, Swept')
       /\ free_cells' = SweptHead(Swept')
       /\ released' = {c \in Swept' : heap0.type[c] = "VECTOR"}
  <2>1. CASE mark[p]
    BY <1>2, <1>9, <2>1 DEF SweepInv, SweepCell
  <2>2. CASE ~mark[p]
    <3>1. /\ SweptHead(Swept') = p
          /\ SweptCdr(heap0.cdr, Swept') = [SweptCdr(heap0.cdr, Swept) EXCEPT ![p] = SweptHead(Swept)]
          /\ SweptType(heap0.type, Swept') =
               IF heap0.type[p] = "VECTOR" THEN [SweptType(heap0.type, Swept) EXCEPT ![p] = "CONS"]
               ELSE SweptType(heap0.type, Swept)
      BY <1>4, <1>8, <1>9, <2>2, SweptOneMore
    <3>2. p \notin Swept
      BY <1>4, <1>8
    <3>3. type[p] = heap0.type[p]
      BY <1>2, <1>4, <3>2 DEF SweepInv, SweptType
    <3> QED
      BY <1>1, <1>2, <1>9, <2>2, <3>1, <3>3 DEF SweepInv, SweepCell
  <2> QED
    BY <2>1, <2>2
<1>11. \A c \in Cell : mark'[c] <=> c \in Reachable0' /\ pc' # "done" /\ c <= p'
  <2>1. \A c \in Cell : mark'[c] <=> mark[c] /\ c # p
    BY <1>2 DEF SweepCell, TypeOK
  <2>2. \A c \in Cell : mark[c] <=> c \in Reachable0 /\ c <= p
    BY <1>1, <1>2 DEF SweepInv
  <2>3. \A c \in Cell : pc' # "done" /\ c <= p' <=> c <= p /\ c # p
    BY <1>4, <1>6
  <2> QED
    BY <1>3, <2>1, <2>2, <2>3
<1>12. /\ pc' = "sweep" => p' \in Reserved .. N-1
       /\ pc' = "globals" => p' \in 0 .. Reserved-1
  BY <1>4, <1>6
<1>13. SweepInv'
  BY <1>1, <1>2, <1>10, <1>11, <1>12 DEF SweepInv
<1> QED
  BY <1>1, <1>2, <1>13 DEF IInv, Marking

LEMMA SweepGlobalKeeps == IInv /\ SweepGlobal => IInv'
<1> SUFFICES ASSUME IInv, SweepGlobal PROVE IInv'
  OBVIOUS
<1>1. /\ pc = "globals" /\ Next /\ pc' \in {"globals", "done"}
      /\ UNCHANGED <<type, car, cdr, flip, free_cells, released, heap0>>
      /\ mark' = [mark EXCEPT ![p] = FALSE]
  BY DEF SweepGlobal, Next
<1>2. TypeOK /\ Heap0OK /\ SweepInv /\ TypeOK' /\ Heap0OK'
  BY <1>1, TypesKept DEF IInv, Marking
<1>3. Garbage0' = Garbage0 /\ Reachable0' = Reachable0 /\ Swept' = Swept
  BY <1>1 DEF Swept, Garbage0, Reachable0, Edges0
<1>4. p \in 0 .. Reserved-1 /\ Cell \subseteq Nat /\ Reserved \in Nat
  BY <1>1, <1>2, CellFacts DEF SweepInv
<1>5. \/ p > 0 /\ p' = p - 1 /\ pc' = "globals"
      \/ p = 0 /\ p' = p /\ pc' = "done"
  BY <1>1, <1>4 DEF SweepGlobal
<1>6. \A c \in Cell : mark'[c] <=> c \in Reachable0' /\ pc' # "done" /\ c <= p'
  <2>1. \A c \in Cell : mark'[c] <=> mark[c] /\ c # p
    BY <1>1, <1>2 DEF TypeOK
  <2>2. \A c \in Cell : mark[c] <=> c \in Reachable0 /\ c <= p
    BY <1>1, <1>2 DEF SweepInv
  <2>3. \A c \in Cell : pc' # "done" /\ c <= p' <=> c <= p /\ c # p
    BY <1>4, <1>5
  <2> QED
    BY <1>3, <2>1, <2>2, <2>3
<1>7. pc' = "globals" => p' \in 0 .. Reserved-1
  BY <1>4, <1>5
<1>8. SweepInv'
  BY <1>1, <1>2, <1>3, <1>6, <1>7 DEF SweepInv
<1> QED
  BY <1>1, <1>2, <1>8 DEF IInv, Marking

-----------------------------------------------------------------------------
(* The invariant holds, and what follows from it.                          *)

LEMMA InitKeeps == Init => IInv
<1> SUFFICES ASSUME Init PROVE IInv
  OBVIOUS
<1>1. TypeOK /\ Heap0OK /\ pc = "next"
  BY InitTypeOK DEF Init
<1>2. /\ heap0.type = type /\ heap0.car = car /\ heap0.cdr = cdr
      /\ heap0.roots = ToSet(todo)
      /\ flip = [c \in Cell |-> FALSE] /\ prev = NIL
      /\ free_cells = NIL /\ released = {}
  BY DEF Init
<1>3. Marked = {}
  BY DEF Init, Marked
<1>4. Untouched /\ RootsVisited
  BY <1>2 DEF Untouched, RootsVisited
<1>5. OnlyReachable
  BY <1>1, <1>3 DEF OnlyReachable
<1>6. PICK w : w \in [1 .. 0 -> Cell]
  <2>1. [i \in 1 .. 0 |-> 0] \in [1 .. 0 -> Cell]
    OBVIOUS
  <2> QED
    BY <2>1
<1>7. WayBack(0, w) /\ Recovers(0, w) /\ WayMarked(0, w) /\ LinksVisited(0, w)
  BY <1>2, <1>3 DEF WayBack, Above, Recovers, WayMarked, LinksVisited
<1>8. 0 \in 0 .. N
  BY CellFacts
<1>9. MarkInv
  BY <1>6, <1>7, <1>8 DEF MarkInv
<1> QED
  BY <1>1, <1>4, <1>5, <1>9 DEF IInv, Marking

LEMMA StutterKeeps == IInv /\ UNCHANGED vars => IInv'
<1> SUFFICES ASSUME IInv, UNCHANGED vars PROVE IInv'
  OBVIOUS
<1>1. UNCHANGED <<type, car, cdr, mark, flip, free_cells, released, pc, todo, current,
                  prev, p, heap0>>
  BY DEF vars
<1>2. TypeOK' = TypeOK /\ Heap0OK' = Heap0OK
  BY <1>1 DEF TypeOK, Heap0OK
<1>3. Reachable0' = Reachable0 /\ Marked' = Marked
  BY <1>1 DEF Reachable0, Edges0, Marked
<1>4. \A v : Visited(v)' = Visited(v)
  BY <1>1, <1>3 DEF Visited, Pending
<1>5. Untouched' = Untouched /\ RootsVisited' = RootsVisited /\ OnlyReachable' = OnlyReachable
  BY <1>1, <1>3, <1>4 DEF Untouched, RootsVisited, OnlyReachable
<1>6. \A n, w : /\ WayBack(n, w)' = WayBack(n, w) /\ Recovers(n, w)' = Recovers(n, w)
                /\ WayMarked(n, w)' = WayMarked(n, w)
  BY <1>1 DEF WayBack, Recovers, WayMarked, Above, Below
<1>7. \A n, w : LinksVisited(n, w)' = LinksVisited(n, w)
  BY <1>1, <1>3, <1>4 DEF LinksVisited
<1>8. MarkInv' = MarkInv
  BY <1>1, <1>6, <1>7 DEF MarkInv
<1>9. SweepInv' = SweepInv
  <2>1. Swept' = Swept
    BY <1>1, <1>3 DEF Swept, Garbage0
  <2> QED
    BY <1>1, <1>3, <2>1 DEF SweepInv
<1> QED
  BY <1>1, <1>2, <1>5, <1>8, <1>9 DEF IInv

LEMMA NextKeeps == IInv /\ [Next]_vars => IInv'
  BY NextRootKeeps, MarkDownKeeps, UpRightKeeps, MarkReturnKeeps, TurnRightKeeps,
     UpLeftKeeps, SweepCellKeeps, SweepGlobalKeeps, StutterKeeps DEF Next

LEMMA IInvHolds == Spec => []IInv
  BY InitKeeps, NextKeeps, PTL DEF Spec

\* The collector stays within the heap, whatever its size: mm_sweep's unsigned
\* counter never leaves it, and mm_mark follows no field that is no value.
THEOREM MarkSweepTypeOK == Spec => []TypeOK
<1>1. IInv => TypeOK
  BY DEF IInv
<1> QED
  BY <1>1, IInvHolds, PTL

\* mm_mark never loses a link: at every step the original heap can be rebuilt,
\* and the way back to the root is finite.
THEOREM LinksNeverLost == Spec => []GraphRecoverable
<1>1. IInv => GraphRecoverable
  BY DEF IInv, Marking, MarkInv, GraphRecoverable
<1> QED
  BY <1>1, IInvHolds, PTL

\* When mm_mark has returned from the last root exactly the reachable cells are
\* marked, every link is back in place and no flip bit is left.
THEOREM MarksWhatIsReachable == Spec => []MarkExact
<1>1. ASSUME IInv, pc = "sweep", p = N - 1
      PROVE  /\ {c \in Cell : mark[c]} = Reachable0
             /\ car = heap0.car /\ cdr = heap0.cdr
             /\ flip = [c \in Cell |-> FALSE]
  <2>1. SweepInv /\ Heap0OK /\ \A c \in Cell : c <= N - 1
    BY <1>1, CellFacts DEF IInv, Marking, Cell
  <2>2. {c \in Cell : mark[c]} = Reachable0
    BY <1>1, <2>1, Reachable0Closed DEF SweepInv
  <2>3. Swept = {}
    <3>1. Garbage0 \subseteq Cell
      BY CellsAreNumbers DEF Garbage0, Unmarked
    <3>2. \A c \in Cell : ~(c > p)
      BY <1>1, CellFacts DEF Cell
    <3> QED
      BY <1>1, <3>1, <3>2 DEF Swept
  <2>4. cdr = heap0.cdr
    BY <2>1, <2>3, SweptNone DEF SweepInv, Heap0OK
  <2> QED
    BY <2>1, <2>2, <2>4 DEF SweepInv
<1>2. IInv => MarkExact
  BY <1>1 DEF MarkExact
<1> QED
  BY <1>2, IInvHolds, PTL

-----------------------------------------------------------------------------
(* mm_gc implements the collection in one step.                            *)

\* The operators of Cells, as module Collector has them.
LEMMA CollectorCells ==
  /\ \A t, a, d : Atomic!Links(t, a, d) = Links(t, a, d)
  /\ \A R, E : Atomic!Reach(R, E) = Reach(R, E)
  /\ \A M : Atomic!Unmarked(M) = Unmarked(M)
  /\ \A U : Atomic!SweptHead(U) = SweptHead(U)
  /\ \A d, U : Atomic!SweptCdr(d, U) = SweptCdr(d, U)
  /\ \A t, U : Atomic!SweptType(t, U) = SweptType(t, U)
<1>1. Atomic!Cell = Cell
  BY DEF Atomic!Cell, Cell
<1>2. \A t, a, d : Atomic!Links(t, a, d) = Links(t, a, d)
  BY <1>1 DEF Atomic!Links, Links, Atomic!HasLeftLink, HasLeftLink, Atomic!HasRightLink,
              HasRightLink
<1>3. \A R, E : Atomic!ClosedSets(R, E) = ClosedSets(R, E)
  BY <1>1 DEF Atomic!ClosedSets, ClosedSets, Atomic!Supersets, Supersets, Atomic!Closed, Closed
<1>4. \A R, E : Atomic!Reach(R, E) = Reach(R, E)
  BY <1>1, <1>3 DEF Atomic!Reach, Reach
<1>5. \A M : Atomic!Unmarked(M) = Unmarked(M)
  BY DEF Atomic!Unmarked, Unmarked
<1>6. \A U : Atomic!SweptHead(U) = SweptHead(U)
  BY DEF Atomic!SweptHead, SweptHead, Atomic!Least, Least
<1>7. \A d, U : Atomic!SweptCdr(d, U) = SweptCdr(d, U)
  BY <1>1, <1>6 DEF Atomic!SweptCdr, SweptCdr, Atomic!SweptNext, SweptNext
<1>8. \A t, U : Atomic!SweptType(t, U) = SweptType(t, U)
  BY <1>1 DEF Atomic!SweptType, SweptType
<1> QED
  BY <1>2, <1>4, <1>5, <1>6, <1>7, <1>8

LEMMA CollectorGarbage == pc # "done" => Atomic!Garbage = Garbage0
  BY CollectorCells DEF Atomic!Garbage, Idle, Garbage0, Reachable0, Edges0

\* The last step of the sweep is the collection, the others do nothing.
LEMMA EndCollects ==
  ASSUME IInv, IInv', pc # "done", pc' = "done", heap0' = heap0
  PROVE  Atomic!Collect
<1>1. SweepInv' /\ Heap0OK' /\ CellType = CellType'
  BY DEF IInv, Marking
<1>2. Swept' = Garbage0
  <2>1. Garbage0' = Garbage0
    BY DEF Garbage0, Reachable0, Edges0
  <2> QED
    BY <2>1 DEF Swept
<1>3. /\ type' = SweptType(heap0.type, Garbage0)
      /\ cdr' = SweptCdr(heap0.cdr, Garbage0)
      /\ free_cells' = SweptHead(Garbage0)
      /\ released' = {c \in Garbage0 : heap0.type[c] = "VECTOR"}
      /\ car' = heap0.car
  BY <1>1, <1>2 DEF SweepInv
<1>4. {c \in Cell : mark[c] \/ flip[c]}' = {}
  BY <1>1 DEF SweepInv
<1> QED
  BY <1>3, <1>4, CollectorCells, CollectorGarbage DEF Atomic!Collect, Idle

LEMMA StepsCollect == IInv /\ IInv' /\ [Next]_vars => [Atomic!Collect]_(Atomic!vars)
<1> SUFFICES ASSUME IInv, IInv', [Next]_vars
             PROVE  Atomic!Collect \/ UNCHANGED Atomic!vars
  OBVIOUS
<1>1. heap0' = heap0
  BY DEF Next, vars, NextRoot, MarkDown, UpRight, MarkReturn, TurnRight, UpLeft,
         SweepCell, SweepGlobal
<1>2. CASE pc = "done"
  <2>1. UNCHANGED vars
    BY <1>2 DEF Next, NextRoot, MarkDown, UpRight, MarkReturn, TurnRight, UpLeft,
       SweepCell, SweepGlobal, AtTurn, AtUp, AtDown
  <2> QED
    BY <2>1 DEF vars, Atomic!vars, Idle
<1>3. CASE pc # "done" /\ pc' = "done"
  BY <1>1, <1>3, EndCollects
<1>4. CASE pc # "done" /\ pc' # "done"
  BY <1>1, <1>4 DEF Atomic!vars, Idle
<1> QED
  BY <1>2, <1>3, <1>4

(***************************************************************************)
(* mm_gc, one loop iteration at a time, implements the collection in one   *)
(* step: afterwards the cells that no root reached before it are on the    *)
(* free list in order of address, every other cell is as it was.           *)
(***************************************************************************)
THEOREM MarkSweepCollects == Spec => CollectsAtomically
<1>1. Init => Atomic!Init
  BY DEF Init, Atomic!Init, Idle
<1> QED
  BY <1>1, StepsCollect, IInvHolds, PTL DEF Spec, CollectsAtomically, Atomic!Spec

=============================================================================
