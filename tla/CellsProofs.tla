---------------------------- MODULE CellsProofs ----------------------------
(***************************************************************************)
(* Lemmas about the operators of Cells, cited by the proofs about the heap *)
(* and about its collector: the least address of a set, reachability, the  *)
(* live cells, the free list and the list that a sweep builds.             *)
(*                                                                         *)
(* Everything is argued on sets that are closed under links.  Reach is the *)
(* least of them (ReachLeast), and is one of them itself (ReachClosed), so *)
(* an upper bound of what is reachable after a step is any set that holds  *)
(* the new roots and that the new links do not leave.                      *)
(***************************************************************************)
EXTENDS Cells, TLAPS, WellFoundedInduction

-----------------------------------------------------------------------------
(* The least element of a set of numbers.                                  *)

Less == {ss \in Nat \X Nat : ss[1] < ss[2]}

LEMMA LessWellFounded == IsWellFoundedOn(Less, Nat)
  BY NatLessThanWellFounded DEF OpToRel, Less

\* Least is what its name says, on every nonempty set of numbers.
LEMMA LeastIsLeast ==
  ASSUME NEW S \in SUBSET Nat, S # {}
  PROVE  Least(S) \in S /\ \A y \in S : Least(S) <= y
<1>1. PICK x \in S : \A y \in S : ~(<<y, x>> \in Less)
  BY LessWellFounded, WFMin
<1>2. ASSUME NEW y \in S PROVE x <= y
  <2>1. <<y, x>> \notin Less
    BY <1>1
  <2>2. ~(y < x)
    BY <2>1 DEF Less
  <2> QED
    BY <2>2
<1> QED
  BY <1>2 DEF Least

-----------------------------------------------------------------------------
(* Reachability.                                                           *)

LEMMA ClosedSetsAre ==
  ASSUME NEW R, NEW E, NEW X
  PROVE  X \in ClosedSets(R, E) <=>
           X \in SUBSET Cell /\ R \cap Cell \subseteq X /\ Closed(X, E)
<1>1. X \in Supersets(R) => X \in SUBSET Cell /\ R \cap Cell \subseteq X
  BY DEF Supersets
<1>2. ASSUME X \in SUBSET Cell, R \cap Cell \subseteq X
      PROVE  X \in Supersets(R)
  <2>1. X \ R \in SUBSET (Cell \ R)
    BY <1>2
  <2>2. X = (X \ R) \cup (R \cap Cell)
    BY <1>2
  <2> QED
    BY <2>1, <2>2 DEF Supersets
<1> QED
  BY <1>1, <1>2 DEF ClosedSets

LEMMA ReachIs ==
  ASSUME NEW R, NEW E
  PROVE  Reach(R, E) = {c \in Cell : \A X \in ClosedSets(R, E) : c \in X}
  BY DEF Reach

\* What is reachable lies in every closed set that holds the roots.
LEMMA ReachLeast ==
  ASSUME NEW R, NEW E, NEW X \in SUBSET Cell,
         R \cap Cell \subseteq X, Closed(X, E)
  PROVE  Reach(R, E) \subseteq X
  BY ReachIs, ClosedSetsAre

\* It holds the roots and is closed itself.
LEMMA ReachClosed ==
  ASSUME NEW R, NEW E, \A e \in E : e[2] \in Cell
  PROVE  /\ Reach(R, E) \in SUBSET Cell
         /\ R \cap Cell \subseteq Reach(R, E)
         /\ Closed(Reach(R, E), E)
<1>1. Reach(R, E) \in SUBSET Cell /\ R \cap Cell \subseteq Reach(R, E)
  BY ReachIs, ClosedSetsAre
<1>2. ASSUME NEW e \in E, e[1] \in Reach(R, E)
      PROVE  e[2] \in Reach(R, E)
  <2>1. \A X \in ClosedSets(R, E) : e[2] \in X
    BY <1>2, ReachIs, ClosedSetsAre DEF Closed
  <2> QED
    BY <2>1, ReachIs
<1> QED
  BY <1>1, <1>2 DEF Closed

-----------------------------------------------------------------------------
(* The two uses of Reach, cell by cell: the links of live cells, and the   *)
(* chain of the free list.                                                 *)

LiveSet(R, t, a, d, st) == Reach(R, {e \in Links(t, a, d) : e[1] \notin st})

KeepsLinks(X, t, a, d, st) ==
  \A c \in X \ st :
    /\ HasLeftLink(t[c]) /\ a[c] \in Cell => a[c] \in X
    /\ HasRightLink(t[c]) /\ d[c] \in Cell => d[c] \in X

LEMMA KeepsLinksIsClosed ==
  ASSUME NEW t, NEW a, NEW d, NEW st, NEW X \in SUBSET Cell
  PROVE  KeepsLinks(X, t, a, d, st) <=>
           Closed(X, {e \in Links(t, a, d) : e[1] \notin st})
<1>1. ASSUME KeepsLinks(X, t, a, d, st),
             NEW e \in Links(t, a, d), e[1] \notin st, e[1] \in X
      PROVE  e[2] \in X
  BY <1>1 DEF KeepsLinks, Links
<1>2. ASSUME Closed(X, {e \in Links(t, a, d) : e[1] \notin st}), NEW c \in X \ st
      PROVE  /\ HasLeftLink(t[c]) /\ a[c] \in Cell => a[c] \in X
             /\ HasRightLink(t[c]) /\ d[c] \in Cell => d[c] \in X
  <2>1. ASSUME HasLeftLink(t[c]), a[c] \in Cell PROVE a[c] \in X
    <3>1. <<c, a[c]>> \in Links(t, a, d)
      BY <2>1 DEF Links
    <3> QED
      BY <3>1, <1>2 DEF Closed
  <2>2. ASSUME HasRightLink(t[c]), d[c] \in Cell PROVE d[c] \in X
    <3>1. <<c, d[c]>> \in Links(t, a, d)
      BY <2>2 DEF Links
    <3> QED
      BY <3>1, <1>2 DEF Closed
  <2> QED
    BY <2>1, <2>2
<1>3. KeepsLinks(X, t, a, d, st) =>
        Closed(X, {e \in Links(t, a, d) : e[1] \notin st})
  BY <1>1 DEF Closed
<1>4. Closed(X, {e \in Links(t, a, d) : e[1] \notin st}) =>
        KeepsLinks(X, t, a, d, st)
  BY <1>2 DEF KeepsLinks
<1> QED
  BY <1>3, <1>4

LEMMA LiveSetLeast ==
  ASSUME NEW R, NEW t, NEW a, NEW d, NEW st, NEW X \in SUBSET Cell,
         R \cap Cell \subseteq X, KeepsLinks(X, t, a, d, st)
  PROVE  LiveSet(R, t, a, d, st) \subseteq X
<1>1. Closed(X, {e \in Links(t, a, d) : e[1] \notin st})
  BY KeepsLinksIsClosed
<1> QED
  BY <1>1, ReachLeast DEF LiveSet

LEMMA LiveSetClosed ==
  ASSUME NEW R, NEW t, NEW a, NEW d, NEW st
  PROVE  /\ LiveSet(R, t, a, d, st) \in SUBSET Cell
         /\ R \cap Cell \subseteq LiveSet(R, t, a, d, st)
         /\ KeepsLinks(LiveSet(R, t, a, d, st), t, a, d, st)
<1> DEFINE E == {e \in Links(t, a, d) : e[1] \notin st}
<1>1. \A e \in E : e[2] \in Cell
  BY DEF Links
<1>2. /\ Reach(R, E) \in SUBSET Cell
      /\ R \cap Cell \subseteq Reach(R, E)
      /\ Closed(Reach(R, E), E)
  BY <1>1, ReachClosed
<1> QED
  BY <1>2, KeepsLinksIsClosed DEF LiveSet

ListSet(h, d) == Reach({h}, {<<c, d[c]>> : c \in {c \in Cell : d[c] \in Cell}})

KeepsNext(X, d) == \A c \in X : d[c] \in Cell => d[c] \in X

LEMMA KeepsNextIsClosed ==
  ASSUME NEW d, NEW X \in SUBSET Cell
  PROVE  KeepsNext(X, d) <=>
           Closed(X, {<<c, d[c]>> : c \in {c \in Cell : d[c] \in Cell}})
<1> DEFINE E == {<<c, d[c]>> : c \in {c \in Cell : d[c] \in Cell}}
<1>1. ASSUME Closed(X, E), NEW c \in X, d[c] \in Cell PROVE d[c] \in X
  <2>1. <<c, d[c]>> \in E
    BY <1>1
  <2> QED
    BY <2>1, <1>1 DEF Closed
<1>2. ASSUME KeepsNext(X, d), NEW e \in E, e[1] \in X PROVE e[2] \in X
  BY <1>2 DEF KeepsNext
<1>3. Closed(X, E) => KeepsNext(X, d)
  BY <1>1 DEF KeepsNext
<1>4. KeepsNext(X, d) => Closed(X, E)
  BY <1>2 DEF Closed
<1> QED
  BY <1>3, <1>4

LEMMA ListSetLeast ==
  ASSUME NEW h, NEW d, NEW X \in SUBSET Cell, h \in Cell => h \in X, KeepsNext(X, d)
  PROVE  ListSet(h, d) \subseteq X
<1>1. Closed(X, {<<c, d[c]>> : c \in {c \in Cell : d[c] \in Cell}})
  BY KeepsNextIsClosed
<1>2. {h} \cap Cell \subseteq X
  OBVIOUS
<1> QED
  BY <1>1, <1>2, ReachLeast DEF ListSet

LEMMA ListSetClosed ==
  ASSUME NEW h, NEW d
  PROVE  /\ ListSet(h, d) \in SUBSET Cell
         /\ h \in Cell => h \in ListSet(h, d)
         /\ KeepsNext(ListSet(h, d), d)
<1> DEFINE E == {<<c, d[c]>> : c \in {c \in Cell : d[c] \in Cell}}
<1>1. \A e \in E : e[2] \in Cell
  OBVIOUS
<1>2. /\ Reach({h}, E) \in SUBSET Cell
      /\ {h} \cap Cell \subseteq Reach({h}, E)
      /\ Closed(Reach({h}, E), E)
  BY <1>1, ReachClosed
<1> QED
  BY <1>2, KeepsNextIsClosed DEF ListSet

-----------------------------------------------------------------------------
(* The list that a sweep builds over the cells of U.                       *)

LEMMA CellsAreNumbers ==
  /\ Cell \in SUBSET Nat
  /\ Reserved \in Nat
  /\ \A c \in Reserved .. N-1 : c \in Cell
<1>1. N \in Nat /\ Reserved \in Nat
  BY SizesAssumption
<1> QED
  BY <1>1 DEF Cell

LEMMA SweptHeadIs ==
  ASSUME NEW U \in SUBSET Cell
  PROVE  /\ U = {} => SweptHead(U) = NIL
         /\ U # {} => SweptHead(U) \in U
<1>1. U \in SUBSET Nat
  BY CellsAreNumbers
<1> QED
  BY <1>1, LeastIsLeast DEF SweptHead

LEMMA SweptNextIs ==
  ASSUME NEW U \in SUBSET Cell, NEW p \in U
  PROVE  SweptNext(U, p) \in {q \in U : q > p} \cup {NIL}
  BY SweptHeadIs DEF SweptNext

(***************************************************************************)
(* The free list: its cells lie above the globals, its last cdr is NIL,    *)
(* and it does not loop.  d is the cdr field of the cells, h the head.     *)
(***************************************************************************)
IsFreeList(h, d) ==
  /\ h \in Cell \cup {NIL}
  /\ \A c \in ListSet(h, d) :
       /\ c \in Reserved .. N-1
       /\ d[c] \in Cell \cup {NIL}
       /\ c \notin ListSet(d[c], d)

\* Sweeping the cells of U makes a free list of cells of U.
LEMMA SweepMakesList ==
  ASSUME NEW U \in SUBSET (Reserved .. N-1), NEW d, NEW d0,
         d = SweptCdr(d0, U)
  PROVE  IsFreeList(SweptHead(U), d) /\ ListSet(SweptHead(U), d) \subseteq U
<1>1. U \in SUBSET Cell /\ NIL \notin U
  BY CellsAreNumbers, ValuesAssumption
<1>2. \A p \in U : d[p] \in {q \in U : q > p} \cup {NIL}
  BY <1>1, SweptNextIs DEF SweptCdr
<1>3. ListSet(SweptHead(U), d) \subseteq U
  <2>1. SweptHead(U) \in Cell => SweptHead(U) \in U
    BY <1>1, SweptHeadIs, ValuesAssumption
  <2>2. KeepsNext(U, d)
    BY <1>2, ValuesAssumption DEF KeepsNext
  <2> QED
    BY <1>1, <2>1, <2>2, ListSetLeast
<1>4. ASSUME NEW c \in U PROVE c \notin ListSet(d[c], d)
  <2> DEFINE above == {q \in U : q > c}
  <2>1. above \in SUBSET Cell /\ c \notin above
    <3>1. c \in Nat
      BY <1>1, CellsAreNumbers
    <3>2. ~(c > c)
      BY <3>1
    <3> QED
      BY <1>1, <3>2
  <2>2. d[c] \in Cell => d[c] \in above
    BY <1>2, ValuesAssumption
  <2>3. ASSUME NEW q \in above, d[q] \in Cell PROVE d[q] \in above
    <3>1. d[q] \in U /\ d[q] > q
      BY <1>2, <2>3, ValuesAssumption
    <3>2. c \in Nat /\ q \in Nat /\ d[q] \in Nat
      BY <1>1, <3>1, CellsAreNumbers
    <3> QED
      BY <3>1, <3>2
  <2>4. KeepsNext(above, d)
    BY <2>3 DEF KeepsNext
  <2> QED
    BY <2>1, <2>2, <2>4, ListSetLeast
<1>5. SweptHead(U) \in Cell \cup {NIL}
  BY <1>1, SweptHeadIs
<1>6. \A c \in U : d[c] \in Cell \cup {NIL}
  BY <1>1, <1>2
<1> QED
  BY <1>3, <1>4, <1>5, <1>6 DEF IsFreeList

\* A part of the list that a step leaves alone stays a part of it.
LEMMA SameLinksSameList ==
  ASSUME NEW d, NEW d2, NEW v, NEW X \in SUBSET Cell,
         v \in Cell => v \in X, KeepsNext(X, d), \A c \in X : d2[c] = d[c]
  PROVE  ListSet(v, d2) \subseteq ListSet(v, d)
<1> DEFINE Y == ListSet(v, d)
<1>1. Y \subseteq X
  BY ListSetLeast
<1>2. Y \in SUBSET Cell /\ (v \in Cell => v \in Y) /\ KeepsNext(Y, d)
  BY ListSetClosed
<1>3. KeepsNext(Y, d2)
  BY <1>1, <1>2 DEF KeepsNext
<1> QED
  BY <1>2, <1>3, ListSetLeast

LEMMA ListUntouched ==
  ASSUME NEW h, NEW d, NEW d2, IsFreeList(h, d),
         \A c \in ListSet(h, d) : d2[c] = d[c]
  PROVE  IsFreeList(h, d2) /\ ListSet(h, d2) \subseteq ListSet(h, d)
<1> DEFINE F == ListSet(h, d)
<1>1. F \in SUBSET Cell /\ (h \in Cell => h \in F) /\ KeepsNext(F, d)
  BY ListSetClosed
<1>2. ListSet(h, d2) \subseteq F
  BY <1>1, SameLinksSameList
<1>3. ASSUME NEW c \in F PROVE c \notin ListSet(d2[c], d2)
  <2>1. c \notin ListSet(d[c], d) /\ d2[c] = d[c]
    BY DEF IsFreeList
  <2>2. d[c] \in Cell => d[c] \in F
    BY <1>1 DEF KeepsNext
  <2>3. ListSet(d[c], d2) \subseteq ListSet(d[c], d)
    BY <1>1, <2>2, SameLinksSameList
  <2> QED
    BY <2>1, <2>3
<1> QED
  BY <1>2, <1>3 DEF IsFreeList

LEMMA ListPopped ==
  ASSUME NEW h \in Cell, NEW d, NEW d2, IsFreeList(h, d),
         \A c \in ListSet(h, d) \ {h} : d2[c] = d[c]
  PROVE  /\ IsFreeList(d[h], d2)
         /\ ListSet(d[h], d2) \subseteq ListSet(h, d) \ {h}
<1> DEFINE F == ListSet(h, d)
           G == ListSet(d[h], d)
<1>1. F \in SUBSET Cell /\ h \in F /\ KeepsNext(F, d)
  BY ListSetClosed
<1>2. G \in SUBSET Cell /\ (d[h] \in Cell => d[h] \in G) /\ KeepsNext(G, d)
  BY ListSetClosed
<1>3. h \notin G /\ d[h] \in Cell \cup {NIL}
  BY <1>1 DEF IsFreeList
<1>4. G \subseteq F
  <2>1. d[h] \in Cell => d[h] \in F
    BY <1>1 DEF KeepsNext
  <2> QED
    BY <1>1, <2>1, ListSetLeast
<1>5. \A c \in G : d2[c] = d[c]
  BY <1>3, <1>4
<1>6. IsFreeList(d[h], d)
  BY <1>3, <1>4 DEF IsFreeList
<1>7. IsFreeList(d[h], d2) /\ ListSet(d[h], d2) \subseteq G
  BY <1>5, <1>6, ListUntouched
<1> QED
  BY <1>3, <1>4, <1>7

LEMMA ListPushed ==
  ASSUME NEW h, NEW d, NEW d2, NEW f \in Reserved .. N-1,
         IsFreeList(h, d), f \notin ListSet(h, d),
         d2[f] = h, \A c \in ListSet(h, d) : d2[c] = d[c]
  PROVE  IsFreeList(f, d2) /\ ListSet(f, d2) \subseteq ListSet(h, d) \cup {f}
<1> DEFINE F == ListSet(h, d)
<1>1. F \in SUBSET Cell /\ (h \in Cell => h \in F) /\ KeepsNext(F, d)
  BY ListSetClosed
<1>2. IsFreeList(h, d2) /\ ListSet(h, d2) \subseteq F
  BY ListUntouched
<1>3. f \in Cell
  BY CellsAreNumbers
<1>4. KeepsNext(F \cup {f}, d2)
  BY <1>1 DEF KeepsNext
<1>5. ListSet(f, d2) \subseteq F \cup {f}
  BY <1>1, <1>3, <1>4, ListSetLeast
<1>6. f \notin ListSet(d2[f], d2)
  BY <1>2
<1>7. ASSUME NEW c \in F
      PROVE  /\ c \in Reserved .. N-1
             /\ d2[c] \in Cell \cup {NIL}
             /\ c \notin ListSet(d2[c], d2)
  <2>1. /\ c \in Reserved .. N-1
        /\ d[c] \in Cell \cup {NIL}
        /\ c \notin ListSet(d[c], d)
    BY DEF IsFreeList
  <2>2. d2[c] = d[c] /\ (d[c] \in Cell => d[c] \in F)
    BY <1>1 DEF KeepsNext
  <2>3. ListSet(d[c], d2) \subseteq ListSet(d[c], d)
    BY <1>1, <2>2, SameLinksSameList
  <2> QED
    BY <2>1, <2>2, <2>3
<1>8. h \in Cell \cup {NIL}
  BY DEF IsFreeList
<1> QED
  BY <1>3, <1>5, <1>6, <1>7, <1>8 DEF IsFreeList

=============================================================================
