----------------------------- MODULE HeapProofs -----------------------------
(***************************************************************************)
(* What the contract of Heap guarantees, for a heap of any size and any    *)
(* number of globals: nothing that the program can reach is on the free    *)
(* list, and the free list is a list.                                      *)
(***************************************************************************)
EXTENDS Heap, CellsProofs

-----------------------------------------------------------------------------
(* Live and OnFreeList as the sets of CellsProofs.                         *)

LEMMA LiveIs ==
  /\ Live = LiveSet(Roots, type, car, cdr, stale)
  /\ Live' = LiveSet(Roots', type', car', cdr', stale')
  BY DEF Live, LiveSet, LiveEdges, Edges

LEMMA OnFreeListIs ==
  /\ OnFreeList = ListSet(free_cells, cdr)
  /\ OnFreeList' = ListSet(free_cells', cdr')
  BY DEF OnFreeList, ListSet, NextFree

LEMMA LiveClosed ==
  /\ Live \in SUBSET Cell
  /\ Roots \cap Cell \subseteq Live
  /\ KeepsLinks(Live, type, car, cdr, stale)
  BY LiveIs, LiveSetClosed

LEMMA OnFreeListClosed ==
  /\ OnFreeList \in SUBSET Cell
  /\ free_cells \in Cell => free_cells \in OnFreeList
  /\ KeepsNext(OnFreeList, cdr)
  BY OnFreeListIs, ListSetClosed

-----------------------------------------------------------------------------
(* The inductive invariant.  FreeListSound is not inductive by itself: an  *)
(* allocation keeps it only if the list consists of cells that end in NIL, *)
(* a write of the program only if it does not hit the list (LiveNotFree).  *)

HInv == HTypeOK /\ IsFreeList(free_cells, cdr) /\ LiveNotFree

LEMMA InvImpliesSound == HInv => FreeListSound
<1> SUFFICES ASSUME HInv PROVE FreeListSound
  OBVIOUS
<1>1. \A p \in OnFreeList : p \in Reserved .. N-1 /\ p \notin ListSet(cdr[p], cdr)
  BY OnFreeListIs DEF HInv, IsFreeList
<1>2. \A p : ListSet(cdr[p], cdr) = Reach({cdr[p]}, NextFree)
  BY DEF ListSet, NextFree
<1> QED
  BY <1>1, <1>2 DEF FreeListSound

LEMMA InitEstablishes == HInit => HInv
<1> SUFFICES ASSUME HInit PROVE HInv
  OBVIOUS
<1> DEFINE U == Reserved .. N-1
           none == [c \in Cell |-> NIL]
           low == {c \in Cell : c \notin U}
<1>1. U \in SUBSET Cell /\ 0 \in Cell
  BY CellsAreNumbers, SizesAssumption DEF Cell
<1>2. cdr = SweptCdr(none, U)
  BY DEF HInit, SweptCdr
<1>3. IsFreeList(free_cells, cdr) /\ OnFreeList \subseteq U
  <2>1. free_cells = SweptHead(U)
    BY DEF HInit
  <2> QED
    BY <1>2, <2>1, SweepMakesList, OnFreeListIs
<1>4. HTypeOK
  <2>1. type \in [Cell -> CellType]
    BY DEF HInit, CellType
  <2>2. car \in [Cell -> Value]
    BY <1>1 DEF HInit, Value
  <2>3. cdr \in [Cell -> Value]
    <3>1. \A c \in U : SweptNext(U, c) \in Cell \cup {NIL}
      BY <1>1, SweptNextIs
    <3> QED
      BY <3>1 DEF HInit, Value
  <2>4. free_cells \in Cell \cup {NIL}
    BY <1>3 DEF IsFreeList
  <2>5. reg \in [Register -> Value] /\ stale \subseteq Cell
    BY DEF HInit, Value
  <2> QED
    BY <2>1, <2>2, <2>3, <2>4, <2>5 DEF HTypeOK
<1>5. Live \subseteq low
  <2>1. Roots \cap Cell \subseteq low
    <3>1. \A r \in Register : reg[r] = NIL
      BY DEF HInit
    <3>2. \A c \in 0 .. Reserved-1 : c \notin U
      BY SizesAssumption
    <3> QED
      BY <3>1, <3>2, ValuesAssumption DEF Roots
  <2>2. \A c \in low : car[c] = NIL /\ cdr[c] = NIL
    BY DEF HInit
  <2>3. KeepsLinks(low, type, car, cdr, stale)
    BY <2>2, ValuesAssumption DEF KeepsLinks
  <2> QED
    BY <2>1, <2>3, LiveSetLeast, LiveIs
<1>6. LiveNotFree
  BY <1>3, <1>5 DEF LiveNotFree
<1> QED
  BY <1>3, <1>4, <1>6 DEF HInv

-----------------------------------------------------------------------------
(* Each operation of the contract keeps it.                                *)

LEMMA GlobalsAreLive == 0 .. Reserved-1 \subseteq Live
<1>1. 0 .. Reserved-1 \subseteq Cell
  BY SizesAssumption DEF Cell
<1> QED
  BY <1>1, LiveClosed DEF Roots

\* New roots that were live already, or are in X.
LEMMA RootsWithin ==
  ASSUME NEW X, Live \subseteq X, \A r \in Register : reg'[r] \in X \cup Leaf
  PROVE  Roots' \cap Cell \subseteq X
<1> SUFFICES ASSUME NEW x \in Roots', x \in Cell PROVE x \in X
  OBVIOUS
<1>1. CASE x \in 0 .. Reserved-1
  BY <1>1, GlobalsAreLive
<1>2. CASE \E r \in Register : x = reg'[r]
  BY <1>2, ValuesAssumption DEF Leaf
<1>3. x \in 0 .. Reserved-1 \/ \E r \in Register : x = reg'[r]
  BY DEF Roots
<1> QED
  BY <1>1, <1>2, <1>3

LEMMA NewKeeps == HInv /\ HNew => HInv'
<1> SUFFICES ASSUME HInv, HNew PROVE HInv'
  OBVIOUS
<1> DEFINE p == free_cells
<1>1. p \in Cell /\ p \in OnFreeList /\ p \notin Live
  BY OnFreeListClosed DEF HNew, NewCell, HInv, LiveNotFree
<1>2. /\ free_cells' = cdr[p]
      /\ \A c \in Cell \ {p} : type'[c] = type[c] /\ car'[c] = car[c] /\ cdr'[c] = cdr[c]
      /\ stale' = stale \ {p}
  BY DEF HNew, NewCell, HInv, HTypeOK
<1>3. /\ HasLeftLink(type'[p]) => car'[p] \in LiveValue
      /\ HasRightLink(type'[p]) => cdr'[p] \in LiveValue
      /\ reg' \in [Register -> LiveValue \cup {p}]
  BY DEF HNew
<1>4. IsFreeList(free_cells', cdr') /\ OnFreeList' \subseteq OnFreeList \ {p}
  <2>1. \A c \in ListSet(p, cdr) \ {p} : cdr'[c] = cdr[c]
    BY <1>2, OnFreeListIs, OnFreeListClosed
  <2>2. IsFreeList(p, cdr)
    BY DEF HInv
  <2>3. /\ IsFreeList(cdr[p], cdr')
        /\ ListSet(cdr[p], cdr') \subseteq ListSet(p, cdr) \ {p}
    BY <1>1, <2>1, <2>2, ListPopped
  <2> QED
    BY <1>2, <2>3, OnFreeListIs
<1>5. Live' \subseteq Live \cup {p}
  <2> DEFINE X == Live \cup {p}
  <2>1. X \in SUBSET Cell
    BY <1>1, LiveClosed
  <2>2. Roots' \cap Cell \subseteq X
    <3>1. \A r \in Register : reg'[r] \in X \cup Leaf
      BY <1>3 DEF LiveValue
    <3>2. Live \subseteq X
      OBVIOUS
    <3> HIDE DEF X
    <3> QED
      BY <3>1, <3>2, RootsWithin
  <2>3. ASSUME NEW c \in X \ stale'
        PROVE  /\ HasLeftLink(type'[c]) /\ car'[c] \in Cell => car'[c] \in X
               /\ HasRightLink(type'[c]) /\ cdr'[c] \in Cell => cdr'[c] \in X
    <3>1. CASE c = p
      BY <3>1, <1>3, ValuesAssumption DEF LiveValue, Leaf
    <3>2. CASE c # p
      <4>1. c \in Live \ stale /\ c \in Cell
        BY <3>2, <1>2, LiveClosed
      <4> QED
        BY <4>1, <3>2, <1>2, LiveClosed DEF KeepsLinks
    <3> QED
      BY <3>1, <3>2
  <2>4. KeepsLinks(X, type', car', cdr', stale')
    BY <2>3 DEF KeepsLinks
  <2> QED
    BY <2>1, <2>2, <2>4, LiveSetLeast, LiveIs
<1>6. LiveNotFree'
  BY <1>4, <1>5 DEF HInv, LiveNotFree
<1>7. HTypeOK'
  <2>1. /\ type' \in [Cell -> CellType]
        /\ car' \in [Cell -> Value] /\ cdr' \in [Cell -> Value]
    BY DEF HNew
  <2>2. free_cells' \in Cell \cup {NIL}
    BY <1>4 DEF IsFreeList
  <2>3. reg' \in [Register -> Value]
    BY <1>1, <1>3, LiveClosed DEF LiveValue, Leaf, Value
  <2>4. stale' \subseteq Cell
    BY <1>2 DEF HInv, HTypeOK
  <2> QED
    BY <2>1, <2>2, <2>3, <2>4 DEF HTypeOK
<1> QED
  BY <1>4, <1>6, <1>7 DEF HInv

\* Writes into live cells leave no way out of the live cells.
LEMMA WritesKeepLinks ==
  ASSUME HTypeOK, NEW c \in Live \ stale, NEW f, c # f,
         type'[c] = type[c], WritesLive(Live, f)
  PROVE  /\ HasLeftLink(type'[c]) /\ car'[c] \in Cell => car'[c] \in Live
         /\ HasRightLink(type'[c]) /\ cdr'[c] \in Cell => cdr'[c] \in Live
<1>1. c \in Cell /\ KeepsLinks(Live, type, car, cdr, stale)
  BY LiveClosed
<1>2. /\ car'[c] # car[c] => car'[c] \in Live \cup Leaf
      /\ cdr'[c] # cdr[c] => cdr'[c] \in Live \cup Leaf
  BY <1>1 DEF WritesLive
<1> QED
  BY <1>1, <1>2, ValuesAssumption DEF KeepsLinks, Leaf

\* ... and leave the free list alone.
LEMMA WritesKeepList ==
  ASSUME HInv, NEW f, f \notin OnFreeList, WritesLive(Live, f)
  PROVE  \A c \in OnFreeList : cdr'[c] = cdr[c]
  BY OnFreeListClosed DEF WritesLive, HInv, LiveNotFree

LEMMA MutateKeeps == HInv /\ HMutate => HInv'
<1> SUFFICES ASSUME HInv, HMutate PROVE HInv'
  OBVIOUS
<1>1. /\ type' = type /\ free_cells' = free_cells
      /\ WritesLive(Live, NIL) /\ reg' \in [Register -> Live \cup Leaf]
      /\ stale \subseteq stale' /\ stale' \subseteq Cell
  BY DEF HMutate
<1>2. NIL \notin Cell
  BY ValuesAssumption
<1>3. IsFreeList(free_cells', cdr') /\ OnFreeList' \subseteq OnFreeList
  <2>1. \A c \in ListSet(free_cells, cdr) : cdr'[c] = cdr[c]
    BY <1>1, <1>2, WritesKeepList, OnFreeListIs, OnFreeListClosed
  <2>2. IsFreeList(free_cells, cdr)
    BY DEF HInv
  <2> QED
    BY <1>1, <2>1, <2>2, ListUntouched, OnFreeListIs
<1>4. Live' \subseteq Live
  <2>1. Roots' \cap Cell \subseteq Live
    BY <1>1, RootsWithin
  <2>2. ASSUME NEW c \in Live \ stale'
        PROVE  /\ HasLeftLink(type'[c]) /\ car'[c] \in Cell => car'[c] \in Live
               /\ HasRightLink(type'[c]) /\ cdr'[c] \in Cell => cdr'[c] \in Live
    <3>1. c \in Live \ stale /\ c # NIL
      BY <1>1, <1>2, LiveClosed
    <3> QED
      BY <1>1, <3>1, WritesKeepLinks DEF HInv
  <2>3. KeepsLinks(Live, type', car', cdr', stale')
    BY <2>2 DEF KeepsLinks
  <2> QED
    BY <2>1, <2>3, LiveClosed, LiveSetLeast, LiveIs
<1>5. LiveNotFree'
  BY <1>3, <1>4 DEF HInv, LiveNotFree
<1>6. HTypeOK'
  BY <1>1, LiveClosed DEF HInv, HTypeOK, WritesLive, Leaf, Value
<1> QED
  BY <1>3, <1>5, <1>6 DEF HInv

LEMMA ReleaseKeeps == HInv /\ HRelease => HInv'
<1> SUFFICES ASSUME HInv, HRelease PROVE HInv'
  OBVIOUS
<1> DEFINE f == reg["env"]
<1>1. /\ f \in Reserved .. N-1
      /\ type' = [type EXCEPT ![f] = "CONS"]
      /\ free_cells' = f
      /\ WritesLive(Live, f) /\ reg' \in [Register -> Live \cup Leaf]
      /\ cdr'[f] = free_cells
      /\ stale \subseteq stale' /\ stale' \subseteq Cell
      /\ f \notin Live'
  BY DEF HRelease
<1>2. f \in Cell /\ f \in Live /\ f \notin OnFreeList
  <2>1. f \in Roots
    BY DEF Roots, Register
  <2>2. f \in Cell
    BY <1>1, CellsAreNumbers
  <2> QED
    BY <2>1, <2>2, LiveClosed DEF HInv, LiveNotFree
<1>3. IsFreeList(free_cells', cdr') /\ OnFreeList' \subseteq OnFreeList \cup {f}
  <2>1. \A c \in ListSet(free_cells, cdr) : cdr'[c] = cdr[c]
    BY <1>1, <1>2, WritesKeepList, OnFreeListIs
  <2>2. IsFreeList(free_cells, cdr) /\ f \notin ListSet(free_cells, cdr)
    BY <1>2, OnFreeListIs DEF HInv
  <2>3. /\ IsFreeList(f, cdr')
        /\ ListSet(f, cdr') \subseteq ListSet(free_cells, cdr) \cup {f}
    BY <1>1, <2>1, <2>2, ListPushed
  <2> QED
    BY <1>1, <2>3, OnFreeListIs
<1>4. Live' \subseteq Live
  <2> DEFINE X == Live \cap Live'
  <2>1. /\ Live' \in SUBSET Cell
        /\ Roots' \cap Cell \subseteq Live'
        /\ KeepsLinks(Live', type', car', cdr', stale')
    BY LiveIs, LiveSetClosed
  <2>2. Roots' \cap Cell \subseteq X
    BY <1>1, <2>1, RootsWithin
  <2>3. ASSUME NEW c \in X \ stale'
        PROVE  /\ HasLeftLink(type'[c]) /\ car'[c] \in Cell => car'[c] \in X
               /\ HasRightLink(type'[c]) /\ cdr'[c] \in Cell => cdr'[c] \in X
    <3>1. c \in Live \ stale /\ c # f /\ c \in Cell
      BY <1>1, LiveClosed
    <3>2. type'[c] = type[c]
      BY <1>1, <3>1 DEF HInv, HTypeOK
    <3>3. /\ HasLeftLink(type'[c]) /\ car'[c] \in Cell => car'[c] \in Live
          /\ HasRightLink(type'[c]) /\ cdr'[c] \in Cell => cdr'[c] \in Live
      BY <1>1, <3>1, <3>2, WritesKeepLinks DEF HInv
    <3> QED
      BY <2>1, <3>3 DEF KeepsLinks
  <2>4. KeepsLinks(X, type', car', cdr', stale')
    BY <2>3 DEF KeepsLinks
  <2>5. X \in SUBSET Cell
    BY <2>1
  <2> QED
    BY <2>2, <2>4, <2>5, LiveSetLeast, LiveIs
<1>5. LiveNotFree'
  BY <1>1, <1>3, <1>4 DEF HInv, LiveNotFree
<1>6. HTypeOK'
  BY <1>1, <1>2, LiveClosed DEF HInv, HTypeOK, WritesLive, Leaf, Value, CellType
<1> QED
  BY <1>3, <1>5, <1>6 DEF HInv

LEMMA CollectKeeps == HInv /\ CollectGarbage => HInv'
<1> SUFFICES ASSUME HInv, CollectGarbage PROVE HInv'
  OBVIOUS
<1> DEFINE M == Reach(Roots, Edges)
           U == Unmarked(M)
<1>1. /\ type' = SweptType(type, U)
      /\ cdr' = SweptCdr(cdr, U)
      /\ free_cells' = SweptHead(U)
      /\ stale' = stale \ U
      /\ car' = car /\ reg' = reg
  BY DEF CollectGarbage
<1>2. U \in SUBSET (Reserved .. N-1) /\ U \in SUBSET Cell /\ M \cap U = {}
  BY CellsAreNumbers DEF Unmarked
<1>3. /\ M \in SUBSET Cell
      /\ Roots \cap Cell \subseteq M
      /\ KeepsLinks(M, type, car, cdr, {})
  <2>1. M = LiveSet(Roots, type, car, cdr, {})
    <3>1. Edges = {e \in Links(type, car, cdr) : e[1] \notin {}}
      BY DEF Edges
    <3> QED
      BY <3>1 DEF LiveSet
  <2> HIDE DEF M
  <2> QED
    BY <2>1, LiveSetClosed
<1> HIDE DEF M
<1>4. IsFreeList(free_cells', cdr') /\ OnFreeList' \subseteq U
  BY <1>1, <1>2, SweepMakesList, OnFreeListIs
<1>5. Live' \subseteq M
  <2>1. Roots' \cap Cell \subseteq M
    BY <1>1, <1>3 DEF Roots
  <2>2. ASSUME NEW c \in M \ stale'
        PROVE  /\ HasLeftLink(type'[c]) /\ car'[c] \in Cell => car'[c] \in M
               /\ HasRightLink(type'[c]) /\ cdr'[c] \in Cell => cdr'[c] \in M
    <3>1. c \in Cell /\ c \notin U
      BY <1>2, <1>3
    <3>2. type'[c] = type[c] /\ car'[c] = car[c] /\ cdr'[c] = cdr[c]
      BY <1>1, <3>1 DEF SweptType, SweptCdr
    <3> QED
      BY <1>3, <3>2 DEF KeepsLinks
  <2>3. KeepsLinks(M, type', car', cdr', stale')
    BY <2>2 DEF KeepsLinks
  <2> QED
    BY <1>3, <2>1, <2>3, LiveSetLeast, LiveIs
<1>6. LiveNotFree'
  BY <1>2, <1>4, <1>5 DEF LiveNotFree
<1>7. HTypeOK'
  <2>1. type' \in [Cell -> CellType]
    BY <1>1 DEF SweptType, HInv, HTypeOK, CellType
  <2>2. cdr' \in [Cell -> Value]
    <3>1. \A c \in U : SweptNext(U, c) \in Cell \cup {NIL}
      BY <1>2, SweptNextIs
    <3> QED
      BY <1>1, <3>1 DEF SweptCdr, HInv, HTypeOK, Value
  <2>3. free_cells' \in Cell \cup {NIL}
    BY <1>4 DEF IsFreeList
  <2> QED
    BY <1>1, <2>1, <2>2, <2>3 DEF HInv, HTypeOK
<1> QED
  BY <1>4, <1>6, <1>7 DEF HInv

LEMMA NextKeeps == HInv /\ [HNext]_hvars => HInv'
<1> SUFFICES ASSUME HInv, [HNext]_hvars PROVE HInv'
  OBVIOUS
<1>1. CASE UNCHANGED hvars
  <2>1. /\ type' = type /\ car' = car /\ cdr' = cdr /\ free_cells' = free_cells
        /\ reg' = reg /\ stale' = stale
    BY <1>1 DEF hvars
  <2>2. Roots' = Roots
    BY <2>1 DEF Roots
  <2>3. Live' = Live /\ OnFreeList' = OnFreeList
    BY <2>1, <2>2, LiveIs, OnFreeListIs
  <2> QED
    BY <2>1, <2>3 DEF HInv, HTypeOK, LiveNotFree
<1> QED
  BY <1>1, NewKeeps, MutateKeeps, ReleaseKeeps, CollectKeeps DEF HNext

LEMMA InvHolds == HSpec => []HInv
  BY InitEstablishes, NextKeeps, PTL DEF HSpec

-----------------------------------------------------------------------------
(***************************************************************************)
(* Under the contract every cell keeps a type and fields that the macros   *)
(* of vm_arch.h can read, and free_cells is a cell or NIL.                 *)
(***************************************************************************)
THEOREM HeapTypeOK == HSpec => []HTypeOK
<1>1. HInv => HTypeOK
  BY DEF HInv
<1> QED
  BY <1>1, InvHolds, PTL

(***************************************************************************)
(* Under the contract no allocation hands out a cell that the program can  *)
(* still reach: pop's manual recycling and mm_gc agree, whatever the size  *)
(* of the heap.                                                            *)
(***************************************************************************)
THEOREM HeapLiveNotFree == HSpec => []LiveNotFree
<1>1. HInv => LiveNotFree
  BY DEF HInv
<1> QED
  BY <1>1, InvHolds, PTL

(***************************************************************************)
(* Under the contract the free list never takes in a global and never      *)
(* loops: mm_new_ram_cell and the walk of check_free_list come to its end. *)
(***************************************************************************)
THEOREM HeapFreeListSound == HSpec => []FreeListSound
  BY InvImpliesSound, InvHolds, PTL

=============================================================================
