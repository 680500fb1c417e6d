------------------------------ MODULE VMProofs ------------------------------
(***************************************************************************)
(* The instructions of VM keep the contract of Heap, for a heap of any     *)
(* size and any program that resumes no continuation twice.                *)
(*                                                                         *)
(* The point is pop(): it puts the cell that env leaves on the free list,  *)
(* whoever else may lead to it.  So the invariant says of every live cell  *)
(* who may lead to it: some cells have one owner, a frame, and the others  *)
(* are public.                                                             *)
(***************************************************************************)
EXTENDS VM, HeapProofs, FiniteSetTheorems, SequenceTheorems

-----------------------------------------------------------------------------
(***************************************************************************)
(* The frames: the running one, and those put aside by a continuation that *)
(* is public and not resumed yet.  at[o][i] is the i-th temporary of frame *)
(* o, from the top of its stack; at[o][0] is the closure that save_cont    *)
(* makes for it.  m is the step that the machine takes next.               *)
(***************************************************************************)
Running == N
Owner   == Cell \cup {Running}
Places  == [Owner -> [Nat -> Cell]]

Frames(P) == {k \in P : type[k] = "CONTINUATION" /\ k \notin stale}
Height(o) == IF o = Running THEN depth ELSE Len(frame[o])

Slot(P, m, o, i) ==
  /\ o \in Frames(P) \cup {Running}
  /\ i \in 0 .. Height(o)
  /\ i = 0 => o # Running \/ m = "save_cont"

Own(P, at, m) == {c \in Cell : \E o \in Owner, i \in Nat : Slot(P, m, o, i) /\ c = at[o][i]}
Temps(at)     == {at[Running][i] : i \in 1 .. depth}

\* v leads to what comes after the i-th temporary.
After(P, at, o, i, v) ==
  IF i < Height(o) THEN v = at[o][i+1] ELSE v \in P \cup Leaf

\* Every place has a cell of its own, and none of them is public.
Apart(P, at, m) ==
  /\ \A o \in Owner, i \in Nat : Slot(P, m, o, i) => at[o][i] \notin P
  /\ \A o, q \in Owner, i, j \in Nat :
       Slot(P, m, o, i) /\ Slot(P, m, q, j) /\ at[o][i] = at[q][j] => o = q /\ i = j

TempOK(P, at, o, i) ==
  /\ type[at[o][i]] = "CONS"
  /\ car[at[o][i]] \in P \cup Leaf
  /\ After(P, at, o, i, cdr[at[o][i]])

ClosureOK(P, at, o) ==
  /\ type[at[o][0]] = "CLOSURE"
  /\ After(P, at, o, 0, car[at[o][0]])

PutAside(at, k) ==
  /\ cdr[k] = at[k][0]
  /\ \A i \in 1 .. Height(k) : car[at[k][i]] = frame[k][i]

PublicOK(P) ==
  /\ \A c \in P \ stale :
       /\ HasLeftLink(type[c]) => car[c] \in P \cup Leaf
       /\ type[c] = "CONS" => cdr[c] \in P \cup Leaf
  /\ \A c \in 0 .. Reserved-1 : c \in P /\ type[c] = "CONS"
  /\ \A c \in stale : type[c] = "CONTINUATION"

Shape(P, at, m) ==
  /\ PublicOK(P)
  /\ Apart(P, at, m)
  /\ \A o \in Owner, i \in Nat : Slot(P, m, o, i) /\ i > 0 => TempOK(P, at, o, i)
  /\ \A o \in Owner : Slot(P, m, o, 0) => ClosureOK(P, at, o)
  /\ \A k \in Frames(P) : PutAside(at, k)

(***************************************************************************)
(* The registers hold public values, but for env and the few that lead to  *)
(* the running frame in the middle of an instruction.                      *)
(***************************************************************************)
Closing == {"closure", "store_closure"}

Tied(m) == CASE m = "push_clear" -> {"env", "reg1"}
             [] m \in Closing    -> {"env", "reg2"}
             [] m = "save_cont"  -> {"env", "reg4"}
             [] OTHER            -> {"env"}

\* A value that is only in a local of the C code is kept alive by reg1.
PendingKept ==
  \/ pend.v \in Leaf \cup {reg["reg1"]}
  \/ IsPair(reg["reg1"]) /\ pend.v = car[reg["reg1"]]

Registers(P, at, m) ==
  /\ \A r \in Register \ Tied(m) : reg[r] \in P \cup Leaf
  /\ pend.v \in P \cup Leaf /\ PendingKept
  /\ m \in Closing \cup {"graft_enter"} => depth > 0
  /\ IF m \in Closing THEN /\ After(P, at, Running, 0, reg["reg2"])
                           /\ After(P, at, Running, 1, reg["env"])
     ELSE After(P, at, Running, 0, reg["env"])
  /\ m = "push_clear" => reg["reg1"] \in P \cup Leaf \cup Temps(at)
  /\ m = "save_cont" => reg["reg4"] = at[Running][0]

Types ==
  /\ HTypeOK
  /\ pend \in [op : Steps, v : Value]
  /\ depth \in Nat
  /\ frame \in [Cell -> Seq(Value)]

Fits(P, at, m) ==
  /\ P \in SUBSET Cell /\ at \in Places /\ m \in Steps
  /\ pend.op # "stopped" => m = pend.op
  /\ Shape(P, at, m) /\ Registers(P, at, m)

VInv == HInv /\ Types /\ \E P, at, m : Fits(P, at, m)

-----------------------------------------------------------------------------
(* Types.                                                                  *)

LEMMA OwnerFacts ==
  /\ N \in Nat \ {0} /\ Running \notin Cell /\ Running \in Owner /\ Cell \subseteq Owner
  /\ NIL \notin Cell /\ Leaf \cap Cell = {} /\ NIL \in Leaf
  /\ Cell \in SUBSET Nat
  /\ Value = Cell \cup Leaf
  BY SizesAssumption, ValuesAssumption DEF Running, Owner, Cell, Value, Leaf

LEMMA HeightIs ==
  ASSUME Types
  PROVE  /\ Height(Running) = depth /\ depth \in Nat
         /\ \A k \in Cell : Height(k) = Len(frame[k]) /\ Height(k) \in Nat
  BY OwnerFacts DEF Types, Height

LEMMA PlaceIsCell ==
  ASSUME NEW at \in Places, NEW o \in Owner, NEW i \in Nat
  PROVE  at[o][i] \in Cell
  BY DEF Places

LEMMA FramesAre ==
  ASSUME NEW P \in SUBSET Cell
  PROVE  Frames(P) \in SUBSET Cell /\ Frames(P) \subseteq Owner
  BY OwnerFacts DEF Frames, Owner

\* A register holds something live, or the end of a list.
LEMMA RegistersLive == Types => \A r \in Register : reg[r] \in Live \cup Leaf
<1> SUFFICES ASSUME Types, NEW r \in Register PROVE reg[r] \in Live \cup Leaf
  OBVIOUS
<1>1. reg[r] \in Value /\ reg[r] \in Roots
  BY DEF Types, HTypeOK, Roots
<1> QED
  BY <1>1, OwnerFacts, LiveClosed

-----------------------------------------------------------------------------
(***************************************************************************)
(* What is live is public or has an owner, and the other way round: the    *)
(* public cells can be taken to be live.                                   *)
(***************************************************************************)

LEMMA FramesWithin ==
  ASSUME NEW P \in SUBSET Cell, NEW Q \in SUBSET P, NEW m, NEW o, NEW i
  PROVE  /\ Frames(Q) = Frames(P) \cap Q
         /\ Slot(Q, m, o, i) <=> Slot(P, m, o, i) /\ (o = Running \/ o \in Q)
  BY OwnerFacts DEF Frames, Slot

LEMMA AfterWithin ==
  ASSUME NEW P \in SUBSET Cell, NEW at \in Places, NEW m, NEW o, NEW i \in Nat, NEW v \in Cell,
         Types, i <= Height(o), o \in Frames(P) \cup {Running}, After(P, at, o, i, v)
  PROVE  v \in P \cup Own(P, at, m)
<1>1. o \in Owner /\ Height(o) \in Nat
  BY FramesAre, HeightIs, OwnerFacts
<1>2. CASE i < Height(o)
  <2>1. Slot(P, m, o, i+1) /\ v = at[o][i+1]
    BY <1>1, <1>2 DEF Slot, After
  <2> QED
    BY <1>1, <2>1 DEF Own
<1> QED
  BY <1>1, <1>2, OwnerFacts DEF After

LEMMA RegistersWithin ==
  ASSUME Types, NEW P, NEW at, NEW m, Fits(P, at, m), NEW r \in Register, reg[r] \in Cell
  PROVE  reg[r] \in P \cup Own(P, at, m)
<1>1. /\ P \in SUBSET Cell /\ at \in Places
      /\ Running \in Frames(P) \cup {Running} /\ 0 <= Height(Running)
      /\ m \in Closing => 1 <= Height(Running)
      /\ 0 \in Nat /\ 1 \in Nat
  BY HeightIs DEF Fits, Registers
<1>2. CASE r \notin Tied(m)
  BY <1>2, OwnerFacts DEF Fits, Registers
<1>3. CASE r = "env" /\ m \notin Closing
  <2>1. After(P, at, Running, 0, reg[r])
    BY <1>3 DEF Fits, Registers
  <2> QED
    BY <1>1, <2>1, AfterWithin
<1>4. CASE r = "env" /\ m \in Closing
  <2>1. After(P, at, Running, 1, reg[r])
    BY <1>4 DEF Fits, Registers
  <2> QED
    BY <1>1, <1>4, <2>1, AfterWithin
<1>5. CASE r = "reg2" /\ m \in Closing
  <2>1. After(P, at, Running, 0, reg[r])
    BY <1>5 DEF Fits, Registers
  <2> QED
    BY <1>1, <2>1, AfterWithin
<1>6. CASE r = "reg1" /\ m = "push_clear"
  <2>1. reg[r] \in P \cup Leaf \cup Temps(at)
    BY <1>6 DEF Fits, Registers
  <2>2. \A i \in 1 .. depth : i \in Nat /\ Slot(P, m, Running, i)
    BY HeightIs DEF Slot
  <2> QED
    BY <2>1, <2>2, OwnerFacts DEF Temps, Own
<1>7. CASE r = "reg4" /\ m = "save_cont"
  <2>1. reg[r] = at[Running][0]
    BY <1>7 DEF Fits, Registers
  <2>2. Slot(P, m, Running, 0)
    BY <1>1, <1>7, HeightIs DEF Slot
  <2> QED
    BY <1>1, <2>1, <2>2, OwnerFacts DEF Own
<1> QED
  BY <1>2, <1>3, <1>4, <1>5, <1>6, <1>7 DEF Tied, Closing

\* The links that lead away from a place, and from a public cell.
LEMMA LinksWithin ==
  ASSUME Types, NEW P, NEW at, NEW m, Fits(P, at, m),
         NEW c \in (P \cup Own(P, at, m)) \ stale
  PROVE  /\ HasLeftLink(type[c]) /\ car[c] \in Cell => car[c] \in P \cup Own(P, at, m)
         /\ HasRightLink(type[c]) /\ cdr[c] \in Cell => cdr[c] \in P \cup Own(P, at, m)
<1>1. P \in SUBSET Cell /\ at \in Places /\ Shape(P, at, m) /\ 0 \in Nat
  BY DEF Fits
<1>2. CASE c \in P
  <2>1. /\ HasLeftLink(type[c]) => car[c] \in P \cup Leaf
        /\ type[c] = "CONS" => cdr[c] \in P \cup Leaf
    BY <1>1, <1>2 DEF Shape, PublicOK
  <2>2. CASE type[c] = "CONTINUATION"
    <3>1. c \in Frames(P) /\ c \in Owner /\ c # Running /\ c \in Cell
      BY <1>1, <1>2, <2>2, OwnerFacts DEF Frames
    <3>2. Slot(P, m, c, 0)
      BY <3>1, HeightIs DEF Slot
    <3>3. cdr[c] = at[c][0]
      BY <1>1, <3>1 DEF Shape, PutAside
    <3> QED
      BY <1>1, <2>1, <3>1, <3>2, <3>3, OwnerFacts DEF Own
  <2> QED
    BY <2>1, <2>2, OwnerFacts DEF HasRightLink
<1>3. CASE c \notin P
  <2>1. PICK o \in Owner, i \in Nat : Slot(P, m, o, i) /\ c = at[o][i]
    BY <1>3 DEF Own
  <2>2. i <= Height(o) /\ o \in Frames(P) \cup {Running}
    BY <2>1 DEF Slot
  <2>3. CASE i = 0
    <3>1. type[c] = "CLOSURE" /\ After(P, at, o, 0, car[c])
      BY <1>1, <2>1, <2>3 DEF Shape, ClosureOK
    <3>2. car[c] \in Cell => car[c] \in P \cup Own(P, at, m)
      BY <1>1, <2>2, <2>3, <3>1, AfterWithin
    <3> QED
      BY <3>1, <3>2 DEF HasRightLink
  <2>4. CASE i > 0
    <3>1. TempOK(P, at, o, i)
      BY <1>1, <2>1, <2>4 DEF Shape
    <3>2. car[c] \in P \cup Leaf /\ After(P, at, o, i, cdr[c])
      BY <2>1, <3>1 DEF TempOK
    <3>3. cdr[c] \in Cell => cdr[c] \in P \cup Own(P, at, m)
      BY <1>1, <2>2, <3>2, AfterWithin
    <3> QED
      BY <3>2, <3>3, OwnerFacts
  <2> QED
    BY <2>3, <2>4
<1> QED
  BY <1>2, <1>3

LEMMA LiveWithin ==
  Types => \A P, at, m : Fits(P, at, m) => Live \subseteq P \cup Own(P, at, m)
<1> SUFFICES ASSUME Types, NEW P, NEW at, NEW m, Fits(P, at, m)
             PROVE  Live \subseteq P \cup Own(P, at, m)
  OBVIOUS
<1> DEFINE X == P \cup Own(P, at, m)
<1>1. X \in SUBSET Cell
  BY DEF Fits, Own
<1>2. Roots \cap Cell \subseteq X
  <2>1. \A c \in 0 .. Reserved-1 : c \in P
    BY DEF Fits, Shape, PublicOK
  <2> QED
    BY <2>1, RegistersWithin DEF Roots
<1>3. KeepsLinks(X, type, car, cdr, stale)
  BY LinksWithin DEF KeepsLinks
<1> QED
  BY <1>1, <1>2, <1>3, LiveSetLeast, LiveIs

\* From a live frame its places can be reached.
LEMMA PlacesLive ==
  ASSUME Types, NEW P, NEW at, NEW m, Fits(P, at, m),
         NEW o \in Owner, o = Running \/ o \in Live, NEW i \in Nat, Slot(P, m, o, i)
  PROVE  at[o][i] \in Live
<1> DEFINE Bad == {j \in Nat : Slot(P, m, o, j) /\ at[o][j] \notin Live}
<1>1. SUFFICES ASSUME Bad # {} PROVE FALSE
  OBVIOUS
<1>2. PICK j \in Bad : \A l \in Bad : j <= l
  BY <1>1, LeastIsLeast
<1>3. /\ P \in SUBSET Cell /\ at \in Places /\ Shape(P, at, m) /\ Registers(P, at, m)
      /\ j \in Nat /\ Slot(P, m, o, j) /\ at[o][j] \notin Live /\ at[o][j] \in Cell
      /\ j <= Height(o)
  BY <1>2, PlaceIsCell DEF Fits, Slot
<1>4. \A r \in Register : reg[r] \in Cell => reg[r] \in Live
  BY RegistersLive, OwnerFacts
<1>5. \A c \in Live : /\ c \in Cell
                      /\ type[c] = "CONS" /\ cdr[c] \in Cell => cdr[c] \in Live
                      /\ type[c] = "CLOSURE" /\ car[c] \in Cell => car[c] \in Live
                      /\ c \in Frames(P) /\ cdr[c] \in Cell => cdr[c] \in Live
  <2>1. \A c \in stale : type[c] = "CONTINUATION"
    BY <1>3 DEF Shape, PublicOK
  <2> QED
    BY <2>1, LiveClosed DEF KeepsLinks, HasLeftLink, HasRightLink, Frames
<1>6. CASE j = 0 /\ o = Running
  <2>1. at[o][j] = reg["reg4"]
    BY <1>3, <1>6 DEF Slot, Registers
  <2> QED
    BY <1>3, <1>4, <2>1 DEF Register
<1>7. CASE j = 0 /\ o # Running
  <2>1. o \in Frames(P) /\ o \in Live
    BY <1>3, <1>7 DEF Slot
  <2>2. at[o][j] = cdr[o]
    BY <1>3, <1>7, <2>1 DEF Shape, PutAside
  <2> QED
    BY <1>3, <1>5, <2>1, <2>2
<1>8. CASE j = 1 /\ o = Running
  <2>1. 0 < Height(o) /\ 0 + 1 = 1
    BY <1>3, <1>8, HeightIs
  <2>2. at[o][j] = reg["env"] \/ at[o][j] = reg["reg2"]
    BY <1>3, <1>8, <2>1 DEF Registers, After
  <2> QED
    BY <1>3, <1>4, <2>2 DEF Register
<1>9. CASE j = 1 /\ o # Running
  <2>1. o \in Frames(P) /\ o \in Cell
    BY <1>3, <1>9 DEF Slot, Frames
  <2>2. 0 \in Nat /\ 0 < Height(o) /\ Slot(P, m, o, 0) /\ ~(j <= 0)
    BY <1>3, <1>9, <2>1, HeightIs DEF Slot
  <2>3. at[o][0] \in Live
    BY <1>2, <2>2
  <2>4. type[at[o][0]] = "CLOSURE" /\ car[at[o][0]] = at[o][j]
    BY <1>3, <1>9, <2>2 DEF Shape, ClosureOK, After
  <2> QED
    BY <1>3, <1>5, <2>3, <2>4
<1>10. CASE j > 1
  <2>1. j - 1 \in Nat /\ j - 1 > 0 /\ ~(j <= j - 1) /\ (j - 1) + 1 = j /\ j - 1 < Height(o)
      /\ Height(o) \in Nat
    <3>1. Height(o) \in Nat
      BY <1>3, HeightIs, FramesAre DEF Slot, Frames
    <3> QED
      BY <1>3, <1>10, <3>1
  <2>2. Slot(P, m, o, j - 1)
    BY <1>3, <2>1 DEF Slot
  <2>3. at[o][j-1] \in Live
    BY <1>2, <2>1, <2>2
  <2>4. TempOK(P, at, o, j - 1)
    BY <1>3, <2>1, <2>2 DEF Shape
  <2>5. type[at[o][j-1]] = "CONS" /\ cdr[at[o][j-1]] = at[o][j]
    BY <2>1, <2>4 DEF TempOK, After
  <2> QED
    BY <1>3, <1>5, <2>3, <2>5
<1> QED
  BY <1>3, <1>6, <1>7, <1>8, <1>9, <1>10

LEMMA AfterLive ==
  ASSUME NEW P, NEW at, NEW o, NEW i, NEW v, After(P, at, o, i, v),
         v \in Live \cup Leaf
  PROVE  After(P \cap Live, at, o, i, v)
  BY DEF After

LEMMA PublicIsLive ==
  ASSUME Types, NEW P, NEW at, NEW m, Fits(P, at, m)
  PROVE  /\ Fits(P \cap Live, at, m)
         /\ Live = (P \cap Live) \cup Own(P \cap Live, at, m)
<1> DEFINE Q == P \cap Live
<1>1. /\ P \in SUBSET Cell /\ Q \in SUBSET P /\ Q \in SUBSET Cell
      /\ at \in Places /\ Shape(P, at, m) /\ Registers(P, at, m)
  BY DEF Fits
<1>2. /\ Frames(Q) = Frames(P) \cap Q
      /\ \A o, i : Slot(Q, m, o, i) <=> Slot(P, m, o, i) /\ (o = Running \/ o \in Q)
  BY <1>1, FramesWithin
<1> HIDE DEF Q
<1>3. \A o \in Owner, i \in Nat : Slot(Q, m, o, i) => at[o][i] \in Live
  BY <1>2, PlacesLive DEF Q
<1>4. \A c \in Live : /\ c \in Cell
                      /\ c \notin stale /\ HasLeftLink(type[c]) /\ car[c] \in Cell => car[c] \in Live
                      /\ c \notin stale /\ HasRightLink(type[c]) /\ cdr[c] \in Cell => cdr[c] \in Live
  BY LiveClosed DEF KeepsLinks
<1>5. \A c \in stale : type[c] = "CONTINUATION"
  BY <1>1 DEF Shape, PublicOK
<1>6. \A v \in P \cup Leaf : v \in Live \cup Leaf => v \in Q \cup Leaf
  BY DEF Q
<1>7. \A c \in Cell : car[c] \in Cell \cup Leaf /\ cdr[c] \in Cell \cup Leaf
  BY OwnerFacts DEF Types, HTypeOK
<1>8. PublicOK(Q)
  <2>1. ASSUME NEW c \in Q \ stale
        PROVE  /\ HasLeftLink(type[c]) => car[c] \in Q \cup Leaf
               /\ type[c] = "CONS" => cdr[c] \in Q \cup Leaf
    <3>1. c \in P \ stale /\ c \in Live
      BY DEF Q
    <3>2. /\ HasLeftLink(type[c]) => car[c] \in P \cup Leaf
          /\ type[c] = "CONS" => cdr[c] \in P \cup Leaf
      BY <1>1, <3>1 DEF Shape, PublicOK
    <3> QED
      BY <1>4, <1>6, <1>7, <3>1, <3>2 DEF HasRightLink
  <2>2. \A c \in 0 .. Reserved-1 : c \in Q /\ type[c] = "CONS"
    BY <1>1, GlobalsAreLive DEF Q, Shape, PublicOK
  <2> QED
    BY <1>5, <2>1, <2>2 DEF PublicOK
<1>9. Apart(Q, at, m)
  <2>1. Apart(P, at, m)
    BY <1>1 DEF Shape
  <2> QED
    BY <1>1, <1>2, <2>1 DEF Apart
<1>10. ASSUME NEW o \in Owner, NEW i \in Nat, Slot(Q, m, o, i), i > 0
       PROVE  TempOK(Q, at, o, i)
  <2>1. TempOK(P, at, o, i) /\ at[o][i] \in Live /\ at[o][i] \in Cell
    BY <1>1, <1>2, <1>3, <1>10, PlaceIsCell DEF Shape
  <2>2. type[at[o][i]] = "CONS" /\ at[o][i] \notin stale
    BY <1>5, <2>1 DEF TempOK
  <2>3. car[at[o][i]] \in Live \cup Leaf /\ cdr[at[o][i]] \in Live \cup Leaf
    BY <1>4, <1>7, <2>1, <2>2 DEF HasLeftLink, HasRightLink
  <2> QED
    BY <1>6, <2>1, <2>3, AfterLive DEF TempOK, Q
<1>11. ASSUME NEW o \in Owner, Slot(Q, m, o, 0)
       PROVE  ClosureOK(Q, at, o)
  <2>1. ClosureOK(P, at, o) /\ at[o][0] \in Live /\ at[o][0] \in Cell
    BY <1>1, <1>2, <1>3, <1>11, PlaceIsCell DEF Shape
  <2>2. type[at[o][0]] = "CLOSURE" /\ at[o][0] \notin stale
    BY <1>5, <2>1 DEF ClosureOK
  <2>3. car[at[o][0]] \in Live \cup Leaf
    BY <1>4, <1>7, <2>1, <2>2 DEF HasLeftLink
  <2> QED
    BY <2>1, <2>3, AfterLive DEF ClosureOK, Q
<1>12. \A k \in Frames(Q) : PutAside(at, k)
  BY <1>1, <1>2 DEF Shape
<1>13. Registers(Q, at, m)
  <2>1. \A r \in Register : reg[r] \in Live \cup Leaf
    BY RegistersLive
  <2>2. pend.v \in P \cup Leaf /\ PendingKept
    BY <1>1 DEF Registers
  <2>3. pend.v \in Live \cup Leaf
    <3>1. CASE IsPair(reg["reg1"]) /\ pend.v = car[reg["reg1"]]
      <4>1. reg["reg1"] \in Live /\ reg["reg1"] \in Cell /\ type[reg["reg1"]] = "CONS"
        BY <2>1, <3>1, OwnerFacts DEF IsPair, Register
      <4> QED
        BY <1>4, <1>5, <1>7, <3>1, <4>1 DEF HasLeftLink
    <3> QED
      BY <2>1, <2>2, <3>1 DEF PendingKept, Register
  <2>4. pend.v \in Q \cup Leaf /\ PendingKept
    BY <1>6, <2>2, <2>3
  <2>5. \A r \in Register \ Tied(m) : reg[r] \in Q \cup Leaf
    BY <1>1, <1>6, <2>1 DEF Registers
  <2>6. IF m \in Closing THEN /\ After(Q, at, Running, 0, reg["reg2"])
                              /\ After(Q, at, Running, 1, reg["env"])
        ELSE After(Q, at, Running, 0, reg["env"])
    BY <1>1, <2>1, AfterLive DEF Registers, Register, Q
  <2>7. m = "push_clear" => reg["reg1"] \in Q \cup Leaf \cup Temps(at)
    BY <1>1, <1>6, <2>1 DEF Registers, Register
  <2> QED
    BY <1>1, <2>4, <2>5, <2>6, <2>7 DEF Registers
<1>14. Fits(Q, at, m)
  BY <1>1, <1>8, <1>9, <1>10, <1>11, <1>12, <1>13 DEF Fits, Shape
<1>15. Q \cup Own(Q, at, m) \subseteq Live
  BY <1>3 DEF Own, Q
<1> QED
  BY <1>14, <1>15, LiveWithin DEF Q

-----------------------------------------------------------------------------
(***************************************************************************)
(* What a step makes of the heap.  Every lemma here is about one way to    *)
(* change it, which several instructions share.                            *)
(***************************************************************************)
State(P, at, m) ==
  /\ HInv /\ Types
  /\ Fits(P, at, m)
  /\ Live = P \cup Own(P, at, m)

LEMMA StateFacts ==
  ASSUME NEW P, NEW at, NEW m, State(P, at, m)
  PROVE  /\ P \in SUBSET Cell /\ at \in Places
         /\ Types /\ Shape(P, at, m) /\ Registers(P, at, m)
         /\ P \subseteq Live /\ Own(P, at, m) \subseteq Live
         /\ depth \in Nat /\ Height(Running) = depth
  BY HeightIs DEF State, Fits

LEMMA SlotIsNat ==
  ASSUME NEW P \in SUBSET Cell, NEW m, NEW o, NEW i, Slot(P, m, o, i), Types
  PROVE  o \in Owner /\ i \in Nat /\ Height(o) \in Nat /\ i <= Height(o)
<1>1. o \in Owner /\ Height(o) \in Nat
  BY FramesAre, HeightIs, OwnerFacts DEF Slot
<1> QED
  BY <1>1 DEF Slot

\* Place i of frame o is place j of frame q before the step, and untouched.
LEMMA KeptTemp ==
  ASSUME NEW P, NEW P2, P \subseteq P2, NEW at, NEW at2, NEW o, NEW i, NEW q, NEW j,
         TempOK(P, at, q, j), at2[o][i] = at[q][j],
         type'[at[q][j]] = type[at[q][j]],
         car'[at[q][j]] = car[at[q][j]], cdr'[at[q][j]] = cdr[at[q][j]],
         (i < Height(o)') <=> (j < Height(q)),
         j < Height(q) => at2[o][i+1] = at[q][j+1]
  PROVE  TempOK(P2, at2, o, i)'
<1>1. /\ type[at[q][j]] = "CONS" /\ car[at[q][j]] \in P
         \cup Leaf
      /\ After(P, at, q, j, cdr[at[q][j]])
  BY DEF TempOK
<1>2. After(P2, at2, o, i, cdr[at[q][j]])'
  BY <1>1 DEF After
<1> QED
  BY <1>1, <1>2 DEF TempOK

LEMMA KeptClosure ==
  ASSUME NEW P, NEW P2, P \subseteq P2, NEW at, NEW at2, NEW o, NEW q,
         ClosureOK(P, at, q), at2[o][0] = at[q][0],
         type'[at[q][0]] = type[at[q][0]], car'[at[q][0]] = car[at[q][0]],
         (0 < Height(o)') <=> (0 < Height(q)),
         0 < Height(q) => at2[o][1] = at[q][1]
  PROVE  ClosureOK(P2, at2, o)'
<1>1. type[at[q][0]] = "CLOSURE" /\ After(P, at, q, 0, car[at[q][0]])
  BY DEF ClosureOK
<1>2. After(P2, at2, o, 0, car[at[q][0]])'
  BY <1>1 DEF After
<1> QED
  BY <1>1, <1>2 DEF ClosureOK

(***************************************************************************)
(* The running frame loses its first u temporaries (pop, calls).  Those in *)
(* W become public, the others are not looked at again; the program may    *)
(* store public values in public pairs besides.                            *)
(***************************************************************************)
Writes(P, u, W, P2, at, at2) ==
  LET used == {at[Running][i] : i \in 1 .. u}
  IN  /\ u \in 0 .. depth
      /\ W \in SUBSET used /\ P2 = P \cup W
      /\ at2 = [at EXCEPT ![Running] = [i \in Nat |-> at[Running][i+u]]]
      /\ type' = type /\ stale' = stale /\ frame' = frame
      /\ depth' \in Nat /\ (depth' = depth - u \/ depth' = 0)
      /\ \A c \in W : car'[c] \in P2 \cup Leaf /\ cdr'[c] \in P2 \cup Leaf
      /\ \A c \in Cell \ used :
           /\ car'[c] = car[c] \/ (c \in P /\ type[c] = "CONS" /\ car'[c] \in P2 \cup Leaf)
           /\ cdr'[c] = cdr[c] \/ (c \in P /\ type[c] = "CONS" /\ cdr'[c] \in P2 \cup Leaf)

LEMMA WritesShape ==
  ASSUME NEW P, NEW at, NEW m, State(P, at, m), m # "save_cont",
         NEW u, NEW W, NEW P2, NEW at2, Writes(P, u, W, P2, at, at2),
         NEW m2, m2 # "save_cont"
  PROVE  /\ Shape(P2, at2, m2)'
         /\ P2 \in SUBSET Cell /\ at2 \in Places
         /\ Own(P2, at2, m2)' \subseteq Own(P, at, m)
         /\ \A i \in 1 .. u : at[Running][i] \notin Own(P2, at2, m2)'
<1> DEFINE used == {at[Running][i] : i \in 1 .. u}
           Old(o, i) == IF o = Running THEN i + u ELSE i
<1>1. /\ P \in SUBSET Cell /\ at \in Places /\ Types /\ Shape(P, at, m)
      /\ depth \in Nat /\ Height(Running) = depth
  BY StateFacts
<1>2. /\ u \in Nat /\ u <= depth /\ W \in SUBSET used /\ P2 = P \cup W /\ P \subseteq P2
      /\ at2 = [at EXCEPT ![Running] = [i \in Nat |-> at[Running][i+u]]]
      /\ type' = type /\ stale' = stale /\ frame' = frame
      /\ depth' \in Nat /\ (depth' = depth - u \/ depth' = 0)
      /\ \A c \in W : car'[c] \in P2 \cup Leaf /\ cdr'[c] \in P2 \cup Leaf
      /\ \A c \in Cell \ used :
           /\ car'[c] = car[c] \/ (c \in P /\ type[c] = "CONS" /\ car'[c] \in P2 \cup Leaf)
           /\ cdr'[c] = cdr[c] \/ (c \in P /\ type[c] = "CONS" /\ cdr'[c] \in P2 \cup Leaf)
  BY <1>1 DEF Writes
<1>3. ASSUME NEW c \in used
      PROVE  c \in Cell /\ c \notin P /\ type[c] = "CONS" /\ c \notin stale
  <2>1. PICK i \in 1 .. u : c = at[Running][i]
    BY <1>3
  <2>2. i \in Nat /\ i > 0 /\ Slot(P, m, Running, i)
    BY <1>1, <1>2 DEF Slot
  <2>3. c \in Cell /\ c \notin P /\ TempOK(P, at, Running, i)
    BY <1>1, <2>1, <2>2, OwnerFacts, PlaceIsCell DEF Shape, Apart
  <2>4. type[c] = "CONS"
    BY <2>1, <2>3 DEF TempOK
  <2> QED
    BY <1>1, <2>3, <2>4 DEF Shape, PublicOK
<1>4. Frames(P2)' = Frames(P)
  BY <1>2, <1>3 DEF Frames
<1>5. /\ Height(Running)' = depth'
      /\ \A o \in Cell : Height(o)' = Height(o)
  BY <1>2, OwnerFacts DEF Height
<1>6. /\ \A i \in Nat : i + u \in Nat /\ at2[Running][i] = at[Running][i+u]
      /\ \A o \in Cell : at2[o] = at[o]
  BY <1>1, <1>2, OwnerFacts DEF Places
<1>7. ASSUME NEW o \in Owner, NEW i \in Nat, Slot(P2, m2, o, i)'
      PROVE  /\ Slot(P, m, o, Old(o, i)) /\ Old(o, i) \in Nat
             /\ at2[o][i] = at[o][Old(o, i)]
             /\ i > 0 => Old(o, i) > 0
             /\ o = Running => Old(o, i) > u
             /\ o # Running => i = Old(o, i)
             /\ (i < Height(o)') <=> (Old(o, i) < Height(o))
             /\ Old(o, i) < Height(o) => at2[o][i+1] = at[o][Old(o, i) + 1]
  <2>1. CASE o = Running
    <3>1. i > 0 /\ i <= depth' /\ depth' = depth - u
      BY <1>2, <1>5, <1>7, <2>1 DEF Slot
    <3>2. i + 1 \in Nat /\ (i + 1) + u = (i + u) + 1
      BY <1>2
    <3>3. Slot(P, m, o, i + u)
      BY <1>1, <1>2, <2>1, <3>1 DEF Slot
    <3> QED
      BY <1>1, <1>2, <1>5, <1>6, <2>1, <3>1, <3>2, <3>3
  <2>2. CASE o # Running
    <3>1. o \in Frames(P) /\ o \in Cell /\ i \in 0 .. Height(o)
      BY <1>1, <1>4, <1>5, <1>7, <2>2 DEF Slot, Frames
    <3> QED
      BY <1>5, <1>6, <2>2, <3>1 DEF Slot
  <2> QED
    BY <2>1, <2>2
<1>8. ASSUME NEW o \in Owner, NEW i \in Nat, Slot(P2, m2, o, i)'
      PROVE  /\ at2[o][i] \in Cell /\ at2[o][i] \notin P2 /\ at2[o][i] \notin used
             /\ car'[at2[o][i]] = car[at2[o][i]] /\ cdr'[at2[o][i]] = cdr[at2[o][i]]
  <2>1. Slot(P, m, o, Old(o, i)) /\ Old(o, i) \in Nat /\ at2[o][i] = at[o][Old(o, i)]
    BY <1>7, <1>8
  <2>2. at2[o][i] \in Cell /\ at2[o][i] \notin P
    BY <1>1, <2>1, PlaceIsCell DEF Shape, Apart
  <2>3. ASSUME NEW j \in 1 .. u PROVE at2[o][i] # at[Running][j]
    <3>1. j \in Nat /\ Slot(P, m, Running, j)
      BY <1>1, <1>2 DEF Slot
    <3>2. o = Running => Old(o, i) > u
      BY <1>7, <1>8
    <3>3. j <= u /\ u \in Nat
      BY <1>2
    <3>4. o = Running => Old(o, i) # j
      BY <2>1, <3>2, <3>3
    <3> QED
      BY <1>1, <2>1, <3>1, <3>4, OwnerFacts DEF Shape, Apart
  <2> QED
    BY <1>2, <2>2, <2>3
<1> HIDE DEF used, Old
<1>9. PublicOK(P2)'
  <2>1. ASSUME NEW c \in P2 \ stale
        PROVE  /\ HasLeftLink(type[c]) => car'[c] \in P2 \cup Leaf
               /\ type[c] = "CONS" => cdr'[c] \in P2 \cup Leaf
    <3>1. CASE c \in W
      BY <1>2, <3>1
    <3>2. CASE c \notin W
      <4>1. c \in P \ stale /\ c \in Cell \ used
        BY <1>1, <1>2, <1>3, <3>2
      <4>2. /\ HasLeftLink(type[c]) => car[c] \in P \cup Leaf
            /\ type[c] = "CONS" => cdr[c] \in P \cup Leaf
        BY <1>1, <4>1 DEF Shape, PublicOK
      <4> QED
        BY <1>2, <4>1, <4>2
    <3> QED
      BY <3>1, <3>2
  <2>2. \A c \in 0 .. Reserved-1 : c \in P2 /\ type[c] = "CONS"
    BY <1>1, <1>2 DEF Shape, PublicOK
  <2>3. \A c \in stale : type[c] = "CONTINUATION"
    BY <1>1 DEF Shape, PublicOK
  <2> QED
    BY <1>2, <2>1, <2>2, <2>3 DEF PublicOK
<1>10. Apart(P2, at2, m2)'
  <2>1. ASSUME NEW o \in Owner, NEW q \in Owner, NEW i \in Nat, NEW j \in Nat,
               Slot(P2, m2, o, i)', Slot(P2, m2, q, j)', at2[o][i] = at2[q][j]
        PROVE  o = q /\ i = j
    <3>1. o = q /\ Old(o, i) = Old(q, j)
      BY <1>1, <1>7, <2>1 DEF Shape, Apart
    <3> QED
      BY <1>2, <3>1 DEF Old
  <2> QED
    BY <1>8, <2>1 DEF Apart
<1>11. ASSUME NEW o \in Owner, NEW i \in Nat, Slot(P2, m2, o, i)', i > 0
       PROVE  TempOK(P2, at2, o, i)'
  <2>1. TempOK(P, at, o, Old(o, i))
    BY <1>1, <1>7, <1>11 DEF Shape
  <2>2. /\ at2[o][i] = at[o][Old(o, i)]
        /\ (i < Height(o)') <=> (Old(o, i) < Height(o))
        /\ Old(o, i) < Height(o) => at2[o][i+1] = at[o][Old(o, i) + 1]
    BY <1>7, <1>11
  <2>3. car'[at2[o][i]] = car[at2[o][i]] /\ cdr'[at2[o][i]] = cdr[at2[o][i]]
    BY <1>8, <1>11
  <2> QED
    BY <1>2, <2>1, <2>2, <2>3, KeptTemp
<1>12. ASSUME NEW o \in Owner, Slot(P2, m2, o, 0)'
       PROVE  ClosureOK(P2, at2, o)'
  <2>1. 0 \in Nat /\ o # Running /\ 0 + 1 = 1
    BY <1>12 DEF Slot
  <2>2. /\ Slot(P, m, o, 0) /\ at2[o][0] = at[o][0]
        /\ (0 < Height(o)') <=> (0 < Height(o))
        /\ 0 < Height(o) => at2[o][1] = at[o][1]
    BY <1>7, <1>12, <2>1
  <2>3. ClosureOK(P, at, o)
    BY <1>1, <1>12, <2>2 DEF Shape
  <2>4. car'[at2[o][0]] = car[at2[o][0]]
    BY <1>8, <1>12, <2>1
  <2> QED
    BY <1>2, <2>2, <2>3, <2>4, KeptClosure
<1>13. ASSUME NEW k \in Frames(P2)' PROVE PutAside(at2, k)'
  <2>1. k \in Frames(P) /\ k \in Cell /\ k \in P /\ type[k] = "CONTINUATION" /\ k # Running
    BY <1>1, <1>4, OwnerFacts DEF Frames
  <2>2. PutAside(at, k)
    BY <1>1, <2>1 DEF Shape
  <2>3. cdr'[k] = cdr[k]
    BY <1>2, <1>3, <2>1
  <2>4. ASSUME NEW i \in 1 .. Height(k) PROVE car'[at2[k][i]] = frame'[k][i]
    <3>1. i \in Nat /\ Slot(P2, m2, k, i)'
      BY <1>1, <1>4, <1>5, <2>1, HeightIs DEF Slot
    <3> QED
      BY <1>2, <1>6, <1>8, <2>1, <2>2, <3>1, OwnerFacts DEF PutAside
  <2> QED
    BY <1>5, <1>6, <2>1, <2>2, <2>3, <2>4 DEF PutAside
<1>14. Shape(P2, at2, m2)'
  BY <1>9, <1>10, <1>11, <1>12, <1>13 DEF Shape
<1>15. P2 \in SUBSET Cell
  BY <1>1, <1>2, <1>3
<1>16. at2 \in Places
  BY <1>1, <1>2, <1>6, OwnerFacts DEF Places
<1>17. Own(P2, at2, m2)' \subseteq Own(P, at, m)
  BY <1>7 DEF Own
<1>18. \A i \in 1 .. u : at[Running][i] \notin Own(P2, at2, m2)'
  BY <1>8 DEF Own, used
<1> QED
  BY <1>14, <1>15, <1>16, <1>17, <1>18

(***************************************************************************)
(* An allocation: the new cell is neither public nor in any place.         *)
(***************************************************************************)
LEMMA FreshCell ==
  ASSUME NEW P, NEW at, NEW m, State(P, at, m), NEW t, NEW a, NEW d, NewCell(t, a, d),
         NEW p, p = free_cells
  PROVE  /\ p \in Cell /\ p \notin P
         /\ \A o \in Owner, i \in Nat : Slot(P, m, o, i) => at[o][i] # p
         /\ type'[p] = t /\ car'[p] = a /\ cdr'[p] = d
         /\ \A c \in Cell \ {p} : type'[c] = type[c] /\ car'[c] = car[c] /\ cdr'[c] = cdr[c]
         /\ stale' = stale \ {p}
         /\ Frames(P)' = Frames(P)
<1>1. p \in Cell /\ p \in OnFreeList /\ p \notin Live
  BY OnFreeListClosed DEF NewCell, State, HInv, LiveNotFree
<1>2. p \notin P /\ p \notin Own(P, at, m)
  BY <1>1, StateFacts
<1>3. \A o \in Owner, i \in Nat : Slot(P, m, o, i) => at[o][i] # p
  BY <1>1, <1>2 DEF Own
<1>4. /\ type'[p] = t /\ car'[p] = a /\ cdr'[p] = d
      /\ \A c \in Cell \ {p} : type'[c] = type[c] /\ car'[c] = car[c] /\ cdr'[c] = cdr[c]
      /\ stale' = stale \ {p}
  BY <1>1, StateFacts DEF NewCell, Types, HTypeOK
<1>5. P \in SUBSET Cell
  BY StateFacts
<1> QED
  BY <1>1, <1>2, <1>3, <1>4, <1>5 DEF Frames

LEMMA FreshPublic ==
  ASSUME NEW P, NEW at, NEW m, State(P, at, m), NEW t, NEW a, NEW d, NewCell(t, a, d),
         NEW p, p = free_cells, NEW P2, P2 = P \/ P2 = P \cup {p},
         p \in P2 => /\ HasLeftLink(t) => a \in P2 \cup Leaf
                     /\ t = "CONS" => d \in P2 \cup Leaf
  PROVE  PublicOK(P2)' /\ P2 \in SUBSET Cell /\ P \subseteq P2
<1>1. PublicOK(P) /\ P \in SUBSET Cell
  BY StateFacts DEF Shape
<1>2. /\ p \in Cell /\ p \notin P
      /\ type'[p] = t /\ car'[p] = a /\ cdr'[p] = d
      /\ \A c \in Cell \ {p} : type'[c] = type[c] /\ car'[c] = car[c] /\ cdr'[c] = cdr[c]
      /\ stale' = stale \ {p}
  BY FreshCell
<1>3. \A c \in stale' : c \in Cell
  BY <1>2, StateFacts DEF Types, HTypeOK
<1>4. \A c \in 0 .. Reserved-1 : c \in P /\ c \in Cell /\ type[c] = "CONS"
  BY <1>1 DEF PublicOK
<1>5. ASSUME NEW c \in P2 \ stale'
      PROVE  /\ HasLeftLink(type'[c]) => car'[c] \in P2 \cup Leaf
             /\ type'[c] = "CONS" => cdr'[c] \in P2 \cup Leaf
  <2>1. CASE c = p
    BY <1>2, <2>1
  <2>2. CASE c # p
    <3>1. c \in P \ stale /\ c \in Cell
      BY <1>1, <1>2, <2>2
    <3> QED
      BY <1>1, <1>2, <2>2, <3>1 DEF PublicOK
  <2> QED
    BY <2>1, <2>2
<1>6. \A c \in stale' : type'[c] = "CONTINUATION"
  BY <1>1, <1>2, <1>3 DEF PublicOK
<1> QED
  BY <1>1, <1>2, <1>4, <1>5, <1>6 DEF PublicOK

\* new_pair(v, env), env being replaced: one more temporary.
Pushed(at, p) ==
  [at EXCEPT ![Running] = [i \in Nat |-> IF i <= 1 THEN p ELSE at[Running][i-1]]]

LEMMA PushShape ==
  ASSUME NEW P, NEW at, NEW m, State(P, at, m), m # "save_cont", NEW m2, m2 # "save_cont",
         NEW v, NEW w, NewCell("CONS", v, w), NEW p, p = free_cells,
         v \in P \cup Leaf, After(P, at, Running, 0, w),
         depth' = depth + 1, frame' = frame,
         NEW at2, at2 = Pushed(at, p)
  PROVE  /\ Shape(P, at2, m2)' /\ at2 \in Places
         /\ Own(P, at2, m2)' \subseteq Own(P, at, m) \cup {p}
<1> DEFINE New(o, i) == o = Running /\ i = 1
           Old(o, i) == IF o = Running THEN i - 1 ELSE i
<1>1. /\ P \in SUBSET Cell /\ at \in Places /\ Types /\ Shape(P, at, m)
      /\ depth \in Nat /\ Height(Running) = depth
  BY StateFacts
<1>2. /\ p \in Cell /\ p \notin P
      /\ \A o \in Owner, i \in Nat : Slot(P, m, o, i) => at[o][i] # p
      /\ type'[p] = "CONS" /\ car'[p] = v /\ cdr'[p] = w
      /\ \A c \in Cell \ {p} : type'[c] = type[c] /\ car'[c] = car[c] /\ cdr'[c] = cdr[c]
      /\ Frames(P)' = Frames(P)
  BY FreshCell
<1>3. /\ Height(Running)' = depth + 1
      /\ \A o \in Cell : Height(o)' = Height(o)
  BY OwnerFacts DEF Height
<1>4. /\ at2[Running][1] = p
      /\ \A i \in Nat : i > 1 => at2[Running][i] = at[Running][i-1]
      /\ \A o \in Cell : at2[o] = at[o]
  BY <1>1, OwnerFacts DEF Places, Pushed
<1>5. at2 \in Places
  <2>1. [i \in Nat |-> IF i <= 1 THEN p ELSE at[Running][i-1]] \in [Nat -> Cell]
    <3>1. ASSUME NEW i \in Nat PROVE (IF i <= 1 THEN p ELSE at[Running][i-1]) \in Cell
      <4>1. i > 1 => i - 1 \in Nat
        OBVIOUS
      <4> QED
        BY <1>1, <1>2, <4>1, OwnerFacts DEF Places
    <3> QED
      BY <3>1
  <2> QED
    BY <1>1, <2>1 DEF Places, Pushed
<1>6. ASSUME NEW o \in Owner, NEW i \in Nat, Slot(P, m2, o, i)', ~New(o, i)
      PROVE  /\ Slot(P, m, o, Old(o, i)) /\ Old(o, i) \in Nat
             /\ at2[o][i] = at[o][Old(o, i)] /\ at2[o][i] \in Cell
             /\ i > 0 => Old(o, i) > 0
             /\ o # Running => i = Old(o, i)
             /\ (i < Height(o)') <=> (Old(o, i) < Height(o))
             /\ Old(o, i) < Height(o) => at2[o][i+1] = at[o][Old(o, i) + 1]
  <2>1. CASE o = Running
    <3>1. i > 1 /\ i <= depth + 1
      BY <1>3, <1>6, <2>1 DEF Slot
    <3>2. i + 1 \in Nat /\ i + 1 > 1 /\ (i + 1) - 1 = (i - 1) + 1 /\ i - 1 \in Nat
      BY <3>1
    <3>3. Slot(P, m, o, i - 1)
      BY <1>1, <2>1, <3>1 DEF Slot
    <3> QED
      BY <1>1, <1>3, <1>4, <2>1, <3>1, <3>2, <3>3, PlaceIsCell
  <2>2. CASE o # Running
    <3>1. o \in Frames(P) /\ o \in Cell /\ i \in 0 .. Height(o)
      BY <1>1, <1>2, <1>3, <1>6, <2>2 DEF Slot, Frames
    <3> QED
      BY <1>1, <1>3, <1>4, <2>2, <3>1, PlaceIsCell DEF Slot
  <2> QED
    BY <2>1, <2>2
<1> HIDE DEF Old, New
<1>7. ASSUME NEW o \in Owner, NEW i \in Nat, Slot(P, m2, o, i)', ~New(o, i)
      PROVE  /\ at2[o][i] # p /\ at2[o][i] \notin P
             /\ type'[at2[o][i]] = type[at2[o][i]]
             /\ car'[at2[o][i]] = car[at2[o][i]] /\ cdr'[at2[o][i]] = cdr[at2[o][i]]
  <2>1. /\ Slot(P, m, o, Old(o, i)) /\ Old(o, i) \in Nat
        /\ at2[o][i] = at[o][Old(o, i)] /\ at2[o][i] \in Cell
    BY <1>6, <1>7
  <2>2. at2[o][i] # p /\ at2[o][i] \notin P
    BY <1>1, <1>2, <2>1 DEF Shape, Apart
  <2> QED
    BY <1>2, <2>1, <2>2
<1>8. PublicOK(P)'
  BY <1>2, FreshPublic
<1>9. Apart(P, at2, m2)'
  <2>1. ASSUME NEW o \in Owner, NEW i \in Nat, Slot(P, m2, o, i)' PROVE at2[o][i] \notin P
    <3>1. CASE New(o, i)
      BY <1>2, <1>4, <3>1 DEF New
    <3> QED
      BY <1>7, <2>1, <3>1
  <2>2. ASSUME NEW o \in Owner, NEW q \in Owner, NEW i \in Nat, NEW j \in Nat,
               Slot(P, m2, o, i)', Slot(P, m2, q, j)', at2[o][i] = at2[q][j]
        PROVE  o = q /\ i = j
    <3>1. New(o, i) <=> New(q, j)
      <4>1. New(o, i) => at2[o][i] = p
        BY <1>4 DEF New
      <4>2. New(q, j) => at2[q][j] = p
        BY <1>4 DEF New
      <4> QED
        BY <1>7, <2>2, <4>1, <4>2
    <3>2. CASE ~New(o, i)
      <4>1. /\ Slot(P, m, o, Old(o, i)) /\ Old(o, i) \in Nat /\ at2[o][i] = at[o][Old(o, i)]
            /\ Slot(P, m, q, Old(q, j)) /\ Old(q, j) \in Nat /\ at2[q][j] = at[q][Old(q, j)]
        BY <1>6, <2>2, <3>1, <3>2
      <4>2. o = q /\ Old(o, i) = Old(q, j)
        BY <1>1, <2>2, <4>1 DEF Shape, Apart
      <4> QED
        BY <4>2 DEF Old
    <3>3. CASE New(o, i)
      BY <3>1, <3>3 DEF New
    <3> QED
      BY <3>2, <3>3
  <2> QED
    BY <2>1, <2>2 DEF Apart
<1>10. ASSUME NEW o \in Owner, NEW i \in Nat, Slot(P, m2, o, i)', i > 0
       PROVE  TempOK(P, at2, o, i)'
  <2>1. CASE New(o, i)
    <3>1. After(P, at2, Running, 1, w)'
      <4>1. depth > 0 => at2[Running][1 + 1] = at[Running][0 + 1]
        <5>1. 1 + 1 \in Nat /\ 1 + 1 > 1 /\ (1 + 1) - 1 = 0 + 1
          OBVIOUS
        <5> QED
          BY <1>4, <5>1
      <4>2. (1 < depth + 1) <=> (0 < depth)
        BY <1>1
      <4> QED
        BY <1>1, <1>3, <4>1, <4>2 DEF After
    <3> QED
      BY <1>2, <1>4, <2>1, <3>1 DEF TempOK, New
  <2>2. CASE ~New(o, i)
    <3>1. TempOK(P, at, o, Old(o, i))
      BY <1>1, <1>6, <1>10, <2>2 DEF Shape
    <3>2. /\ at2[o][i] = at[o][Old(o, i)]
          /\ (i < Height(o)') <=> (Old(o, i) < Height(o))
          /\ Old(o, i) < Height(o) => at2[o][i+1] = at[o][Old(o, i) + 1]
      BY <1>6, <1>10, <2>2
    <3>3. /\ type'[at2[o][i]] = type[at2[o][i]]
          /\ car'[at2[o][i]] = car[at2[o][i]] /\ cdr'[at2[o][i]] = cdr[at2[o][i]]
      BY <1>7, <1>10, <2>2
    <3> QED
      BY <3>1, <3>2, <3>3, KeptTemp
  <2> QED
    BY <2>1, <2>2
<1>11. ASSUME NEW o \in Owner, Slot(P, m2, o, 0)' PROVE ClosureOK(P, at2, o)'
  <2>1. 0 \in Nat /\ o # Running /\ 0 + 1 = 1 /\ ~New(o, 0)
    BY <1>11 DEF Slot, New
  <2>2. /\ Slot(P, m, o, 0) /\ at2[o][0] = at[o][0]
        /\ (0 < Height(o)') <=> (0 < Height(o))
        /\ 0 < Height(o) => at2[o][1] = at[o][1]
    <3>1. Old(o, 0) = 0
      BY <2>1 DEF Old
    <3>2. /\ Slot(P, m, o, Old(o, 0)) /\ at2[o][0] = at[o][Old(o, 0)]
          /\ (0 < Height(o)') <=> (Old(o, 0) < Height(o))
          /\ Old(o, 0) < Height(o) => at2[o][0 + 1] = at[o][Old(o, 0) + 1]
      BY <1>6, <1>11, <2>1
    <3> QED
      BY <2>1, <3>1, <3>2
  <2>3. ClosureOK(P, at, o)
    BY <1>1, <1>11, <2>2 DEF Shape
  <2>4. type'[at2[o][0]] = type[at2[o][0]] /\ car'[at2[o][0]] = car[at2[o][0]]
    BY <1>7, <1>11, <2>1
  <2> QED
    BY <2>2, <2>3, <2>4, KeptClosure
<1>12. ASSUME NEW k \in Frames(P)' PROVE PutAside(at2, k)'
  <2>1. k \in Frames(P) /\ k \in Cell /\ k # p /\ k # Running /\ k \in Owner
    BY <1>1, <1>2, OwnerFacts DEF Frames
  <2>2. PutAside(at, k)
    BY <1>1, <2>1 DEF Shape
  <2>3. ASSUME NEW i \in 1 .. Height(k) PROVE car'[at2[k][i]] = frame'[k][i]
    <3>1. i \in Nat /\ Slot(P, m2, k, i)' /\ ~New(k, i)
      BY <1>1, <1>2, <1>3, <2>1, HeightIs DEF Slot, New
    <3> QED
      BY <1>4, <1>7, <2>1, <2>2, <3>1 DEF PutAside
  <2> QED
    BY <1>2, <1>3, <1>4, <2>1, <2>2, <2>3 DEF PutAside
<1>13. Own(P, at2, m2)' \subseteq Own(P, at, m) \cup {p}
  <2> SUFFICES ASSUME NEW o \in Owner, NEW i \in Nat, Slot(P, m2, o, i)'
               PROVE  at2[o][i] \in Own(P, at, m) \cup {p}
    BY DEF Own
  <2>1. CASE New(o, i)
    BY <1>4, <2>1 DEF New
  <2>2. CASE ~New(o, i)
    BY <1>6, <2>2 DEF Own
  <2> QED
    BY <2>1, <2>2
<1> QED
  BY <1>5, <1>8, <1>9, <1>10, <1>11, <1>12, <1>13 DEF Shape

(***************************************************************************)
(* In all other steps a place keeps its number, but may pass on to another *)
(* frame: what is frame o after the step is frame src[o] before.  At most  *)
(* place y of the running frame is new or rewritten.                       *)
(***************************************************************************)
Kept(P, at, m, P2, at2, src, o, i) ==
  /\ src[o] \in Owner /\ Slot(P, m, src[o], i)
  /\ at2[o][i] = at[src[o]][i] /\ at2[o][i+1] = at[src[o]][i+1]
  /\ Height(o)' = Height(src[o])
  /\ at2[o][i] \notin P2
  /\ type'[at2[o][i]] = type[at2[o][i]]
  /\ car'[at2[o][i]] = car[at2[o][i]] /\ cdr'[at2[o][i]] = cdr[at2[o][i]]

Moves(P, at, m, P2, at2, m2, src, y) ==
  /\ y \in Nat
  /\ \A o, q \in Owner, i \in Nat :
       Slot(P2, m2, o, i)' /\ Slot(P2, m2, q, i)' /\ src[o] = src[q] => o = q
  /\ \A o \in Owner, i \in Nat :
       Slot(P2, m2, o, i)' /\ ~(o = Running /\ i = y) =>
         /\ Kept(P, at, m, P2, at2, src, o, i)
         /\ Slot(P2, m2, Running, y)' => at2[o][i] # at2[Running][y]
  /\ Slot(P2, m2, Running, y)' =>
       /\ at2[Running][y] \notin P2
       /\ y > 0 => TempOK(P2, at2, Running, y)'
       /\ y = 0 => ClosureOK(P2, at2, Running)'
  /\ \A k \in Frames(P2)' : PutAside(at2, k)'

LEMMA MovedShape ==
  ASSUME NEW P, NEW at, NEW m, State(P, at, m), NEW P2, P \subseteq P2, PublicOK(P2)',
         NEW at2, NEW m2, NEW src, NEW y, Moves(P, at, m, P2, at2, m2, src, y)
  PROVE  /\ Shape(P2, at2, m2)'
         /\ \A c \in Own(P2, at2, m2)' :
              c \in Own(P, at, m) \/ (Slot(P2, m2, Running, y)' /\ c = at2[Running][y])
<1> USE DEF Moves
<1> DEFINE New(o, i) == o = Running /\ i = y
<1>1. Shape(P, at, m)
  BY StateFacts
<1>2. Running \in Owner
  BY OwnerFacts
<1>3. \A o \in Owner, i \in Nat : Slot(P2, m2, o, i)' /\ ~New(o, i) =>
        /\ src[o] \in Owner /\ Slot(P, m, src[o], i)
        /\ at2[o][i] = at[src[o]][i] /\ at2[o][i+1] = at[src[o]][i+1]
        /\ Height(o)' = Height(src[o])
        /\ at2[o][i] \notin P2
        /\ type'[at2[o][i]] = type[at2[o][i]]
        /\ car'[at2[o][i]] = car[at2[o][i]] /\ cdr'[at2[o][i]] = cdr[at2[o][i]]
  BY DEF Kept
<1>4. Apart(P2, at2, m2)'
  <2>1. ASSUME NEW o \in Owner, NEW i \in Nat, Slot(P2, m2, o, i)' PROVE at2[o][i] \notin P2
    BY <1>3, <2>1
  <2>2. ASSUME NEW o \in Owner, NEW q \in Owner, NEW i \in Nat, NEW j \in Nat,
               Slot(P2, m2, o, i)', Slot(P2, m2, q, j)', at2[o][i] = at2[q][j]
        PROVE  o = q /\ i = j
    <3>1. New(o, i) <=> New(q, j)
      BY <2>2
    <3>2. CASE ~New(o, i)
      <4>1. src[o] = src[q] /\ i = j
        BY <1>1, <1>3, <2>2, <3>1, <3>2 DEF Shape, Apart
      <4> QED
        BY <2>2, <4>1
    <3> QED
      BY <3>1, <3>2
  <2> QED
    BY <2>1, <2>2 DEF Apart
<1>5. ASSUME NEW o \in Owner, NEW i \in Nat, Slot(P2, m2, o, i)', i > 0
      PROVE  TempOK(P2, at2, o, i)'
  <2>1. CASE New(o, i)
    BY <1>5, <2>1
  <2>2. CASE ~New(o, i)
    <3>1. TempOK(P, at, src[o], i)
      BY <1>1, <1>3, <1>5, <2>2 DEF Shape
    <3> QED
      BY <1>3, <1>5, <2>2, <3>1, KeptTemp
  <2> QED
    BY <2>1, <2>2
<1>6. ASSUME NEW o \in Owner, Slot(P2, m2, o, 0)' PROVE ClosureOK(P2, at2, o)'
  <2>1. 0 \in Nat /\ 0 + 1 = 1
    OBVIOUS
  <2>2. CASE New(o, 0)
    BY <1>6, <2>2
  <2>3. CASE ~New(o, 0)
    <3>1. ClosureOK(P, at, src[o])
      BY <1>1, <1>3, <1>6, <2>1, <2>3 DEF Shape
    <3> QED
      BY <1>3, <1>6, <2>1, <2>3, <3>1, KeptClosure
  <2> QED
    BY <2>2, <2>3
<1>7. ASSUME NEW c \in Own(P2, at2, m2)'
      PROVE  c \in Own(P, at, m) \/ (Slot(P2, m2, Running, y)' /\ c = at2[Running][y])
  <2>1. PICK o \in Owner, i \in Nat : Slot(P2, m2, o, i)' /\ c = at2[o][i]
    BY DEF Own
  <2>2. c \in Cell
    BY DEF Own
  <2>3. CASE ~New(o, i)
    BY <1>3, <2>1, <2>2, <2>3 DEF Own
  <2> QED
    BY <2>1, <2>3
<1> QED
  BY <1>4, <1>5, <1>6, <1>7 DEF Shape

\* A place keeps its cell when another one is allocated.
LEMMA FreshKeeps ==
  ASSUME NEW P, NEW at, NEW m, State(P, at, m), NEW t, NEW a, NEW d, NewCell(t, a, d),
         NEW p, p = free_cells, NEW o \in Owner, NEW i \in Nat, Slot(P, m, o, i)
  PROVE  /\ at[o][i] \in Cell /\ at[o][i] \notin P \cup {p}
         /\ type'[at[o][i]] = type[at[o][i]]
         /\ car'[at[o][i]] = car[at[o][i]] /\ cdr'[at[o][i]] = cdr[at[o][i]]
<1>1. at[o][i] \in Cell /\ at[o][i] \notin P
  BY StateFacts, PlaceIsCell DEF Shape, Apart
<1>2. at[o][i] # p
  BY FreshCell
<1> QED
  BY <1>1, <1>2, FreshCell

\* new_pair, new_closure: the new cell is public.
LEMMA PublicShape ==
  ASSUME NEW P, NEW at, NEW m, State(P, at, m), m # "save_cont", NEW m2, m2 # "save_cont",
         NEW t \in {"CONS", "CLOSURE"}, NEW a \in P \cup Leaf, NEW d, NewCell(t, a, d),
         t = "CONS" => d \in P \cup Leaf,
         depth' = depth, frame' = frame,
         NEW p, p = free_cells, NEW P2, P2 = P \cup {p}
  PROVE  /\ Shape(P2, at, m2)' /\ P2 \in SUBSET Cell
         /\ Own(P2, at, m2)' \subseteq Own(P, at, m)
<1> DEFINE src == [o \in Owner |-> o]
<1>1. Shape(P, at, m) /\ Types /\ P \in SUBSET Cell /\ depth \in Nat
  BY StateFacts
<1>2. PublicOK(P2)' /\ P2 \in SUBSET Cell /\ P \subseteq P2
  BY FreshPublic
<1>3. /\ p \in Cell /\ p \notin P /\ type'[p] = t
      /\ \A c \in Cell \ {p} : type'[c] = type[c] /\ car'[c] = car[c] /\ cdr'[c] = cdr[c]
      /\ Frames(P)' = Frames(P)
  BY FreshCell
<1>4. Frames(P2)' = Frames(P) /\ \A o \in Owner : Height(o)' = Height(o)
  BY <1>3 DEF Frames, Height
<1>5. ASSUME NEW o \in Owner, NEW i \in Nat, Slot(P2, m2, o, i)'
      PROVE  Slot(P, m, o, i) /\ o \in Owner /\ i \in Nat
  BY <1>4, <1>5 DEF Slot
<1>6. ASSUME NEW o \in Owner, NEW i \in Nat, Slot(P2, m2, o, i)'
      PROVE  Kept(P, at, m, P2, at, src, o, i)
  <2>1. Slot(P, m, o, i)
    BY <1>5, <1>6
  <2>2. /\ at[o][i] \notin P2
        /\ type'[at[o][i]] = type[at[o][i]]
        /\ car'[at[o][i]] = car[at[o][i]] /\ cdr'[at[o][i]] = cdr[at[o][i]]
    BY <2>1, FreshKeeps
  <2>3. Height(o)' = Height(o)
    BY <1>4
  <2> QED
    BY <2>1, <2>2, <2>3 DEF Kept
<1>7. ASSUME NEW k \in Frames(P2)' PROVE PutAside(at, k)'
  <2>1. k \in Frames(P) /\ k \in Cell /\ k # p /\ k # Running /\ k \in Owner
    BY <1>1, <1>3, <1>4, OwnerFacts DEF Frames
  <2>2. PutAside(at, k)
    BY <1>1, <2>1 DEF Shape
  <2>3. ASSUME NEW i \in 1 .. Height(k) PROVE car'[at[k][i]] = frame'[k][i]
    <3>1. i \in Nat /\ Slot(P, m, k, i)
      BY <1>1, <2>1, HeightIs DEF Slot
    <3>2. car'[at[k][i]] = car[at[k][i]]
      BY <2>1, <3>1, FreshKeeps
    <3> QED
      BY <2>2, <3>2 DEF PutAside
  <2> QED
    BY <1>3, <1>4, <2>1, <2>2, <2>3 DEF PutAside
<1>8. ~ Slot(P2, m2, Running, 0)'
  BY DEF Slot
<1>9. \A o, q \in Owner : src[o] = src[q] => o = q
  OBVIOUS
<1> HIDE DEF src
<1>10. Moves(P, at, m, P2, at, m2, src, 0)
  BY <1>6, <1>7, <1>8, <1>9 DEF Moves
<1>11. /\ Shape(P2, at, m2)'
       /\ Own(P2, at, m2)' \subseteq Own(P, at, m)
  BY <1>2, <1>8, <1>10, MovedShape
<1> QED
  BY <1>2, <1>11

\* new_closure(env, pc): the closure that puts the running frame aside.
Saving(at, p) == [at EXCEPT ![Running] = [at[Running] EXCEPT ![0] = p]]

LEMMA SavingShape ==
  ASSUME NEW P, NEW at, NEW m, State(P, at, m), m # "save_cont", NEW m2, m2 = "save_cont",
         NEW e, NEW d, NewCell("CLOSURE", e, d), After(P, at, Running, 0, e),
         depth' = depth, frame' = frame, NEW p, p = free_cells,
         NEW at2, at2 = Saving(at, p)
  PROVE  /\ Shape(P, at2, m2)' /\ at2 \in Places /\ at2[Running][0] = p
         /\ Own(P, at2, m2)' \subseteq Own(P, at, m) \cup {p}
         /\ depth > 0 => at2[Running][0 + 1] = at[Running][0 + 1]
<1> DEFINE src == [o \in Owner |-> o]
<1>1. /\ Shape(P, at, m) /\ Types /\ P \in SUBSET Cell /\ at \in Places
      /\ depth \in Nat /\ Height(Running) = depth
  BY StateFacts
<1>2. PublicOK(P)'
  <2>1. p \notin P
    BY FreshCell
  <2> QED
    BY <2>1, FreshPublic
<1>3. /\ p \in Cell /\ p \notin P /\ type'[p] = "CLOSURE" /\ car'[p] = e
      /\ \A c \in Cell \ {p} : type'[c] = type[c] /\ car'[c] = car[c] /\ cdr'[c] = cdr[c]
      /\ Frames(P)' = Frames(P)
  BY FreshCell
<1>4. \A o \in Owner : Height(o)' = Height(o)
  BY DEF Height
<1>5. /\ at2[Running][0] = p
      /\ \A i \in Nat : i # 0 => at2[Running][i] = at[Running][i]
      /\ \A o \in Cell : at2[o] = at[o]
  BY <1>1, OwnerFacts DEF Places, Saving
<1>6. at2 \in Places
  BY <1>1, <1>3, <1>5, OwnerFacts DEF Places, Saving
<1>7. ASSUME NEW o \in Owner, NEW i \in Nat, Slot(P, m2, o, i)', ~(o = Running /\ i = 0)
      PROVE  /\ Slot(P, m, o, i)
             /\ at2[o][i] = at[o][i] /\ at2[o][i+1] = at[o][i+1]
  <2>1. Slot(P, m, o, i)
    BY <1>3, <1>4, <1>7 DEF Slot
  <2>2. i + 1 \in Nat /\ i + 1 # 0
    OBVIOUS
  <2>3. o # Running => o \in Cell
    BY DEF Owner
  <2> QED
    BY <1>5, <1>7, <2>1, <2>2, <2>3
<1>8. ASSUME NEW o \in Owner, NEW i \in Nat, Slot(P, m2, o, i)', ~(o = Running /\ i = 0)
      PROVE  /\ Kept(P, at, m, P, at2, src, o, i)
             /\ at2[o][i] # at2[Running][0]
  BY <1>4, <1>5, <1>7, <1>8, FreshKeeps DEF Kept
<1>9. ClosureOK(P, at2, Running)'
  <2>1. 0 < depth => at2[Running][0 + 1] = at[Running][0 + 1]
    <3>1. 0 + 1 \in Nat /\ 0 + 1 # 0
      OBVIOUS
    <3> QED
      BY <1>5, <3>1
  <2>2. After(P, at2, Running, 0, e)'
    BY <1>1, <1>4, <2>1, OwnerFacts DEF After
  <2> QED
    BY <1>3, <1>5, <2>2 DEF ClosureOK
<1>10. ASSUME NEW k \in Frames(P)' PROVE PutAside(at2, k)'
  <2>1. k \in Frames(P) /\ k \in Cell /\ k # p /\ k # Running /\ k \in Owner
    BY <1>1, <1>3, OwnerFacts DEF Frames
  <2>2. PutAside(at, k)
    BY <1>1, <2>1 DEF Shape
  <2>3. ASSUME NEW i \in 1 .. Height(k) PROVE car'[at2[k][i]] = frame'[k][i]
    <3>1. i \in Nat /\ Slot(P, m, k, i)
      BY <1>1, <2>1, HeightIs DEF Slot
    <3>2. car'[at[k][i]] = car[at[k][i]]
      BY <2>1, <3>1, FreshKeeps
    <3> QED
      BY <1>5, <2>1, <2>2, <3>2 DEF PutAside
  <2> QED
    BY <1>3, <1>4, <1>5, <2>1, <2>2, <2>3 DEF PutAside
<1>11. \A o, q \in Owner : src[o] = src[q] => o = q
  OBVIOUS
<1> HIDE DEF src
<1>12. at2[Running][0] \notin P
  BY <1>3, <1>5
<1>13. Moves(P, at, m, P, at2, m2, src, 0)
  <2>1. \A o \in Owner, i \in Nat :
          Slot(P, m2, o, i)' /\ ~(o = Running /\ i = 0) =>
            /\ Kept(P, at, m, P, at2, src, o, i)
            /\ Slot(P, m2, Running, 0)' => at2[o][i] # at2[Running][0]
    BY <1>8
  <2>2. \A o, q \in Owner, i \in Nat :
          Slot(P, m2, o, i)' /\ Slot(P, m2, q, i)' /\ src[o] = src[q] => o = q
    BY <1>11
  <2>3. Slot(P, m2, Running, 0)' =>
          /\ at2[Running][0] \notin P
          /\ 0 > 0 => TempOK(P, at2, Running, 0)'
          /\ 0 = 0 => ClosureOK(P, at2, Running)'
    BY <1>9, <1>12
  <2>4. \A k \in Frames(P)' : PutAside(at2, k)'
    BY <1>10
  <2>5. 0 \in Nat
    OBVIOUS
  <2> QED
    BY <2>1, <2>2, <2>3, <2>4, <2>5, Zenon DEF Moves
<1>14. /\ Shape(P, at2, m2)'
       /\ Own(P, at2, m2)' \subseteq Own(P, at, m) \cup {p}
  <2>1. Shape(P, at2, m2)'
    BY <1>2, <1>13, MovedShape
  <2>2. ASSUME NEW o \in Owner, NEW i \in Nat, Slot(P, m2, o, i)', at2[o][i] \in Cell
        PROVE  at2[o][i] \in Own(P, at, m) \cup {p}
    BY <1>5, <1>7, <2>2 DEF Own
  <2>3. Own(P, at2, m2)' \subseteq Own(P, at, m) \cup {p}
    BY <2>2 DEF Own
  <2> QED
    BY <2>1, <2>3
<1>15. at2[Running][0 + 1] = at[Running][0 + 1]
  <2>1. 0 + 1 \in Nat /\ 0 + 1 # 0
    OBVIOUS
  <2> QED
    BY <1>5, <2>1
<1> QED
  BY <1>5, <1>6, <1>14, <1>15

\* new_cont(cont, closure): the running frame is put aside whole.
Saved(at, p) == [at EXCEPT ![p] = at[Running]]

Saves(P, at, a, p, f, P2, at2) ==
  /\ NewCell("CONTINUATION", a, at[Running][0]) /\ p = free_cells
  /\ f \in Seq(Value) /\ Len(f) = depth /\ \A i \in 1 .. depth : f[i] = car[at[Running][i]]
  /\ frame' = [frame EXCEPT ![p] = f] /\ depth' = 0
  /\ P2 = P \cup {p} /\ at2 = Saved(at, p)

LEMMA SavedShape ==
  ASSUME NEW P, NEW at, NEW m, State(P, at, m), m = "save_cont", NEW m2, m2 # "save_cont",
         NEW a \in P \cup Leaf, NEW p, NEW f, NEW P2, NEW at2, Saves(P, at, a, p, f, P2, at2)
  PROVE  /\ Shape(P2, at2, m2)' /\ P2 \in SUBSET Cell /\ at2 \in Places
         /\ Own(P2, at2, m2)' \subseteq Own(P, at, m)
<1> USE DEF Saves
<1> DEFINE src == [o \in Owner |-> IF o = p THEN Running ELSE o]
<1>1. /\ Shape(P, at, m) /\ Types /\ P \in SUBSET Cell /\ at \in Places
      /\ depth \in Nat /\ Height(Running) = depth
  BY StateFacts
<1>2. PublicOK(P2)' /\ P2 \in SUBSET Cell /\ P \subseteq P2
  BY FreshPublic
<1>3. /\ p \in Cell /\ p \notin P /\ type'[p] = "CONTINUATION" /\ cdr'[p] = at[Running][0]
      /\ \A c \in Cell \ {p} : type'[c] = type[c] /\ car'[c] = car[c] /\ cdr'[c] = cdr[c]
      /\ stale' = stale \ {p} /\ Frames(P)' = Frames(P)
  BY FreshCell
<1>4. Frames(P2)' = Frames(P) \cup {p}
  BY <1>3 DEF Frames
<1>5. /\ p # Running /\ p \in Owner /\ Running \in Owner
      /\ Height(Running)' = 0 /\ Height(p)' = depth
      /\ \A o \in Cell \ {p} : Height(o)' = Height(o) /\ frame'[o] = frame[o]
      /\ frame'[p] = f
  BY <1>1, <1>3, OwnerFacts DEF Height, Types
<1>6. /\ at2[p] = at[Running]
      /\ \A o \in Owner \ {p} : at2[o] = at[o]
      /\ at2 \in Places
  BY <1>1, <1>5 DEF Places, Saved
<1>7. ASSUME NEW o \in Owner, NEW i \in Nat, Slot(P2, m2, o, i)'
      PROVE  o # Running /\ src[o] \in Owner /\ Slot(P, m, src[o], i)
  <2>1. o # Running
    BY <1>5, <1>7 DEF Slot
  <2>2. CASE o = p
    BY <1>1, <1>5, <1>7, <2>2 DEF Slot
  <2>3. CASE o # p
    <3>1. o \in Frames(P) /\ i \in 0 .. Height(o)
      BY <1>1, <1>4, <1>5, <1>7, <2>1, <2>3 DEF Slot, Frames
    <3> QED
      BY <2>1, <2>3, <3>1 DEF Slot
  <2> QED
    BY <2>1, <2>2, <2>3
<1>8. ASSUME NEW o \in Owner, NEW i \in Nat, Slot(P2, m2, o, i)'
      PROVE  Kept(P, at, m, P2, at2, src, o, i)
  <2>1. /\ o # Running /\ src[o] \in Owner /\ Slot(P, m, src[o], i)
        /\ src[o] = IF o = p THEN Running ELSE o
    BY <1>7, <1>8
  <2>2. /\ at2[o] = at[src[o]] /\ Height(o)' = Height(src[o])
    BY <1>1, <1>5, <1>6, <2>1 DEF Owner
  <2> HIDE DEF src
  <2>3. /\ at[src[o]][i] \notin P2
        /\ type'[at[src[o]][i]] = type[at[src[o]][i]]
        /\ car'[at[src[o]][i]] = car[at[src[o]][i]] /\ cdr'[at[src[o]][i]] = cdr[at[src[o]][i]]
    BY <2>1, FreshKeeps
  <2> QED
    BY <2>1, <2>2, <2>3 DEF Kept
<1>9. ASSUME NEW k \in Frames(P2)' PROVE PutAside(at2, k)'
  <2>1. CASE k = p
    <3>1. ASSUME NEW i \in 1 .. depth PROVE car'[at[Running][i]] = frame'[p][i]
      <4>1. i \in Nat /\ Slot(P, m, Running, i)
        BY <1>1 DEF Slot
      <4>2. car'[at[Running][i]] = car[at[Running][i]]
        BY <1>5, <4>1, FreshKeeps
      <4> QED
        BY <1>5, <4>2
    <3> QED
      BY <1>3, <1>5, <1>6, <2>1, <3>1 DEF PutAside
  <2>2. CASE k # p
    <3>1. k \in Frames(P) /\ k \in Cell /\ k # Running /\ k \in Owner
      BY <1>1, <1>4, <2>2, OwnerFacts DEF Frames
    <3>2. PutAside(at, k)
      BY <1>1, <3>1 DEF Shape
    <3>3. ASSUME NEW i \in 1 .. Height(k) PROVE car'[at[k][i]] = frame[k][i]
      <4>1. i \in Nat /\ Slot(P, m, k, i)
        BY <1>1, <3>1, HeightIs DEF Slot
      <4>2. car'[at[k][i]] = car[at[k][i]]
        BY <3>1, <4>1, FreshKeeps
      <4> QED
        BY <3>2, <4>2 DEF PutAside
    <3> QED
      BY <1>3, <1>5, <1>6, <2>2, <3>1, <3>2, <3>3 DEF PutAside
  <2> QED
    BY <2>1, <2>2
<1>10. \A o, q \in Owner, i \in Nat :
         Slot(P2, m2, o, i)' /\ Slot(P2, m2, q, i)' /\ src[o] = src[q] => o = q
  BY <1>7
<1>11. ~ Slot(P2, m2, Running, 0)'
  BY DEF Slot
<1> HIDE DEF src
<1>12. Moves(P, at, m, P2, at2, m2, src, 0)
  BY <1>8, <1>9, <1>10, <1>11 DEF Moves
<1>13. /\ Shape(P2, at2, m2)'
       /\ Own(P2, at2, m2)' \subseteq Own(P, at, m)
  BY <1>2, <1>11, <1>12, MovedShape
<1> QED
  BY <1>2, <1>6, <1>13

\* The first temporary is rewritten (CLOS).
LEMMA RewrittenShape ==
  ASSUME NEW P, NEW at, NEW m, State(P, at, m), m # "save_cont", NEW m2, m2 # "save_cont",
         depth > 0, NEW c, c = at[Running][1],
         NEW v \in P \cup Leaf, NEW w, After(P, at, Running, 1, w),
         car' = [car EXCEPT ![c] = v], cdr' = [cdr EXCEPT ![c] = w],
         type' = type, stale' = stale, depth' = depth, frame' = frame
  PROVE  /\ Shape(P, at, m2)'
         /\ Own(P, at, m2)' \subseteq Own(P, at, m)
<1> DEFINE src == [o \in Owner |-> o]
<1>1. /\ Shape(P, at, m) /\ Types /\ P \in SUBSET Cell /\ at \in Places
      /\ depth \in Nat /\ Height(Running) = depth
  BY StateFacts
<1>2. 1 \in Nat /\ Running \in Owner /\ Slot(P, m, Running, 1)
  BY <1>1, OwnerFacts DEF Slot
<1>3. c \in Cell /\ c \notin P /\ type[c] = "CONS"
  <2>1. TempOK(P, at, Running, 1)
    BY <1>1, <1>2 DEF Shape
  <2> QED
    BY <1>1, <1>2, <2>1, PlaceIsCell DEF Shape, Apart, TempOK
<1>4. /\ car'[c] = v /\ cdr'[c] = w
      /\ \A x \in Cell \ {c} : car'[x] = car[x] /\ cdr'[x] = cdr[x]
  BY <1>1, <1>3 DEF Types, HTypeOK
<1>5. /\ Frames(P)' = Frames(P) /\ \A o : Height(o)' = Height(o)
      /\ \A o \in Owner, i \in Nat : Slot(P, m2, o, i)' => Slot(P, m, o, i)
  BY DEF Frames, Height, Slot
<1>6. ASSUME NEW o \in Owner, NEW i \in Nat, Slot(P, m2, o, i)', ~(o = Running /\ i = 1)
      PROVE  /\ Slot(P, m, o, i) /\ at[o][i] \notin P /\ at[o][i] # at[Running][1]
             /\ car'[at[o][i]] = car[at[o][i]] /\ cdr'[at[o][i]] = cdr[at[o][i]]
  <2>1. Slot(P, m, o, i) /\ at[o][i] \in Cell
    BY <1>1, <1>5, <1>6, PlaceIsCell
  <2>2. at[o][i] \notin P /\ at[o][i] # c
    BY <1>1, <1>2, <1>6, <2>1 DEF Shape, Apart
  <2> QED
    BY <1>4, <2>1, <2>2
<1>7. PublicOK(P)'
  BY <1>1, <1>3, <1>4 DEF Shape, PublicOK
<1>8. ASSUME NEW o \in Owner, NEW i \in Nat, Slot(P, m2, o, i)', ~(o = Running /\ i = 1)
      PROVE  Kept(P, at, m, P, at, src, o, i)
  BY <1>5, <1>6, <1>8 DEF Kept
<1>9. TempOK(P, at, Running, 1)'
  <2>1. After(P, at, Running, 1, w)'
    BY <1>5 DEF After
  <2> QED
    BY <1>3, <1>4, <2>1 DEF TempOK
<1>10. ASSUME NEW k \in Frames(P)' PROVE PutAside(at, k)'
  <2>1. k \in Frames(P) /\ k \in Cell /\ k \in P /\ k # c /\ k # Running /\ k \in Owner
    BY <1>1, <1>3, <1>5, OwnerFacts DEF Frames
  <2>2. PutAside(at, k)
    BY <1>1, <2>1 DEF Shape
  <2>3. ASSUME NEW i \in 1 .. Height(k) PROVE car'[at[k][i]] = frame'[k][i]
    <3>1. i \in Nat /\ Slot(P, m2, k, i)'
      BY <1>1, <1>5, <2>1, HeightIs DEF Slot
    <3>2. car'[at[k][i]] = car[at[k][i]]
      BY <1>6, <2>1, <3>1
    <3> QED
      BY <2>2, <3>2 DEF PutAside
  <2> QED
    BY <1>4, <1>5, <2>1, <2>2, <2>3 DEF PutAside
<1>11. \A o, q \in Owner : src[o] = src[q] => o = q
  OBVIOUS
<1> HIDE DEF src
<1>12. Moves(P, at, m, P, at, m2, src, 1)
  <2>1. \A o \in Owner, i \in Nat :
          Slot(P, m2, o, i)' /\ ~(o = Running /\ i = 1) =>
            /\ Kept(P, at, m, P, at, src, o, i)
            /\ Slot(P, m2, Running, 1)' => at[o][i] # at[Running][1]
    BY <1>6, <1>8
  <2>2. \A o, q \in Owner, i \in Nat :
          Slot(P, m2, o, i)' /\ Slot(P, m2, q, i)' /\ src[o] = src[q] => o = q
    BY <1>11
  <2>3. Slot(P, m2, Running, 1)' =>
          /\ at[Running][1] \notin P
          /\ 1 > 0 => TempOK(P, at, Running, 1)'
          /\ 1 = 0 => ClosureOK(P, at, Running)'
    BY <1>3, <1>9
  <2>4. \A k \in Frames(P)' : PutAside(at, k)'
    BY <1>10
  <2> QED
    BY <1>2, <2>1, <2>2, <2>3, <2>4, Zenon DEF Moves
<1>13. Own(P, at, m2)' \subseteq Own(P, at, m)
  BY <1>5 DEF Own
<1> QED
  BY <1>7, <1>12, <1>13, MovedShape

\* A continuation is resumed: its frame becomes the running one.
Resumes(P, at, k, c, at2) ==
  /\ depth > 0 /\ c = at[Running][1] /\ k \in Frames(P)
  /\ type' = type /\ car' = car /\ cdr' = [cdr EXCEPT ![c] = free_cells]
  /\ stale' = stale \cup {k} /\ depth' = Len(frame[k]) /\ frame' = frame
  /\ at2 = [at EXCEPT ![Running] = at[k]]

LEMMA ResumedShape ==
  ASSUME NEW P, NEW at, NEW m, State(P, at, m), m # "save_cont", NEW m2, m2 # "save_cont",
         NEW k, NEW c, NEW at2, Resumes(P, at, k, c, at2)
  PROVE  /\ Shape(P, at2, m2)' /\ at2 \in Places
         /\ Own(P, at2, m2)' \subseteq Own(P, at, m) /\ c \notin Own(P, at2, m2)'
<1> DEFINE src == [o \in Owner |-> IF o = Running THEN k ELSE o]
<1> USE DEF Resumes
<1>1. /\ Shape(P, at, m) /\ Types /\ P \in SUBSET Cell /\ at \in Places
      /\ depth \in Nat /\ Height(Running) = depth
  BY StateFacts
<1>2. /\ 1 \in Nat /\ Running \in Owner /\ Slot(P, m, Running, 1)
      /\ k \in P /\ k \in Cell /\ k \in Owner /\ k # Running /\ type[k] = "CONTINUATION"
  BY <1>1, OwnerFacts DEF Slot, Frames, Owner
<1>3. c \in Cell /\ c \notin P
  BY <1>1, <1>2, PlaceIsCell DEF Shape, Apart
<1>4. \A x \in Cell \ {c} : cdr'[x] = cdr[x]
  BY <1>1, <1>3 DEF Types, HTypeOK
<1>5. /\ Frames(P)' = Frames(P) \ {k}
      /\ Height(Running)' = Height(k) /\ \A o \in Cell : Height(o)' = Height(o)
  BY <1>2, OwnerFacts DEF Frames, Height
<1>6. /\ at2[Running] = at[k] /\ \A o \in Cell : at2[o] = at[o]
      /\ at2 \in Places
  BY <1>1, <1>2, OwnerFacts DEF Places
<1>7. ASSUME NEW o \in Owner, NEW i \in Nat, Slot(P, m2, o, i)'
      PROVE  /\ src[o] \in Owner /\ Slot(P, m, src[o], i) /\ src[o] # Running
             /\ at2[o] = at[src[o]] /\ Height(o)' = Height(src[o])
             /\ o # Running => o # k
  <2>1. CASE o = Running
    BY <1>2, <1>5, <1>6, <1>7, <2>1 DEF Slot
  <2>2. CASE o # Running
    <3>1. o \in Frames(P) /\ o \in Cell /\ i \in 0 .. Height(o) /\ o # k
      BY <1>1, <1>5, <1>7, <2>2 DEF Slot, Frames
    <3> QED
      BY <1>5, <1>6, <2>2, <3>1 DEF Slot
  <2> QED
    BY <2>1, <2>2
<1>8. ASSUME NEW o \in Owner, NEW i \in Nat, Slot(P, m2, o, i)'
      PROVE  Kept(P, at, m, P, at2, src, o, i)
  <2>1. /\ src[o] \in Owner /\ Slot(P, m, src[o], i) /\ src[o] # Running
        /\ at2[o] = at[src[o]] /\ Height(o)' = Height(src[o])
    BY <1>7, <1>8
  <2> HIDE DEF src
  <2>2. at[src[o]][i] \in Cell /\ at[src[o]][i] \notin P /\ at[src[o]][i] # c
    BY <1>1, <1>2, <2>1, PlaceIsCell DEF Shape, Apart
  <2>3. cdr'[at[src[o]][i]] = cdr[at[src[o]][i]]
    BY <1>4, <2>2
  <2> QED
    BY <2>1, <2>2, <2>3 DEF Kept
<1>9. PublicOK(P)'
  <2>1. PublicOK(P)
    BY <1>1 DEF Shape
  <2>2. \A x \in P : x # c /\ cdr'[x] = cdr[x]
    BY <1>1, <1>3, <1>4
  <2> QED
    BY <1>2, <2>1, <2>2 DEF PublicOK
<1>10. ASSUME NEW q \in Frames(P)' PROVE PutAside(at2, q)'
  <2>1. q \in Frames(P) /\ q \in Cell /\ q # c
    BY <1>1, <1>3, <1>5 DEF Frames
  <2>2. PutAside(at, q) /\ cdr'[q] = cdr[q]
    BY <1>1, <1>4, <2>1 DEF Shape
  <2> QED
    BY <1>5, <1>6, <2>1, <2>2 DEF PutAside
<1>11. \A o, q \in Owner, i \in Nat :
         Slot(P, m2, o, i)' /\ Slot(P, m2, q, i)' /\ src[o] = src[q] => o = q
  BY <1>7
<1>12. ~ Slot(P, m2, Running, 0)'
  BY DEF Slot
<1> HIDE DEF src
<1>13. Moves(P, at, m, P, at2, m2, src, 0)
  BY <1>8, <1>10, <1>11, <1>12 DEF Moves
<1>14. /\ Shape(P, at2, m2)'
       /\ Own(P, at2, m2)' \subseteq Own(P, at, m)
  BY <1>9, <1>12, <1>13, MovedShape
<1>15. c \notin Own(P, at2, m2)'
  <2> SUFFICES ASSUME NEW o \in Owner, NEW i \in Nat, Slot(P, m2, o, i)' PROVE at2[o][i] # c
    BY DEF Own
  <2> QED
    BY <1>1, <1>2, <1>7 DEF Shape, Apart
<1> QED
  BY <1>5, <1>6, <1>14, <1>15

\* Nothing happens to the heap, or to the cells that are public or in a place.
LEMMA SameShape ==
  ASSUME NEW P, NEW at, NEW m, State(P, at, m), NEW m2, (m2 = "save_cont") <=> (m = "save_cont"),
         \A c \in Live : /\ type'[c] = type[c] /\ car'[c] = car[c] /\ cdr'[c] = cdr[c]
                         /\ c \in stale' <=> c \in stale
                         /\ frame'[c] = frame[c],
         \A c \in stale' : type'[c] = "CONTINUATION",
         depth' = depth
  PROVE  /\ Shape(P, at, m2)'
         /\ Own(P, at, m2)' = Own(P, at, m)
<1>1. /\ Shape(P, at, m) /\ Types /\ P \in SUBSET Cell /\ at \in Places /\ P \subseteq Live
      /\ Own(P, at, m) \subseteq Live
  BY StateFacts
<1>2. Frames(P)' = Frames(P)
  BY <1>1 DEF Frames
<1>3. \A o \in Frames(P) \cup {Running} : Height(o)' = Height(o)
  BY <1>1 DEF Height, Frames
<1>4. \A o, i : Slot(P, m2, o, i)' <=> Slot(P, m, o, i)
  BY <1>2, <1>3 DEF Slot
<1>5. \A o \in Owner, i \in Nat : Slot(P, m, o, i) =>
        /\ type'[at[o][i]] = type[at[o][i]]
        /\ car'[at[o][i]] = car[at[o][i]] /\ cdr'[at[o][i]] = cdr[at[o][i]]
        /\ Height(o)' = Height(o)
  <2> SUFFICES ASSUME NEW o \in Owner, NEW i \in Nat, Slot(P, m, o, i)
               PROVE  at[o][i] \in Live /\ Height(o)' = Height(o)
    OBVIOUS
  <2>1. at[o][i] \in Cell
    BY <1>1, PlaceIsCell
  <2> QED
    BY <1>1, <1>3, <2>1 DEF Own, Slot
<1>6. PublicOK(P)'
  <2>1. PublicOK(P)
    BY <1>1 DEF Shape
  <2>2. \A c \in 0 .. Reserved-1 : c \in P /\ type'[c] = "CONS"
    BY <1>1, <2>1 DEF PublicOK
  <2>3. ASSUME NEW c \in P \ stale'
        PROVE  /\ HasLeftLink(type'[c]) => car'[c] \in P \cup Leaf
               /\ type'[c] = "CONS" => cdr'[c] \in P \cup Leaf
    BY <1>1, <2>1 DEF PublicOK
  <2> QED
    BY <2>2, <2>3 DEF PublicOK
<1>7. Apart(P, at, m2)'
  <2>1. Apart(P, at, m)
    BY <1>1 DEF Shape
  <2> QED
    BY <1>4, <2>1 DEF Apart
<1>8. ASSUME NEW o \in Owner, NEW i \in Nat, Slot(P, m2, o, i)', i > 0
      PROVE  TempOK(P, at, o, i)'
  BY <1>1, <1>4, <1>5, <1>8, KeptTemp DEF Shape
<1>9. ASSUME NEW o \in Owner, Slot(P, m2, o, 0)' PROVE ClosureOK(P, at, o)'
  <2>1. 0 \in Nat
    OBVIOUS
  <2> QED
    BY <1>1, <1>4, <1>5, <1>9, <2>1, KeptClosure DEF Shape
<1>10. ASSUME NEW k \in Frames(P)' PROVE PutAside(at, k)'
  <2>1. k \in Frames(P) /\ k \in Live /\ k \in Owner /\ k # Running
    BY <1>1, <1>2, OwnerFacts DEF Frames
  <2>2. PutAside(at, k)
    BY <1>1, <2>1 DEF Shape
  <2>3. ASSUME NEW i \in 1 .. Height(k) PROVE car'[at[k][i]] = frame'[k][i]
    <3>1. i \in Nat /\ Slot(P, m, k, i)
      BY <1>1, <2>1, HeightIs, FramesAre DEF Slot
    <3> QED
      BY <1>5, <2>1, <2>2, <3>1 DEF PutAside
  <2> QED
    BY <1>3, <2>1, <2>2, <2>3 DEF PutAside
<1>11. Own(P, at, m2)' = Own(P, at, m)
  BY <1>4 DEF Own
<1> QED
  BY <1>6, <1>7, <1>8, <1>9, <1>10, <1>11 DEF Shape

-----------------------------------------------------------------------------
(***************************************************************************)
(* The stack as a list of cells.                                           *)
(***************************************************************************)
IsList(f, v, n) ==
  f = [i \in 0 .. n |-> IF i = 0 THEN v
                        ELSE IF f[i-1] \in Cell THEN cdr[f[i-1]] ELSE NIL]

LEMMA ListExists ==
  ASSUME NEW v, NEW n \in Nat
  PROVE  \E f : IsList(f, v, n)
<1> DEFINE Bad == {k \in Nat : ~ \E f : IsList(f, v, k)}
<1> SUFFICES ASSUME Bad # {} PROVE FALSE
  OBVIOUS
<1>1. PICK m \in Bad : \A k \in Bad : m <= k
  BY LeastIsLeast
<1>2. CASE m = 0
  <2> DEFINE f == [i \in 0 .. 0 |-> v]
  <2>1. \A i \in 0 .. 0 : i = 0
    OBVIOUS
  <2>2. f = [i \in 0 .. 0 |-> IF i = 0 THEN v
                              ELSE IF f[i-1] \in Cell THEN cdr[f[i-1]] ELSE NIL]
    BY <2>1
  <2> QED
    BY <1>2, <2>2 DEF IsList
<1>3. CASE m # 0
  <2>1. m \in Nat /\ m - 1 \in Nat /\ ~(m <= m - 1)
    BY <1>3
  <2>2. PICK g : IsList(g, v, m - 1)
    BY <1>1, <2>1
  <2> DEFINE f == [i \in 0 .. m |-> IF i = m THEN IF g[m-1] \in Cell THEN cdr[g[m-1]] ELSE NIL
                                    ELSE g[i]]
  <2>3. \A i \in 0 .. m - 1 :
          g[i] = IF i = 0 THEN v ELSE IF g[i-1] \in Cell THEN cdr[g[i-1]] ELSE NIL
    BY <2>2 DEF IsList
  <2>4. ASSUME NEW i \in 0 .. m
        PROVE  f[i] = IF i = 0 THEN v ELSE IF f[i-1] \in Cell THEN cdr[f[i-1]] ELSE NIL
    <3>1. CASE i = m
      BY <1>3, <2>1, <3>1
    <3>2. CASE i # m
      <4>1. i \in 0 .. m - 1 /\ (i # 0 => i - 1 \in 0 .. m /\ i - 1 # m)
        BY <2>1, <3>2
      <4> QED
        BY <2>3, <3>2, <4>1
    <3> QED
      BY <3>1, <3>2
  <2>5. IsList(f, v, m)
    BY <2>4 DEF IsList
  <2> QED
    BY <2>5
<1> QED
  BY <1>2, <1>3

LEMMA ListIs ==
  ASSUME NEW v
  PROVE  /\ ListCells(v)[0] = v
         /\ \A i \in 0 .. N-1 :
              ListCells(v)[i+1] = IF ListCells(v)[i] \in Cell THEN cdr[ListCells(v)[i]] ELSE NIL
<1> DEFINE L == ListCells(v)
<1>1. IsList(L, v, N)
  <2>1. \E f : IsList(f, v, N)
    BY OwnerFacts, ListExists
  <2> QED
    BY <2>1 DEF IsList, ListCells
<1> HIDE DEF L
<1>2. \A i \in 0 .. N : L[i] = IF i = 0 THEN v ELSE IF L[i-1] \in Cell THEN cdr[L[i-1]] ELSE NIL
  BY <1>1 DEF IsList
<1>3. ASSUME NEW i \in 0 .. N-1
      PROVE  L[i+1] = IF L[i] \in Cell THEN cdr[L[i]] ELSE NIL
  <2>1. i + 1 \in 0 .. N /\ i + 1 # 0 /\ (i + 1) - 1 = i
    BY OwnerFacts
  <2> QED
    BY <1>2, <2>1
<1>4. L[0] = v
  BY <1>2, OwnerFacts
<1> QED
  BY <1>3, <1>4 DEF L

\* A frame has no more temporaries than there are cells.
LEMMA HeightBound ==
  ASSUME NEW P, NEW at, NEW m, State(P, at, m), NEW o \in Frames(P) \cup {Running}
  PROVE  Height(o) \in 0 .. N /\ o \in Owner
<1>1. /\ P \in SUBSET Cell /\ at \in Places /\ Types /\ Shape(P, at, m)
  BY StateFacts
<1>2. o \in Owner /\ Height(o) \in Nat
  BY <1>1, FramesAre, HeightIs, OwnerFacts
<1> DEFINE f == [i \in 1 .. Height(o) |-> at[o][i]]
<1>3. ASSUME NEW i \in 1 .. Height(o) PROVE i \in Nat /\ Slot(P, m, o, i)
  BY <1>2 DEF Slot
<1>4. f \in [1 .. Height(o) -> Cell]
  BY <1>1, <1>2, <1>3, PlaceIsCell
<1>5. \A i, j \in 1 .. Height(o) : f[i] = f[j] => i = j
  BY <1>1, <1>2, <1>3 DEF Shape, Apart
<1>6. f \in Injection(1 .. Height(o), Cell)
  BY <1>4, <1>5 DEF Injection, IsInjective
<1>7. IsFiniteSet(Cell) /\ Cardinality(Cell) = N
  <2>1. 0 \in Int /\ N-1 \in Int
    BY OwnerFacts
  <2>2. IsFiniteSet(0 .. N-1) /\ Cardinality(0 .. N-1) = IF 0 > N-1 THEN 0 ELSE (N-1)-0+1
    BY <2>1, FS_Interval
  <2> QED
    BY <2>2, OwnerFacts DEF Cell
<1> HIDE DEF f
<1>8. Cardinality(1 .. Height(o)) <= N
  BY <1>6, <1>7, FS_Injection
<1>9. Cardinality(1 .. Height(o)) = Height(o)
  <2>1. 1 \in Int /\ Height(o) \in Int
    BY <1>2
  <2>2. Cardinality(1 .. Height(o)) = IF 1 > Height(o) THEN 0 ELSE Height(o)-1+1
    BY <2>1, FS_Interval
  <2> QED
    BY <1>2, <2>2
<1> QED
  BY <1>2, <1>8, <1>9, OwnerFacts

\* The list that leads to a frame goes through its temporaries.
LEMMA ListOfFrame ==
  ASSUME NEW P, NEW at, NEW m, State(P, at, m), NEW o \in Frames(P) \cup {Running},
         NEW v, After(P, at, o, 0, v)
  PROVE  \A i \in 0 .. Height(o) : After(P, at, o, i, ListCells(v)[i])
<1> DEFINE L == ListCells(v)
           Bad == {i \in 0 .. Height(o) : ~ After(P, at, o, i, L[i])}
<1> HIDE DEF L
<1>1. SUFFICES ASSUME Bad # {} PROVE FALSE
  BY DEF L
<1>2. /\ Shape(P, at, m) /\ at \in Places /\ P \in SUBSET Cell /\ Height(o) \in 0 .. N
      /\ o \in Owner /\ Height(o) \in Nat /\ Height(o) <= N
  BY StateFacts, HeightBound, OwnerFacts
<1>3. PICK j \in Bad : \A k \in Bad : j <= k
  <2>1. Bad \in SUBSET Nat
    BY <1>2
  <2> HIDE DEF Bad
  <2> QED
    BY <1>1, <2>1, LeastIsLeast
<1>4. j \in 0 .. Height(o) /\ ~ After(P, at, o, j, L[j])
  BY <1>3
<1>5. j # 0
  BY <1>4, ListIs DEF L
<1>6. /\ j - 1 \in 0 .. Height(o) /\ ~(j <= j - 1) /\ j - 1 \in 0 .. N-1 /\ (j - 1) + 1 = j
      /\ j - 1 < Height(o) /\ j \in Nat /\ j > 0
  BY <1>2, <1>4, <1>5, OwnerFacts
<1>7. After(P, at, o, j - 1, L[j-1])
  BY <1>3, <1>6
<1>8. L[j-1] = at[o][j]
  BY <1>6, <1>7 DEF After
<1>9. Slot(P, m, o, j)
  BY <1>4, <1>6 DEF Slot
<1>10. at[o][j] \in Cell /\ After(P, at, o, j, cdr[at[o][j]])
  BY <1>2, <1>6, <1>9, PlaceIsCell DEF Shape, TempOK
<1>11. L[j] = cdr[at[o][j]]
  <2>1. L[(j-1)+1] = IF L[j-1] \in Cell THEN cdr[L[j-1]] ELSE NIL
    BY <1>6, ListIs DEF L
  <2> QED
    BY <1>6, <1>8, <1>10, <2>1
<1> QED
  BY <1>4, <1>10, <1>11

\* What a frame that has put aside holds, read from its list.
LEMMA ValuesOfFrame ==
  ASSUME NEW P, NEW at, NEW m, State(P, at, m), NEW o \in Frames(P) \cup {Running},
         NEW v, After(P, at, o, 0, v), NEW n \in 0 .. Height(o)
  PROVE  /\ Values(v, n) = [i \in 1 .. n |-> car[at[o][i]]]
         /\ Values(v, n) \in Seq(Value) /\ Len(Values(v, n)) = n
<1>1. /\ at \in Places /\ Types /\ Height(o) \in Nat /\ o \in Owner
  BY StateFacts, HeightBound, OwnerFacts
<1>2. ASSUME NEW i \in 1 .. n
      PROVE  at[o][i] \in Cell /\ ListCells(v)[i-1] = at[o][i] /\ car[at[o][i]] \in Value
  <2>1. i \in Nat /\ i - 1 \in 0 .. Height(o) /\ i - 1 < Height(o) /\ (i - 1) + 1 = i
    BY <1>1
  <2>2. After(P, at, o, i - 1, ListCells(v)[i-1])
    BY <2>1, ListOfFrame
  <2>3. at[o][i] \in Cell
    BY <1>1, <2>1, PlaceIsCell
  <2> QED
    BY <1>1, <2>1, <2>2, <2>3 DEF After, Types, HTypeOK
<1>3. Values(v, n) = [i \in 1 .. n |-> car[at[o][i]]]
  BY <1>2 DEF Values
<1>4. n \in Nat
  BY <1>1
<1> QED
  BY <1>2, <1>3, <1>4

LEMMA StackIs ==
  ASSUME NEW P, NEW at, NEW m, State(P, at, m), m \notin Closing
  PROVE  /\ depth \in 0 .. N
         /\ \A i \in 0 .. depth : After(P, at, Running, i, Stack[i])
         /\ \A i \in 0 .. depth - 1 : Stack[i] = at[Running][i+1]
         /\ Stack[0] = reg["env"]
<1>1. Running \in Frames(P) \cup {Running} /\ Height(Running) = depth /\ depth \in Nat
  BY StateFacts
<1>2. After(P, at, Running, 0, reg["env"])
  BY StateFacts DEF Registers
<1>3. depth \in 0 .. N
  BY <1>1, HeightBound
<1>4. \A i \in 0 .. depth : After(P, at, Running, i, Stack[i])
  BY <1>1, <1>2, ListOfFrame DEF Stack
<1>5. ASSUME NEW i \in 0 .. depth - 1 PROVE Stack[i] = at[Running][i+1]
  <2>1. i \in 0 .. depth /\ i < depth
    BY <1>1
  <2> QED
    BY <1>1, <1>4, <2>1 DEF After
<1> QED
  BY <1>3, <1>4, <1>5, ListIs DEF Stack

\* The temporaries of the running frame.
LEMMA TemporaryIs ==
  ASSUME NEW P, NEW at, NEW m, State(P, at, m), NEW i \in 1 .. depth
  PROVE  /\ i \in Nat /\ Slot(P, m, Running, i)
         /\ at[Running][i] \in Cell /\ at[Running][i] \notin P /\ at[Running][i] \in Live
         /\ type[at[Running][i]] = "CONS" /\ at[Running][i] \notin stale
         /\ car[at[Running][i]] \in P \cup Leaf
         /\ After(P, at, Running, i, cdr[at[Running][i]])
         /\ at[Running][i] \in Reserved .. N-1
         /\ \A j \in 1 .. depth : at[Running][i] = at[Running][j] => i = j
<1>1. /\ P \in SUBSET Cell /\ at \in Places /\ Types /\ Shape(P, at, m)
      /\ depth \in Nat /\ Height(Running) = depth /\ Own(P, at, m) \subseteq Live
      /\ Running \in Owner
  BY StateFacts, OwnerFacts
<1>2. \A j \in 1 .. depth : j \in Nat /\ j > 0 /\ Slot(P, m, Running, j)
  BY <1>1 DEF Slot
<1>3. at[Running][i] \in Cell /\ at[Running][i] \notin P
  BY <1>1, <1>2, PlaceIsCell DEF Shape, Apart
<1>4. TempOK(P, at, Running, i)
  BY <1>1, <1>2 DEF Shape
<1>5. at[Running][i] \in Live
  BY <1>1, <1>2, <1>3 DEF Own
<1>6. PublicOK(P)
  BY <1>1 DEF Shape
<1>7. at[Running][i] \notin stale
  BY <1>4, <1>6 DEF TempOK, PublicOK
<1>8. at[Running][i] \in Reserved .. N-1
  <2>1. at[Running][i] \notin 0 .. Reserved-1
    BY <1>3, <1>6 DEF PublicOK
  <2> QED
    BY <1>3, <2>1, SizesAssumption DEF Cell
<1>9. \A j \in 1 .. depth : at[Running][i] = at[Running][j] => i = j
  BY <1>1, <1>2 DEF Shape, Apart
<1> QED
  BY <1>2, <1>3, <1>4, <1>5, <1>7, <1>8, <1>9 DEF TempOK

\* The top of the stack, and what pop() leaves in env.
LEMMA TopIs ==
  ASSUME NEW P, NEW at, NEW m, State(P, at, m), m \notin Closing, depth > 0
  PROVE  /\ 1 \in 1 .. depth /\ reg["env"] = at[Running][1]
         /\ TopValue \in P \cup Leaf
         /\ After(P, at, Running, 1, PoppedEnv)
<1>1. 1 \in 1 .. depth /\ 0 < Height(Running) /\ 0 + 1 = 1
  BY StateFacts
<1>2. reg["env"] = at[Running][1]
  BY <1>1, StateFacts DEF Registers, After
<1> QED
  BY <1>1, <1>2, TemporaryIs DEF TopValue, PoppedEnv

\* LDSTK: what is in scope is public, or a temporary.
LEMMA InScopeIs ==
  ASSUME NEW P, NEW at, NEW m, State(P, at, m), m \notin Closing,
         NEW n \in 0 .. N-1, InScope(n)
  PROVE  /\ Stack[n] \in P \cup Leaf \cup Temps(at)
         /\ Stack[n] = NIL \/ IsPair(Stack[n])
         /\ IsPair(Stack[n]) => car[Stack[n]] \in P \cup Leaf
<1>1. /\ P \in SUBSET Cell /\ depth \in Nat /\ depth \in 0 .. N /\ Types
      /\ \A i \in 0 .. depth : After(P, at, Running, i, Stack[i])
      /\ \A i \in 0 .. depth - 1 : Stack[i] = at[Running][i+1]
      /\ Height(Running) = depth
  BY StateFacts, StackIs
<1>2. PublicOK(P)
  BY StateFacts DEF Shape
<1>3. \A c \in P : type[c] = "CONS" => car[c] \in P \cup Leaf /\ cdr[c] \in P \cup Leaf
  BY <1>2 DEF PublicOK, HasLeftLink
<1> DEFINE S == Stack
<1>4. \A i \in 0 .. N-1 : S[i+1] = IF S[i] \in Cell THEN cdr[S[i]] ELSE NIL
  BY ListIs DEF Stack
<1>5. \A i \in 0 .. n-1 : S[i] \in Cell /\ type[S[i]] = "CONS"
  BY DEF InScope, IsPair
<1> HIDE DEF S
<1>6. CASE n < depth
  <2>1. n + 1 \in 1 .. depth /\ n \in 0 .. depth - 1
    BY <1>1, <1>6
  <2>2. S[n] = at[Running][n+1] /\ at[Running][n+1] \in Cell
        /\ car[at[Running][n+1]] \in P \cup Leaf
    BY <1>1, <2>1, TemporaryIs DEF S
  <2>3. S[n] \in Temps(at)
    BY <2>1, <2>2 DEF Temps
  <2> QED
    BY <2>2, <2>3 DEF S, InScope
<1>7. CASE n >= depth
  <2> DEFINE Bad == {i \in depth .. n : S[i] \notin P \cup Leaf}
  <2>1. Bad = {}
    <3> SUFFICES ASSUME Bad # {} PROVE FALSE
      OBVIOUS
    <3>1. Bad \in SUBSET Nat
      BY <1>1
    <3>2. PICK j \in Bad : \A k \in Bad : j <= k
      <4> HIDE DEF Bad
      <4> QED
        BY <3>1, LeastIsLeast
    <3>3. j # depth
      <4>1. After(P, at, Running, depth, S[depth]) /\ depth \in 0 .. depth
        BY <1>1 DEF S
      <4>2. S[depth] \in P \cup Leaf
        BY <1>1, <4>1 DEF After
      <4> QED
        BY <4>2
    <3>4. /\ j - 1 \in depth .. n /\ j - 1 \in 0 .. n-1 /\ j - 1 \in 0 .. N-1
          /\ (j - 1) + 1 = j /\ ~(j <= j - 1)
      BY <1>1, <3>2, <3>3, OwnerFacts
    <3>5. S[j-1] \in P \cup Leaf
      BY <3>2, <3>4
    <3>6. S[j-1] \in Cell /\ type[S[j-1]] = "CONS"
      BY <1>5, <3>4
    <3>7. S[j] = cdr[S[j-1]]
      BY <1>4, <3>4, <3>6
    <3>8. S[j] \in P \cup Leaf
      BY <1>3, <3>5, <3>6, <3>7, OwnerFacts
    <3> QED
      BY <3>2, <3>8
  <2>2. n \in depth .. n
    BY <1>1, <1>7
  <2>3. S[n] \in P \cup Leaf
    BY <2>1, <2>2
  <2>4. IsPair(S[n]) => car[S[n]] \in P \cup Leaf
    BY <1>3, <2>3, OwnerFacts DEF IsPair
  <2> QED
    BY <2>3, <2>4 DEF S, InScope
<1>8. n < depth \/ n >= depth
  BY <1>1
<1> QED
  BY <1>6, <1>7, <1>8

\* build_environment rewrites the cells of the arguments and no others.
IsRelinked(R, d, first, last, base) ==
  /\ \A c \in Cell : (\A i \in first .. last : Stack[i] # c) => R[c] = d[c]
  /\ \A c \in Cell : (\E i \in first .. last : Stack[i] = c) =>
       R[c] \in {base} \cup {Stack[i] : i \in first .. last}
  /\ R = [c \in Cell |-> R[c]]

LEMMA RelinkedIs ==
  ASSUME NEW d, NEW first \in Nat, NEW last \in Int, NEW base
  PROVE  IsRelinked(Relinked(d, first, last, base), d, first, last, base)
<1> DEFINE R == Relinked(d, first, last, base)
           S == Stack
           at(c) == {i \in first .. last : S[i] = c}
<1>1. R = [c \in Cell |-> IF at(c) = {} THEN d[c]
                          ELSE IF first \in at(c) THEN base ELSE S[Least(at(c)) - 1]]
  BY DEF Relinked
<1> HIDE DEF R, S
<1>2. ASSUME NEW c \in Cell, \A i \in first .. last : S[i] # c PROVE R[c] = d[c]
  <2>1. at(c) = {}
    BY <1>2
  <2> QED
    BY <1>1, <2>1
<1>3. ASSUME NEW c \in Cell, \E i \in first .. last : S[i] = c
      PROVE  R[c] \in {base} \cup {S[i] : i \in first .. last}
  <2> DEFINE A == at(c)
  <2>1. A # {} /\ A \in SUBSET (first .. last) /\ A \in SUBSET Nat
    BY <1>3
  <2>2. R[c] = IF first \in A THEN base ELSE S[Least(A) - 1]
    BY <1>1, <2>1
  <2> HIDE DEF A
  <2>3. Least(A) \in A
    BY <2>1, LeastIsLeast
  <2>4. CASE first \notin A
    <3>1. Least(A) \in first .. last /\ Least(A) # first
      BY <2>1, <2>3, <2>4
    <3> DEFINE l == Least(A)
    <3> HIDE DEF l
    <3>2. l - 1 \in first .. last
      BY <3>1 DEF l
    <3> QED
      BY <2>2, <2>4, <3>2 DEF l
  <2> QED
    BY <2>2, <2>4
<1>4. R = [c \in Cell |-> R[c]]
  BY <1>1
<1> QED
  BY <1>2, <1>3, <1>4 DEF R, S, IsRelinked

(***************************************************************************)
(* The frame f that prepare_arguments and build_environment make of the    *)
(* first u cells of the stack, and of no others: those in W become public. *)
(***************************************************************************)
MakesFrame(f, P, at, u, W) ==
  LET Q == P \cup W \cup Leaf
  IN  /\ W \in SUBSET {at[Running][i] : i \in 1 .. u}
      /\ f.env \in Q
      /\ f.car \in [Cell -> Value] /\ f.cdr \in [Cell -> Value]
      /\ \A c \in W : f.car[c] \in Q /\ f.cdr[c] \in Q
      /\ \A c \in Cell \ W : f.car[c] = car[c] /\ f.cdr[c] = cdr[c]

LEMMA TopLevelFrameIs ==
  ASSUME NEW P, NEW at, NEW m, State(P, at, m), m \notin Closing, NEW n \in 0 .. depth
  PROVE  \E W : MakesFrame(TopLevelFrame(n), P, at, n, W)
<1> DEFINE W == {at[Running][i] : i \in 1 .. n}
           R == Relinked(cdr, 0, n-1, NIL)
<1>1. /\ depth \in Nat /\ n \in Nat /\ Types /\ NIL \in Leaf
      /\ \A i \in 0 .. depth - 1 : Stack[i] = at[Running][i+1]
  BY StateFacts, StackIs, OwnerFacts
<1>2. \A i \in 0 .. n-1 : Stack[i] \in W
  <2> SUFFICES ASSUME NEW i \in 0 .. n-1 PROVE Stack[i] \in W
    OBVIOUS
  <2>1. i \in 0 .. depth - 1 /\ i + 1 \in 1 .. n
    BY <1>1
  <2> QED
    BY <1>1, <2>1
<1>3. ASSUME NEW c \in W
      PROVE  c \in Cell /\ car[c] \in P \cup Leaf /\ \E i \in 0 .. n-1 : Stack[i] = c
  <2>1. PICK i \in 1 .. n : c = at[Running][i]
    BY <1>3
  <2>2. i \in 1 .. depth /\ i - 1 \in 0 .. n-1 /\ i - 1 \in 0 .. depth - 1 /\ (i - 1) + 1 = i
    BY <1>1
  <2> QED
    BY <1>1, <2>1, <2>2, TemporaryIs
<1> HIDE DEF W
<1>4. 0 \in Nat /\ n-1 \in Int
  BY <1>1
<1>5. /\ \A c \in Cell : (\A i \in 0 .. n-1 : Stack[i] # c) => R[c] = cdr[c]
      /\ \A c \in Cell : (\E i \in 0 .. n-1 : Stack[i] = c) =>
           R[c] \in {NIL} \cup {Stack[i] : i \in 0 .. n-1}
      /\ R = [c \in Cell |-> R[c]]
  <2>1. IsRelinked(R, cdr, 0, n-1, NIL)
    BY <1>4, RelinkedIs
  <2> QED
    BY <2>1 DEF IsRelinked
<1> HIDE DEF R
<1>6. \A c \in W : R[c] \in W \cup Leaf
  BY <1>1, <1>2, <1>3, <1>5
<1>7. \A c \in Cell \ W : R[c] = cdr[c]
  BY <1>2, <1>5
<1>8. R \in [Cell -> Value] /\ car \in [Cell -> Value]
  <2>1. cdr \in [Cell -> Value] /\ car \in [Cell -> Value]
    BY <1>1 DEF Types, HTypeOK
  <2> QED
    BY <1>3, <1>5, <1>6, <1>7, <2>1, OwnerFacts
<1>9. Front(0, n-1, NIL) \in W \cup Leaf
  <2>1. n-1 < 0 \/ n-1 \in 0 .. n-1
    BY <1>1
  <2> QED
    BY <1>1, <1>2, <2>1 DEF Front
<1>10. W \in SUBSET {at[Running][i] : i \in 1 .. n}
  BY DEF W
<1>11. /\ TopLevelFrame(n).car = car /\ TopLevelFrame(n).cdr = R
       /\ TopLevelFrame(n).env = Front(0, n-1, NIL)
  BY DEF TopLevelFrame, R
<1>12. MakesFrame(TopLevelFrame(n), P, at, n, W)
  BY <1>3, <1>6, <1>7, <1>8, <1>9, <1>10, <1>11 DEF MakesFrame
<1> QED
  BY <1>12

\* The cells of the arguments of a closure, which is on top of them.
LEMMA ArgumentsAre ==
  ASSUME NEW P, NEW at, NEW m, State(P, at, m), m \notin Closing,
         NEW n \in 0 .. depth - 1, NEW i \in 0 .. n
  PROVE  /\ Stack[i] \in {at[Running][j] : j \in 1 .. n+1}
         /\ Stack[i] \in Cell /\ car[Stack[i]] \in P \cup Leaf
<1>1. /\ depth \in Nat /\ \A j \in 0 .. depth - 1 : Stack[j] = at[Running][j+1]
  BY StateFacts, StackIs
<1>2. i \in 0 .. depth - 1 /\ i + 1 \in 1 .. depth /\ i + 1 \in 1 .. n+1
  BY <1>1
<1> QED
  BY <1>1, <1>2, TemporaryIs

LEMMA EnvironmentOfClosure ==
  ASSUME NEW P, NEW at, NEW m, State(P, at, m), NEW v \in P \cup Leaf, IsClosure(v)
  PROVE  car[v] \in P \cup Leaf
<1>1. PublicOK(P) /\ v \in P
  BY StateFacts, OwnerFacts DEF Shape, IsClosure
<1> QED
  BY <1>1 DEF PublicOK, IsClosure, HasLeftLink

LEMMA FixedFrameIs ==
  ASSUME NEW P, NEW at, NEW m, State(P, at, m), m \notin Closing,
         NEW n \in 0 .. depth - 1, IsClosure(TopValue)
  PROVE  \E W : MakesFrame(FixedFrame(n), P, at, n+1, W)
<1> DEFINE W == {Stack[i] : i \in 1 .. n}
           e == car[car[Stack[0]]]
           R == Relinked(cdr, 1, n, e)
<1>1. /\ depth \in Nat /\ depth > 0 /\ n \in Nat /\ Types /\ NIL \in Leaf
      /\ P \in SUBSET Cell
  BY StateFacts, OwnerFacts
<1>2. e \in P \cup Leaf
  <2>1. Stack[0] = reg["env"] /\ TopValue \in P \cup Leaf
    BY <1>1, StackIs, TopIs
  <2> QED
    BY <2>1, EnvironmentOfClosure DEF TopValue
<1> HIDE DEF e
<1>3. ASSUME NEW i \in 1 .. n
      PROVE  /\ Stack[i] \in {at[Running][j] : j \in 1 .. n+1}
             /\ Stack[i] \in Cell /\ car[Stack[i]] \in P \cup Leaf
  <2>1. i \in 0 .. n
    BY <1>1
  <2> QED
    BY <2>1, ArgumentsAre
<1>4. 1 \in Nat /\ n \in Int
  BY <1>1
<1>5. /\ \A c \in Cell : (\A i \in 1 .. n : Stack[i] # c) => R[c] = cdr[c]
      /\ \A c \in Cell : (\E i \in 1 .. n : Stack[i] = c) =>
           R[c] \in {e} \cup {Stack[i] : i \in 1 .. n}
      /\ R = [c \in Cell |-> R[c]]
  <2>1. IsRelinked(R, cdr, 1, n, e)
    BY <1>4, RelinkedIs
  <2> QED
    BY <2>1 DEF IsRelinked
<1> HIDE DEF R
<1>6. /\ \A c \in W : c \in Cell /\ R[c] \in P \cup W \cup Leaf /\ car[c] \in P \cup Leaf
      /\ \A c \in Cell \ W : R[c] = cdr[c]
  BY <1>2, <1>3, <1>5
<1>7. R \in [Cell -> Value] /\ car \in [Cell -> Value]
  <2>1. cdr \in [Cell -> Value] /\ car \in [Cell -> Value]
    BY <1>1 DEF Types, HTypeOK
  <2> QED
    BY <1>1, <1>5, <1>6, <2>1, OwnerFacts
<1>8. Front(1, n, e) \in P \cup W \cup Leaf
  <2>1. n < 1 \/ n \in 1 .. n
    BY <1>1
  <2> QED
    BY <1>2, <2>1 DEF Front
<1>9. W \in SUBSET {at[Running][i] : i \in 1 .. n+1}
  BY <1>3
<1>10. /\ FixedFrame(n).car = car /\ FixedFrame(n).cdr = R
       /\ FixedFrame(n).env = Front(1, n, e)
  BY DEF FixedFrame, R, e
<1> HIDE DEF W
<1>11. MakesFrame(FixedFrame(n), P, at, n+1, W)
  BY <1>6, <1>7, <1>8, <1>9, <1>10 DEF MakesFrame
<1> QED
  BY <1>11

LEMMA RestFrameIs ==
  ASSUME NEW P, NEW at, NEW m, State(P, at, m), m \notin Closing,
         NEW n \in 0 .. depth - 1, NEW k \in 0 .. n, IsClosure(TopValue)
  PROVE  \E W : MakesFrame(RestFrame(n, k), P, at, n+1, W)
<1> DEFINE W == {Stack[i] : i \in 0 .. n}
           top == Stack[0]
           e == car[car[top]]
           l == Front(1, n-k, NIL)
           rest == Relinked(cdr, 1, n-k, NIL)
           d == [rest EXCEPT ![top] = e]
           R == Relinked(d, n-k+1, n, top)
<1>1. /\ depth \in Nat /\ depth > 0 /\ n \in Nat /\ Types /\ NIL \in Leaf
      /\ P \in SUBSET Cell /\ k \in Nat /\ n - k \in 0 .. n
      /\ 0 \in 0 .. n
      /\ \A i \in 1 .. n-k : i \in 0 .. n
      /\ \A i \in n-k+1 .. n : i \in 0 .. n
  BY StateFacts, OwnerFacts
<1>2. e \in P \cup Leaf
  <2>1. Stack[0] = reg["env"] /\ TopValue \in P \cup Leaf
    BY <1>1, StackIs, TopIs
  <2> QED
    BY <2>1, EnvironmentOfClosure DEF TopValue
<1> HIDE DEF e
<1>3. ASSUME NEW i \in 0 .. n
      PROVE  /\ Stack[i] \in {at[Running][j] : j \in 1 .. n+1}
             /\ Stack[i] \in Cell /\ car[Stack[i]] \in P \cup Leaf
  BY ArgumentsAre
<1>4. 1 \in Nat /\ n-k \in Int /\ n-k+1 \in Nat /\ n \in Int
  BY <1>1
<1>5. /\ \A c \in Cell : (\A i \in 1 .. n-k : Stack[i] # c) => rest[c] = cdr[c]
      /\ \A c \in Cell : (\E i \in 1 .. n-k : Stack[i] = c) =>
           rest[c] \in {NIL} \cup {Stack[i] : i \in 1 .. n-k}
      /\ rest = [c \in Cell |-> rest[c]]
  <2>1. IsRelinked(rest, cdr, 1, n-k, NIL)
    BY <1>4, RelinkedIs
  <2> QED
    BY <2>1 DEF IsRelinked
<1>6. /\ \A c \in Cell : (\A i \in n-k+1 .. n : Stack[i] # c) => R[c] = d[c]
      /\ \A c \in Cell : (\E i \in n-k+1 .. n : Stack[i] = c) =>
           R[c] \in {top} \cup {Stack[i] : i \in n-k+1 .. n}
      /\ R = [c \in Cell |-> R[c]]
  <2>1. IsRelinked(R, d, n-k+1, n, top)
    BY <1>4, RelinkedIs
  <2> QED
    BY <2>1 DEF IsRelinked
<1> HIDE DEF rest
<1>7. \A c \in Cell : d[c] = IF c = top THEN e ELSE rest[c]
  BY <1>5
<1> HIDE DEF R, d
<1>8. top \in W /\ top \in Cell
  BY <1>1, <1>3
<1>9. \A c \in W : c \in Cell /\ car[c] \in P \cup Leaf
  BY <1>3
<1>10. /\ \A c \in Cell : rest[c] \in W \cup Leaf \/ rest[c] = cdr[c]
       /\ \A c \in Cell \ W : rest[c] = cdr[c]
  BY <1>1, <1>5
<1>11. ASSUME NEW c \in W, \A i \in n-k+1 .. n : Stack[i] # c, c # top
       PROVE  \E i \in 1 .. n-k : Stack[i] = c
  <2>1. PICK i \in 0 .. n : Stack[i] = c
    BY <1>11
  <2>2. i # 0 /\ i \notin n-k+1 .. n
    BY <1>11, <2>1
  <2>3. i \in 1 .. n-k
    BY <1>1, <2>2
  <2> QED
    BY <2>1, <2>3
<1>12. ASSUME NEW c \in W PROVE R[c] \in P \cup W \cup Leaf
  <2>1. CASE \E i \in n-k+1 .. n : Stack[i] = c
    BY <1>1, <1>6, <1>8, <1>9, <2>1
  <2>2. CASE \A i \in n-k+1 .. n : Stack[i] # c
    <3>1. R[c] = d[c]
      BY <1>6, <1>9, <2>2
    <3>2. CASE c = top
      BY <1>2, <1>7, <1>9, <3>1, <3>2
    <3>3. CASE c # top
      <4>1. \E i \in 1 .. n-k : Stack[i] = c
        BY <1>11, <2>2, <3>3
      <4> QED
        BY <1>1, <1>5, <1>7, <1>9, <3>1, <3>3, <4>1
    <3> QED
      BY <3>2, <3>3
  <2> QED
    BY <2>1, <2>2
<1>13. \A c \in Cell \ W : R[c] = cdr[c]
  BY <1>1, <1>6, <1>7, <1>8, <1>10
<1>14. l \in W \cup Leaf
  <2>1. n-k < 1 \/ (n-k \in 1 .. n-k)
    BY <1>1
  <2> QED
    BY <1>1, <2>1 DEF Front
<1>15. Front(n-k+1, n, top) \in W
  <2>1. n < n-k+1 \/ (n \in 0 .. n)
    BY <1>1
  <2> QED
    BY <1>8, <2>1 DEF Front
<1>16. W \in SUBSET {at[Running][i] : i \in 1 .. n+1}
  BY <1>3
<1> HIDE DEF W, l, top
<1>17. cdr \in [Cell -> Value] /\ car \in [Cell -> Value]
  BY <1>1 DEF Types, HTypeOK
<1>18. R \in [Cell -> Value]
  BY <1>1, <1>6, <1>9, <1>12, <1>13, <1>17, OwnerFacts
<1> DEFINE a == [car EXCEPT ![top] = l]
<1>19. a \in [Cell -> Value] /\ \A c \in Cell : a[c] = IF c = top THEN l ELSE car[c]
  <2>1. l \in Value
    BY <1>1, <1>9, <1>14, OwnerFacts
  <2> QED
    BY <1>17, <2>1
<1>20. /\ RestFrame(n, k).car = a /\ RestFrame(n, k).cdr = R
       /\ RestFrame(n, k).env = Front(n-k+1, n, top)
  BY DEF RestFrame, R, d, rest, l, e, top
<1> HIDE DEF a
<1>21. /\ \A c \in W : a[c] \in P \cup W \cup Leaf
       /\ \A c \in Cell \ W : a[c] = car[c]
  BY <1>8, <1>9, <1>14, <1>19
<1>22. MakesFrame(RestFrame(n, k), P, at, n+1, W)
  BY <1>12, <1>13, <1>15, <1>16, <1>18, <1>19, <1>20, <1>21 DEF MakesFrame
<1> QED
  BY <1>22

LEMMA ClosureFramesAre ==
  ASSUME NEW P, NEW at, NEW m, State(P, at, m), m \notin Closing,
         NEW n \in 0 .. depth - 1, IsClosure(TopValue), NEW f \in ClosureFrames(n)
  PROVE  \E W : MakesFrame(f, P, at, n+1, W)
  BY FixedFrameIs, RestFrameIs DEF ClosureFrames

-----------------------------------------------------------------------------
(***************************************************************************)
(* A step is good if it keeps the types, leads to a state that fits, and   *)
(* is one that the contract allows.                                        *)
(***************************************************************************)
Fitted == \E P, at, m : Fits(P, at, m)
Good   == Types' /\ Fitted' /\ [HNext]_hvars

ValuesHeld ==
  \A P, at, m : P \in SUBSET Cell /\ at \in Places /\ depth \in Nat /\ Registers(P, at, m)
                  => \A r \in Register : reg[r] \in Value

LEMMA RegistersAreValues == ValuesHeld
<1> SUFFICES ASSUME NEW P, NEW at, NEW m, P \in SUBSET Cell, at \in Places, depth \in Nat,
                    Registers(P, at, m), NEW r \in Register
             PROVE  reg[r] \in Cell \cup Leaf
  BY OwnerFacts DEF ValuesHeld
<1>1. ASSUME NEW i \in Nat, NEW v, After(P, at, Running, i, v) PROVE v \in Cell \cup Leaf
  <2>1. i + 1 \in Nat
    OBVIOUS
  <2>2. at[Running][i+1] \in Cell
    BY <2>1, OwnerFacts, PlaceIsCell
  <2> QED
    BY <1>1, <2>2 DEF After
<1>2. CASE r \notin Tied(m)
  BY <1>2 DEF Registers
<1>3. CASE r \in Tied(m)
  <2>1. 0 \in Nat /\ 1 \in Nat
    OBVIOUS
  <2>2. reg["env"] \in Cell \cup Leaf
    BY <1>1, <2>1 DEF Registers
  <2>3. m \in Closing => reg["reg2"] \in Cell \cup Leaf
    BY <1>1, <2>1 DEF Registers
  <2>4. m = "push_clear" => reg["reg1"] \in Cell \cup Leaf
    <3>1. Temps(at) \subseteq Cell
      <4>1. \A i \in 1 .. depth : i \in Nat
        OBVIOUS
      <4> QED
        BY <4>1, OwnerFacts, PlaceIsCell DEF Temps
    <3> QED
      BY <3>1 DEF Registers
  <2>5. m = "save_cont" => reg["reg4"] \in Cell \cup Leaf
    BY <2>1, OwnerFacts, PlaceIsCell DEF Registers
  <2> QED
    BY <1>3, <2>2, <2>3, <2>4, <2>5 DEF Tied, Closing
<1> QED
  BY <1>2, <1>3

\* What an instruction leaves in the registers and in pend.
Leaves(P, at, m) ==
  /\ m \in Steps /\ (pend'.op # "stopped" => m = pend'.op)
  /\ pend'.op \in Steps /\ pend' = [op |-> pend'.op, v |-> pend'.v]
  /\ Registers(P, at, m)'
  /\ reg' = [r \in Register |-> reg'[r]]

LEMMA NextTypes ==
  ASSUME NEW P, NEW at, NEW m, P \in SUBSET Cell, at \in Places, Leaves(P, at, m),
         type' \in [Cell -> CellType],
         car' \in [Cell -> Value], cdr' \in [Cell -> Value],
         free_cells' \in Cell \cup {NIL}, stale' \subseteq Cell,
         depth' \in Nat, frame' \in [Cell -> Seq(Value)]
  PROVE  Types'
<1>1. \A r \in Register : reg'[r] \in Value
  <2>1. ValuesHeld'
    BY RegistersAreValues, PTL
  <2> QED
    BY <2>1 DEF Leaves, ValuesHeld
<1>2. reg' \in [Register -> Value]
  BY <1>1 DEF Leaves
<1>3. pend'.v \in Value
  BY OwnerFacts DEF Leaves, Registers
<1>4. pend' \in [op : Steps, v : Value]
  BY <1>3 DEF Leaves
<1> QED
  BY <1>2, <1>4 DEF Types, HTypeOK

\* Registers after a step that leads back to the plain ones.
LEMMA PlainRegisters ==
  ASSUME NEW P, NEW at, NEW m, m \notin Closing \cup {"push_clear", "save_cont"},
         m = "graft_enter" => depth' > 0,
         \A r \in Register \ {"env"} : reg'[r] \in P \cup Leaf,
         After(P, at, Running, 0, reg["env"])',
         pend'.v \in Leaf \cup {reg'["reg1"]}
  PROVE  Registers(P, at, m)'
<1>1. Tied(m) = {"env"}
  BY DEF Tied
<1>2. reg'["reg1"] \in P \cup Leaf
  BY DEF Register
<1>3. pend'.v \in P \cup Leaf
  BY <1>2
<1>4. PendingKept'
  BY DEF PendingKept
<1>5. \A r \in Register \ Tied(m) : reg'[r] \in P \cup Leaf
  BY <1>1
<1>6. m \notin Closing /\ m # "push_clear" /\ m # "save_cont"
  OBVIOUS
<1> QED
  BY <1>3, <1>4, <1>5, <1>6 DEF Registers

Shift(at, u) == [at EXCEPT ![Running] = [i \in Nat |-> at[Running][i+u]]]

LEMMA AfterShift ==
  ASSUME NEW P, NEW P2, P \subseteq P2, NEW at \in Places, NEW u \in Nat, NEW v,
         After(P, at, Running, u, v), depth \in Nat, depth' \in Nat, depth' = depth - u
  PROVE  After(P2, Shift(at, u), Running, 0, v)'
<1> DEFINE at2 == Shift(at, u)
<1>1. 0 + 1 \in Nat /\ (0 + 1) + u = u + 1
  OBVIOUS
<1>2. at2[Running][0 + 1] = at[Running][u + 1]
  <2>1. at2[Running] = [i \in Nat |-> at[Running][i+u]]
    BY OwnerFacts DEF Places, Shift
  <2> HIDE DEF at2
  <2> QED
    BY <1>1, <2>1
<1>3. Height(Running) = depth /\ Height(Running)' = depth'
  BY DEF Height
<1>4. (0 < depth') <=> (u < depth)
  OBVIOUS
<1> HIDE DEF at2
<1>5. After(P2, at2, Running, 0, v)'
  BY <1>2, <1>3, <1>4 DEF After
<1> QED
  BY <1>5 DEF at2

\* Everything that is live, or in a register, fits.
AllWithin ==
  Types => \A P, at, m : Fits(P, at, m) =>
             /\ Live \subseteq P \cup Own(P, at, m)
             /\ \A r \in Register : reg[r] \in Cell => reg[r] \in P \cup Own(P, at, m)

LEMMA AllIsWithin == AllWithin
  BY LiveWithin, RegistersWithin DEF AllWithin

\* What registers hold after a step was live before it, or is the new cell.
LEMMA NextRegisters ==
  ASSUME NEW P, NEW at, NEW m, Types', Fits(P, at, m)', NEW X, P \cup Own(P, at, m)' \subseteq X
  PROVE  reg' \in [Register -> X \cup Leaf]
<1>1. \A r \in Register : reg'[r] \in Cell => reg'[r] \in P \cup Own(P, at, m)'
  <2>1. AllWithin'
    BY AllIsWithin, PTL
  <2> QED
    BY <2>1 DEF AllWithin
<1>2. reg' \in [Register -> Value]
  BY DEF Types, HTypeOK
<1> QED
  BY <1>1, <1>2, OwnerFacts

LEMMA NextLive ==
  ASSUME NEW P, NEW at, NEW m, Types', Fits(P, at, m)'
  PROVE  Live' \subseteq P \cup Own(P, at, m)'
<1>1. AllWithin'
  BY AllIsWithin, PTL
<1> QED
  BY <1>1 DEF AllWithin

-----------------------------------------------------------------------------
(* The kinds of steps.  First, one that leaves the heap alone.             *)

LEMMA QuietStep ==
  ASSUME NEW P, NEW at, NEW m, State(P, at, m),
         NEW m2, (m2 = "save_cont") <=> (m = "save_cont"), Leaves(P, at, m2),
         UNCHANGED <<heap, depth, frame>>
  PROVE  Good
<1>1. /\ P \in SUBSET Cell /\ at \in Places /\ Types /\ Shape(P, at, m)
      /\ Live = P \cup Own(P, at, m)
  BY StateFacts DEF State
<1>2. /\ type' = type /\ car' = car /\ cdr' = cdr /\ free_cells' = free_cells
      /\ stale' = stale /\ depth' = depth /\ frame' = frame
  BY DEF heap
<1>3. \A c \in stale : type[c] = "CONTINUATION"
  BY <1>1 DEF Shape, PublicOK
<1>4. Shape(P, at, m2)' /\ Own(P, at, m2)' = Own(P, at, m)
  BY <1>2, <1>3, SameShape
<1>5. Types'
  BY <1>1, <1>2, NextTypes DEF Types, HTypeOK
<1>6. Fits(P, at, m2)'
  BY <1>1, <1>4 DEF Fits, Leaves
<1>7. P \cup Own(P, at, m2)' \subseteq Live
  BY <1>1, <1>4
<1>8. reg' \in [Register -> Live \cup Leaf]
  BY <1>5, <1>6, <1>7, NextRegisters
<1>9. HMutate
  <2>1. car \in [Cell -> Value] /\ cdr \in [Cell -> Value] /\ stale \subseteq Cell
    BY <1>1 DEF Types, HTypeOK
  <2>2. WritesLive(Live, NIL)
    BY <1>2, <2>1 DEF WritesLive
  <2> QED
    BY <1>2, <1>8, <2>1, <2>2 DEF HMutate
<1>10. Fitted'
  BY <1>6 DEF Fitted
<1> QED
  BY <1>5, <1>9, <1>10 DEF Good, HNext

\* The machine stops.
LEMMA FatalStep ==
  ASSUME NEW P, NEW at, NEW m, State(P, at, m), Fatal
  PROVE  Good
<1>1. /\ pend' = [op |-> "stopped", v |-> NIL]
      /\ reg' = reg /\ depth' = depth /\ UNCHANGED <<heap, depth, frame>>
  BY DEF Fatal, Then, hvars, heap
<1>2. Registers(P, at, m) /\ m \in Steps /\ Types
  BY StateFacts DEF State, Fits
<1>3. Registers(P, at, m)'
  <2>1. pend'.v \in Leaf /\ PendingKept'
    BY <1>1, OwnerFacts DEF PendingKept
  <2>2. Height(Running)' = Height(Running) /\ Temps(at)' = Temps(at)
    BY <1>1 DEF Height, Temps
  <2>3. \A i, v : After(P, at, Running, i, v) => After(P, at, Running, i, v)'
    BY <2>2 DEF After
  <2> QED
    BY <1>1, <1>2, <2>1, <2>2, <2>3 DEF Registers
<1>4. reg' = [r \in Register |-> reg'[r]]
  BY <1>1, <1>2 DEF Types, HTypeOK
<1>5. "stopped" \in Steps
  BY DEF Steps
<1>6. Leaves(P, at, m)
  BY <1>1, <1>2, <1>3, <1>4, <1>5 DEF Leaves
<1> QED
  BY <1>1, <1>6, QuietStep

(***************************************************************************)
(* pop(): nothing leads to the cell that goes back to the free list, for   *)
(* what is live after the step is public or has an owner (NextLive), and   *)
(* that cell is neither.                                                   *)
(***************************************************************************)
StoresPublic(P, a, b) ==
  /\ a \in [Cell -> Value]
  /\ \A c \in Cell : a[c] = b[c] \/ (c \in P /\ type[c] = "CONS" /\ a[c] \in P \cup Leaf)

LEMMA ReleaseStep ==
  ASSUME NEW P, NEW at, NEW m, State(P, at, m), m \notin Closing, depth > 0,
         NEW d, ReturnToFreeList(reg["env"], d),
         StoresPublic(P, car', car), StoresPublic(P, d, cdr),
         stale \subseteq stale', stale' \subseteq Cell,
         NEW at2, NEW m2, Fits(P, at2, m2)', Types',
         Own(P, at2, m2)' \subseteq Own(P, at, m), reg["env"] \notin Own(P, at2, m2)'
  PROVE  HRelease
<1> DEFINE f == reg["env"]
<1>1. /\ P \in SUBSET Cell /\ Types /\ Live = P \cup Own(P, at, m)
  BY StateFacts DEF State
<1>2. /\ f \in Reserved .. N-1 /\ f \in Cell /\ f \notin P /\ type[f] = "CONS"
  BY TopIs, TemporaryIs
<1>3. type' = [type EXCEPT ![f] = "CONS"] /\ cdr' = [d EXCEPT ![f] = free_cells] /\ free_cells' = f
  BY DEF ReturnToFreeList
<1>4. f \notin Live'
  BY <1>2, NextLive
<1>5. reg' \in [Register -> Live \cup Leaf]
  <2>1. P \cup Own(P, at2, m2)' \subseteq Live
    BY <1>1
  <2> QED
    BY <2>1, NextRegisters
<1>6. /\ car'[f] = car[f] /\ cdr'[f] = free_cells
      /\ \A c \in Cell \ {f} : cdr'[c] = d[c]
  BY <1>2, <1>3 DEF StoresPublic
<1>7. WritesLive(Live, f)
  <2>1. car' \in [Cell -> Value] /\ cdr' \in [Cell -> Value]
    BY DEF Types, HTypeOK
  <2> QED
    BY <1>1, <1>6, <2>1 DEF WritesLive, StoresPublic
<1> HIDE DEF f
<1> QED
  BY <1>2, <1>3, <1>4, <1>5, <1>6, <1>7 DEF HRelease, f

Popped(m) == IF m = "stopped" THEN "fetch" ELSE m

LEMMA PopStep ==
  ASSUME NEW P, NEW at, NEW m, State(P, at, m), m \notin Closing, m # "save_cont", depth > 0,
         NEW d, ReturnToFreeList(reg["env"], d),
         StoresPublic(P, car', car), StoresPublic(P, d, cdr),
         depth' = depth - 1, stale' = stale, frame' = frame,
         reg' = [r \in Register |-> reg'[r]], reg'["env"] = PoppedEnv,
         \A r \in Register \ {"env"} : reg'[r] \in P \cup Leaf,
         NEW o \in {"fetch", "push", "pop", "cons", "graft", "stopped"},
         NEW w \in Leaf \cup {reg'["reg1"]}, pend' = [op |-> o, v |-> w]
  PROVE  Good
<1> DEFINE at2 == Shift(at, 1)
           m2 == Popped(o)
           f == reg["env"]
<1>1. /\ P \in SUBSET Cell /\ at \in Places /\ Types /\ depth \in Nat
      /\ 1 \in Nat /\ 1 \in 0 .. depth /\ depth' \in Nat
  BY StateFacts
<1>2. /\ f = at[Running][1] /\ After(P, at, Running, 1, PoppedEnv)
      /\ f \in Cell /\ f \notin P /\ type[f] = "CONS"
  BY TopIs, TemporaryIs
<1>3. /\ type' = [type EXCEPT ![f] = "CONS"] /\ cdr' = [d EXCEPT ![f] = free_cells]
      /\ free_cells' = f
  BY DEF ReturnToFreeList
<1>4. type' = type
  BY <1>1, <1>2, <1>3 DEF Types, HTypeOK
<1>5. /\ cdr' \in [Cell -> Value] /\ \A c \in Cell \ {f} : cdr'[c] = d[c]
  <2>1. free_cells \in Value
    BY <1>1, OwnerFacts DEF Types, HTypeOK
  <2> QED
    BY <1>2, <1>3, <2>1 DEF StoresPublic
<1>6. m2 \in Steps /\ m2 \notin Closing \cup {"push_clear", "save_cont", "graft_enter"}
      /\ (o # "stopped" => m2 = o) /\ o \in Steps
  BY DEF Steps, Allocations, Popped, Closing
<1> HIDE DEF m2
<1>7. {at[Running][i] : i \in 1 .. 1} = {f}
  <2>1. \A i \in 1 .. 1 : i = 1
    OBVIOUS
  <2>2. 1 \in 1 .. 1
    OBVIOUS
  <2> QED
    BY <1>2, <2>1, <2>2
<1>8. Writes(P, 1, {}, P, at, at2)
  <2>1. P = P \cup {} /\ {} \in SUBSET {at[Running][i] : i \in 1 .. 1}
    OBVIOUS
  <2>2. at2 = [at EXCEPT ![Running] = [i \in Nat |-> at[Running][i+1]]]
    BY DEF Shift
  <2>3. \A c \in Cell \ {f} :
          /\ car'[c] = car[c] \/ (c \in P /\ type[c] = "CONS" /\ car'[c] \in P \cup Leaf)
          /\ cdr'[c] = cdr[c] \/ (c \in P /\ type[c] = "CONS" /\ cdr'[c] \in P \cup Leaf)
    BY <1>5 DEF StoresPublic
  <2> HIDE DEF at2
  <2> QED
    BY <1>1, <1>4, <1>7, <2>1, <2>2, <2>3 DEF Writes
<1>9. /\ Shape(P, at2, m2)' /\ at2 \in Places
      /\ Own(P, at2, m2)' \subseteq Own(P, at, m)
      /\ \A i \in 1 .. 1 : at[Running][i] \notin Own(P, at2, m2)'
  <2> HIDE DEF at2
  <2> QED
    BY <1>6, <1>8, WritesShape
<1>10. f \notin Own(P, at2, m2)'
  BY <1>2, <1>9
<1>11. After(P, at2, Running, 0, reg["env"])'
  <2>1. PICK e : e = PoppedEnv
    OBVIOUS
  <2>2. After(P, at2, Running, 0, e)'
    BY <1>1, <1>2, <2>1, AfterShift
  <2> QED
    BY <2>1, <2>2 DEF After
<1> HIDE DEF at2, f
<1>12. Registers(P, at2, m2)'
  BY <1>6, <1>11, PlainRegisters
<1>13. Leaves(P, at2, m2)
  BY <1>6, <1>12 DEF Leaves
<1>14. Types'
  <2>1. /\ type' \in [Cell -> CellType] /\ stale' \subseteq Cell
        /\ frame' \in [Cell -> Seq(Value)]
    BY <1>1, <1>4 DEF Types, HTypeOK
  <2>2. car' \in [Cell -> Value] /\ free_cells' \in Cell \cup {NIL}
    BY <1>2, <1>3 DEF StoresPublic
  <2> QED
    BY <1>1, <1>5, <1>9, <1>13, <2>1, <2>2, NextTypes
<1>15. Fits(P, at2, m2)'
  BY <1>1, <1>6, <1>9, <1>12 DEF Fits
<1>16. stale \subseteq stale' /\ stale' \subseteq Cell
  BY <1>1 DEF Types, HTypeOK
<1>17. HRelease
  BY <1>9, <1>10, <1>14, <1>15, <1>16, ReleaseStep DEF f
<1>18. Fitted'
  BY <1>15 DEF Fitted
<1> QED
  BY <1>14, <1>17, <1>18 DEF Good, HNext

\* A continuation is resumed: return, return-to-cont.
LEMMA ResumeStep ==
  ASSUME OneShot, NEW P, NEW at, NEW m, State(P, at, m), m \notin Closing,
         m \notin {"save_cont", "push_clear"}, depth > 0, ReturnToFreeList(reg["env"], cdr),
         NEW k \in P \cup Leaf, IsContinuation(k), NEW r \in P \cup Leaf, Resume(k, r),
         car' = car, frame' = frame
  PROVE  Good
<1> DEFINE at2 == [at EXCEPT ![Running] = at[k]]
           m2 == "push"
<1>0. PICK f : f = reg["env"]
  OBVIOUS
<1>1. /\ P \in SUBSET Cell /\ at \in Places /\ Types /\ depth \in Nat
      /\ Shape(P, at, m) /\ Registers(P, at, m)
  BY StateFacts
<1>2. /\ f = at[Running][1] /\ f \in Cell /\ f \notin P /\ type[f] = "CONS"
  BY <1>0, TopIs, TemporaryIs
<1>3. /\ k \in Cell /\ k \in P /\ type[k] = "CONTINUATION" /\ k \notin stale
      /\ stale' = stale \cup {k} /\ depth' = Len(frame[k])
      /\ pend' = [op |-> "push", v |-> r]
      /\ reg' = RegsWith([env |-> car[cdr[k]], cont |-> car[k], reg1 |-> r, reg2 |-> NIL])
  BY OwnerFacts DEF IsContinuation, Resume, ThenWith
<1>4. k \in Frames(P) /\ k \in Owner /\ k # Running
  BY <1>3, OwnerFacts DEF Frames
<1>5. car[k] \in P \cup Leaf
  BY <1>1, <1>3 DEF Shape, PublicOK, HasLeftLink
<1>6. After(P, at, k, 0, car[cdr[k]])
  <2>1. Slot(P, m, k, 0)
    BY <1>1, <1>3, <1>4, HeightIs DEF Slot
  <2>2. ClosureOK(P, at, k) /\ PutAside(at, k)
    BY <1>1, <1>4, <2>1 DEF Shape
  <2> QED
    BY <2>2 DEF ClosureOK, PutAside
<1>7. /\ type' = [type EXCEPT ![f] = "CONS"] /\ cdr' = [cdr EXCEPT ![f] = free_cells]
      /\ free_cells' = f
  BY <1>0 DEF ReturnToFreeList
<1>8. type' = type
  BY <1>1, <1>2, <1>7 DEF Types, HTypeOK
<1>9. cdr' \in [Cell -> Value]
  <2>1. free_cells \in Value
    BY <1>1, OwnerFacts DEF Types, HTypeOK
  <2> QED
    BY <1>1, <1>2, <1>7, <2>1 DEF Types, HTypeOK
<1>10. /\ Shape(P, at2, m2)' /\ at2 \in Places
       /\ Own(P, at2, m2)' \subseteq Own(P, at, m) /\ f \notin Own(P, at2, m2)'
       /\ Height(Running)' = Height(k) /\ at2[Running] = at[k]
  <2>1. at2 = [at EXCEPT ![Running] = at[k]]
    OBVIOUS
  <2>2. m # "save_cont" /\ m2 # "save_cont"
    OBVIOUS
  <2> HIDE DEF at2, m2
  <2> QED
    <3>1. Resumes(P, at, k, f, at2)
      BY <1>2, <1>3, <1>4, <1>7, <1>8, <2>1 DEF Resumes
    <3>2. Shape(P, at2, m2)'
      BY <2>2, <3>1, ResumedShape
    <3>3. at2 \in Places
      BY <2>2, <3>1, ResumedShape
    <3>4. Own(P, at2, m2)' \subseteq Own(P, at, m)
      BY <2>2, <3>1, ResumedShape
    <3>5. f \notin Own(P, at2, m2)'
      BY <2>2, <3>1, ResumedShape
    <3>6. Height(Running)' = Height(k)
      BY <1>3, <1>4 DEF Height
    <3>7. at2[Running] = at[k]
      BY <1>1, <2>1, OwnerFacts DEF Places
    <3> QED
      BY <3>2, <3>3, <3>4, <3>5, <3>6, <3>7
<1> HIDE DEF at2
<1>11. /\ reg'["env"] = car[cdr[k]] /\ reg'["reg1"] = r
       /\ \A x \in Register \ {"env"} : reg'[x] \in P \cup Leaf
       /\ reg' = [x \in Register |-> reg'[x]]
  <2>1. \A x \in Register \ {"env"} : x \notin {"cont", "reg1", "reg2"} => reg[x] \in P \cup Leaf
    BY <1>1 DEF Registers, Tied
  <2> QED
    BY <1>3, <1>5, <2>1, OwnerFacts DEF RegsWith, Register
<1>12. After(P, at2, Running, 0, reg["env"])'
  <2>1. After(P, at2, Running, 0, car[cdr[k]])
         <=> IF 0 < Height(Running) THEN car[cdr[k]] = at2[Running][0+1] ELSE car[cdr[k]] \in P \cup Leaf
    BY DEF After
  <2>2. IF 0 < Height(k) THEN car[cdr[k]] = at[k][0+1] ELSE car[cdr[k]] \in P \cup Leaf
    BY <1>6 DEF After
  <2>3. IF 0 < Height(Running)' THEN reg'["env"] = at2[Running][0+1] ELSE reg'["env"] \in P \cup Leaf
    BY <1>10, <1>11, <2>2
  <2> QED
    BY <2>3 DEF After
<1>13. /\ m2 \in Steps /\ m2 \notin Closing \cup {"push_clear", "save_cont", "graft_enter"}
       /\ pend'.op = m2
  BY <1>3 DEF Steps, Allocations, Closing
<1> HIDE DEF m2
<1>14. Registers(P, at2, m2)'
  BY <1>3, <1>11, <1>12, <1>13, PlainRegisters
<1>15. Leaves(P, at2, m2)
  BY <1>3, <1>11, <1>13, <1>14 DEF Leaves
<1>16. Types'
  <2>1. /\ type' \in [Cell -> CellType] /\ stale' \subseteq Cell
        /\ frame' \in [Cell -> Seq(Value)] /\ car' \in [Cell -> Value]
        /\ depth' \in Nat
    BY <1>1, <1>3, <1>8 DEF Types, HTypeOK
  <2>2. free_cells' \in Cell \cup {NIL}
    BY <1>2, <1>7
  <2> QED
    BY <1>1, <1>9, <1>10, <1>15, <2>1, <2>2, NextTypes
<1>17. Fits(P, at2, m2)'
  BY <1>1, <1>3, <1>10, <1>13, <1>14 DEF Fits
<1>18. HRelease
  <2>1. StoresPublic(P, car', car) /\ StoresPublic(P, cdr, cdr)
    BY <1>1 DEF Types, HTypeOK, StoresPublic
  <2>2. stale \subseteq stale' /\ stale' \subseteq Cell
    BY <1>1, <1>3 DEF Types, HTypeOK
  <2> QED
    BY <1>0, <1>10, <1>16, <1>17, <2>1, <2>2, ReleaseStep
<1>19. Fitted'
  BY <1>17 DEF Fitted
<1> QED
  BY <1>16, <1>18, <1>19 DEF Good, HNext

(***************************************************************************)
(* An allocation.                                                          *)
(***************************************************************************)
LEMMA AllocateStep ==
  ASSUME NEW P, NEW at, NEW m, State(P, at, m),
         NEW t \in CellType, NEW a \in Live \cup Leaf, NEW d \in Live \cup Leaf, NewCell(t, a, d),
         NEW p, p = free_cells,
         NEW P2, NEW at2, NEW m2, P2 \in SUBSET Cell, at2 \in Places,
         Leaves(P2, at2, m2), Shape(P2, at2, m2)',
         P2 \subseteq P \cup {p}, Own(P2, at2, m2)' \subseteq Own(P, at, m) \cup {p},
         depth' \in Nat, frame' \in [Cell -> Seq(Value)]
  PROVE  Good
<1>1. Types /\ Live = P \cup Own(P, at, m) /\ Live \subseteq Cell
  BY StateFacts, LiveClosed DEF State
<1>2. p \in Cell /\ type'[p] = t /\ car'[p] = a /\ cdr'[p] = d
  BY FreshCell
<1>3. /\ type' = [type EXCEPT ![p] = t] /\ car' = [car EXCEPT ![p] = a]
      /\ cdr' = [cdr EXCEPT ![p] = d] /\ free_cells' = cdr[p] /\ stale' = stale \ {p}
  BY DEF NewCell
<1>4. a \in Value /\ d \in Value
  BY <1>1, OwnerFacts
<1>5. /\ type' \in [Cell -> CellType] /\ car' \in [Cell -> Value] /\ cdr' \in [Cell -> Value]
      /\ stale' \subseteq Cell
  BY <1>1, <1>3, <1>4 DEF Types, HTypeOK
<1>6. free_cells' \in Cell \cup {NIL}
  <2>1. IsFreeList(free_cells, cdr) /\ p \in OnFreeList
    BY <1>2, OnFreeListClosed DEF State, HInv
  <2> QED
    BY <1>2, <1>3, <2>1, OnFreeListIs DEF IsFreeList
<1>7. Types'
  BY <1>5, <1>6, NextTypes
<1>8. Fits(P2, at2, m2)'
  BY DEF Fits, Leaves
<1>9. reg' \in [Register -> Live \cup {p} \cup Leaf]
  <2>1. P2 \cup Own(P2, at2, m2)' \subseteq Live \cup {p}
    BY <1>1
  <2> QED
    BY <1>7, <1>8, <2>1, NextRegisters
<1>10. HNew
  <2>1. NewCell(type'[p], car'[p], cdr'[p])
    BY <1>2
  <2>2. reg' \in [Register -> LiveValue \cup {p}]
    <3>1. Live \cup {p} \cup Leaf = LiveValue \cup {p}
      BY DEF LiveValue
    <3> QED
      BY <1>9, <3>1
  <2>3. car'[p] \in LiveValue /\ cdr'[p] \in LiveValue
    BY <1>2 DEF LiveValue
  <2> QED
    BY <1>5, <2>1, <2>2, <2>3 DEF HNew
<1>11. Fitted'
  BY <1>8 DEF Fitted
<1> QED
  BY <1>7, <1>10, <1>11 DEF Good, HNext

\* env = new_pair(v, env).
LEMMA PushStep ==
  ASSUME NEW P, NEW at, NEW m, State(P, at, m), m \notin Closing, m # "save_cont",
         NEW v \in P \cup Leaf, NewCell("CONS", v, reg["env"]),
         reg' = [r \in Register |-> reg'[r]], reg'["env"] = free_cells,
         \A r \in Register \ {"env"} : reg'[r] \in P \cup Leaf,
         depth' = depth + 1, frame' = frame,
         NEW o \in {"fetch", "graft_enter"}, pend' = [op |-> o, v |-> NIL]
  PROVE  Good
<1>1. /\ P \in SUBSET Cell /\ at \in Places /\ Types /\ depth \in Nat /\ depth' > 0
      /\ Registers(P, at, m) /\ P \subseteq Live /\ depth' \in Nat
  BY StateFacts
<1>2. PICK p, w, at2 : p = free_cells /\ w = reg["env"] /\ at2 = Pushed(at, p)
  OBVIOUS
<1>3. NewCell("CONS", v, w) /\ After(P, at, Running, 0, w)
  BY <1>1, <1>2 DEF Registers
<1>4. /\ o \in Steps /\ o \notin Closing \cup {"push_clear", "save_cont"}
  BY DEF Steps, Allocations, Closing
<1>5. /\ Shape(P, at2, o)' /\ at2 \in Places
      /\ Own(P, at2, o)' \subseteq Own(P, at, m) \cup {p}
  BY <1>2, <1>3, <1>4, PushShape
<1>6. After(P, at2, Running, 0, reg["env"])'
  <2>1. 0 + 1 \in Nat /\ 0 + 1 <= 1
    OBVIOUS
  <2>2. at2[Running][0+1] = p
    BY <1>1, <1>2, <2>1, OwnerFacts DEF Places, Pushed
  <2>3. 0 < Height(Running)'
    BY <1>1 DEF Height
  <2> QED
    BY <1>2, <2>2, <2>3 DEF After
<1>7. pend'.op = o /\ pend'.v \in Leaf
  BY OwnerFacts
<1>8. Registers(P, at2, o)'
  BY <1>1, <1>4, <1>6, <1>7, PlainRegisters
<1>9. Leaves(P, at2, o)
  BY <1>4, <1>7, <1>8 DEF Leaves
<1>10. v \in Live \cup Leaf /\ w \in Live \cup Leaf
  BY <1>1, <1>2, RegistersLive DEF Register
<1>11. "CONS" \in CellType /\ frame' \in [Cell -> Seq(Value)] /\ P \subseteq P \cup {p}
  BY <1>1 DEF Types, CellType
<1> QED
  BY <1>1, <1>2, <1>3, <1>5, <1>9, <1>10, <1>11, AllocateStep

\* A new pair or closure, which reg1 holds.
LEMMA NewStep ==
  ASSUME NEW P, NEW at, NEW m, State(P, at, m), m # "save_cont", NEW m2, m2 # "save_cont",
         NEW t \in {"CONS", "CLOSURE"}, NEW a \in P \cup Leaf, NEW d \in P \cup Leaf,
         NewCell(t, a, d), depth' = depth, frame' = frame,
         NEW p, p = free_cells, NEW P2, P2 = P \cup {p}, Leaves(P2, at, m2)
  PROVE  Good
<1>1. /\ P \in SUBSET Cell /\ at \in Places /\ Types /\ P \subseteq Live /\ depth' \in Nat
  BY StateFacts
<1>2. /\ Shape(P2, at, m2)' /\ P2 \in SUBSET Cell
      /\ Own(P2, at, m2)' \subseteq Own(P, at, m)
  <2>1. t = "CONS" => d \in P \cup Leaf
    OBVIOUS
  <2>2. Shape(P2, at, m2)'
    BY <2>1, PublicShape
  <2>3. P2 \in SUBSET Cell
    BY <1>1, FreshCell
  <2>4. Own(P2, at, m2)' \subseteq Own(P, at, m)
    BY <2>1, PublicShape
  <2> QED
    BY <2>2, <2>3, <2>4
<1>3. Own(P2, at, m2)' \subseteq Own(P, at, m) \cup {p} /\ P2 \subseteq P \cup {p}
  BY <1>2
<1>4. a \in Live \cup Leaf /\ d \in Live \cup Leaf
  BY <1>1
<1>5. t \in CellType /\ frame' \in [Cell -> Seq(Value)]
  BY <1>1 DEF Types, CellType
<1> QED
  BY <1>1, <1>2, <1>3, <1>4, <1>5, AllocateStep

\* reg1 = new_pair(reg1, reg2).
LEMMA NewPairStep ==
  ASSUME NEW P, NEW at, NEW m, State(P, at, m), m = "cons", NewPair
  PROVE  Good
<1> DEFINE m2 == "push"
<1>1. /\ P \in SUBSET Cell /\ at \in Places /\ Types /\ Registers(P, at, m) /\ depth \in Nat
  BY StateFacts
<1>2. PICK p, a, d : p = free_cells /\ a = reg["reg1"] /\ d = reg["reg2"]
  OBVIOUS
<1>3. /\ NewCell("CONS", a, d) /\ depth' = depth /\ frame' = frame
      /\ pend' = [op |-> "push", v |-> p]
      /\ reg' = RegsWith([reg1 |-> p, reg2 |-> NIL])
  BY <1>2 DEF NewPair, ThenWith
<1>4. \A r \in Register \ {"env"} : reg[r] \in P \cup Leaf
  BY <1>1 DEF Registers, Tied, Closing
<1>5. a \in P \cup Leaf /\ d \in P \cup Leaf
  BY <1>2, <1>4 DEF Register
<1> DEFINE P2 == P \cup {p}
<1>6. /\ reg'["env"] = reg["env"] /\ reg'["reg1"] = p
      /\ \A r \in Register \ {"env"} : reg'[r] \in P2 \cup Leaf
      /\ reg' = [r \in Register |-> reg'[r]]
  BY <1>3, <1>4, OwnerFacts DEF RegsWith, Register
<1>7. m \notin Closing /\ m2 \in Steps /\ m2 \notin Closing \cup {"push_clear", "save_cont", "graft_enter"}
      /\ pend'.op = m2 /\ pend'.v = p /\ m # "save_cont" /\ m2 # "save_cont"
  BY <1>3 DEF Steps, Allocations, Closing
<1> HIDE DEF m2
<1>8. After(P2, at, Running, 0, reg["env"])'
  <2>1. After(P, at, Running, 0, reg["env"])
    BY <1>1, <1>7 DEF Registers
  <2> QED
    BY <1>3, <1>6, <2>1 DEF After, Height
<1>9. P2 = P \cup {p}
  OBVIOUS
<1> HIDE DEF P2
<1>10. Registers(P2, at, m2)'
  BY <1>6, <1>7, <1>8, PlainRegisters
<1>11. Leaves(P2, at, m2)
  <2>1. pend' = [op |-> pend'.op, v |-> pend'.v]
    BY <1>3
  <2> QED
    BY <1>6, <1>7, <1>10, <2>1 DEF Leaves
<1> QED
  BY <1>2, <1>3, <1>5, <1>7, <1>9, <1>11, NewStep

\* CLOS: reg1 = new_closure(reg3, entry).
LEMMA NewClosureStep ==
  ASSUME NEW P, NEW at, NEW m, State(P, at, m), m = "closure", NewClosure
  PROVE  Good
<1> DEFINE m2 == "store_closure"
<1>1. /\ P \in SUBSET Cell /\ at \in Places /\ Types /\ Registers(P, at, m) /\ depth \in Nat
  BY StateFacts
<1>2. PICK p, a : p = free_cells /\ a = reg["reg3"]
  OBVIOUS
<1>3. /\ NewCell("CLOSURE", a, Code) /\ depth' = depth /\ frame' = frame
      /\ pend' = [op |-> "store_closure", v |-> NIL]
      /\ reg' = RegsWith([reg1 |-> p])
  BY <1>2 DEF NewClosure, Then
<1>4. \A r \in Register \ {"env", "reg2"} : reg[r] \in P \cup Leaf
  BY <1>1 DEF Registers, Tied, Closing
<1>5. a \in P \cup Leaf /\ Code \in P \cup Leaf
  BY <1>2, <1>4, CodeAssumption DEF Register
<1> DEFINE P2 == P \cup {p}
<1>6. /\ reg'["env"] = reg["env"] /\ reg'["reg1"] = p /\ reg'["reg2"] = reg["reg2"]
      /\ \A r \in Register \ {"env", "reg2"} : reg'[r] \in P2 \cup Leaf
      /\ reg' = [r \in Register |-> reg'[r]]
  BY <1>3, <1>4, OwnerFacts DEF RegsWith, Register
<1>7. /\ m \in Closing /\ m2 \in Steps /\ m2 \in Closing /\ m2 # "push_clear" /\ m2 # "save_cont"
      /\ pend'.op = m2 /\ pend'.v \in Leaf /\ m # "save_cont" /\ Tied(m2) = {"env", "reg2"}
  BY <1>3, OwnerFacts DEF Steps, Allocations, Closing, Tied
<1>8. P2 = P \cup {p} /\ P \subseteq P2
  OBVIOUS
<1> HIDE DEF m2, P2
<1>9. depth > 0 /\ After(P, at, Running, 0, reg["reg2"]) /\ After(P, at, Running, 1, reg["env"])
  BY <1>1, <1>7 DEF Registers
<1>10. After(P2, at, Running, 0, reg["reg2"])' /\ After(P2, at, Running, 1, reg["env"])'
  BY <1>3, <1>6, <1>8, <1>9 DEF After, Height
<1>11. Registers(P2, at, m2)'
  <2>1. PendingKept'
    BY <1>7 DEF PendingKept
  <2>2. \A r \in Register \ Tied(m2) : reg'[r] \in P2 \cup Leaf
    BY <1>6, <1>7
  <2> QED
    BY <1>3, <1>7, <1>9, <1>10, <2>1, <2>2 DEF Registers
<1>12. Leaves(P2, at, m2)
  <2>1. pend' = [op |-> pend'.op, v |-> pend'.v]
    BY <1>3
  <2> QED
    BY <1>6, <1>7, <1>11, <2>1 DEF Leaves
<1> QED
  BY <1>2, <1>3, <1>5, <1>7, <1>8, <1>12, NewStep

\* save_cont, first allocation.
LEMMA SaveClosureStep ==
  ASSUME NEW P, NEW at, NEW m, State(P, at, m), m = "save_closure", SaveClosure
  PROVE  Good
<1>1. /\ P \in SUBSET Cell /\ at \in Places /\ Types /\ Registers(P, at, m) /\ depth \in Nat
      /\ P \subseteq Live
  BY StateFacts
<1>2. PICK p, e, at2, m2 : /\ p = free_cells /\ e = reg["env"] /\ m2 = "save_cont"
                           /\ at2 = Saving(at, p)
  OBVIOUS
<1>3. /\ NewCell("CLOSURE", e, Code) /\ depth' = depth /\ frame' = frame
      /\ pend' = [op |-> "save_cont", v |-> NIL]
      /\ reg' = RegsWith([reg4 |-> p])
  BY <1>2 DEF SaveClosure, Then
<1>4. /\ \A r \in Register \ {"env"} : reg[r] \in P \cup Leaf
      /\ After(P, at, Running, 0, e)
  BY <1>1, <1>2 DEF Registers, Tied, Closing
<1>5. /\ Shape(P, at2, m2)' /\ at2 \in Places /\ at2[Running][0] = p
      /\ Own(P, at2, m2)' \subseteq Own(P, at, m) \cup {p}
      /\ depth > 0 => at2[Running][0 + 1] = at[Running][0 + 1]
  <2>1. m # "save_cont"
    OBVIOUS
  <2> QED
    BY <1>2, <1>3, <1>4, <2>1, SavingShape
<1>6. /\ reg'["env"] = e /\ reg'["reg4"] = p
      /\ \A r \in Register \ {"env", "reg4"} : reg'[r] \in P \cup Leaf
      /\ reg' = [r \in Register |-> reg'[r]]
  BY <1>2, <1>3, <1>4, OwnerFacts DEF RegsWith, Register
<1>7. /\ m2 \in Steps /\ m2 \notin Closing /\ m2 # "push_clear" /\ m2 # "graft_enter"
      /\ pend'.op = m2 /\ pend'.v \in Leaf /\ Tied(m2) = {"env", "reg4"}
  BY <1>2, <1>3, OwnerFacts DEF Steps, Allocations, Closing, Tied
<1>8. After(P, at2, Running, 0, reg["env"])'
  BY <1>1, <1>3, <1>4, <1>5, <1>6 DEF After, Height
<1>9. Registers(P, at2, m2)'
  <2>1. PendingKept'
    BY <1>7 DEF PendingKept
  <2>2. \A r \in Register \ Tied(m2) : reg'[r] \in P \cup Leaf
    BY <1>6, <1>7
  <2>3. reg'["reg4"] = at2[Running][0]
    BY <1>5, <1>6
  <2> QED
    BY <1>7, <1>8, <2>1, <2>2, <2>3 DEF Registers
<1>10. Leaves(P, at2, m2)
  <2>1. pend' = [op |-> pend'.op, v |-> pend'.v]
    BY <1>3
  <2> QED
    BY <1>6, <1>7, <1>9, <2>1 DEF Leaves
<1>11. e \in Live \cup Leaf /\ Code \in Live \cup Leaf
  BY <1>1, <1>2, RegistersLive, CodeAssumption DEF Register
<1>12. /\ "CLOSURE" \in CellType /\ frame' \in [Cell -> Seq(Value)] /\ P \subseteq P \cup {p}
       /\ depth' \in Nat
  BY <1>1, <1>3 DEF Types, CellType
<1>13. NewCell("CLOSURE", e, Code) /\ p = free_cells
  BY <1>2, <1>3
<1> QED
  BY <1>1, <1>5, <1>10, <1>11, <1>12, <1>13, AllocateStep

\* save_cont, second allocation.
LEMMA SaveContStep ==
  ASSUME NEW P, NEW at, NEW m, State(P, at, m), m = "save_cont", SaveCont
  PROVE  Good
<1>1. /\ P \in SUBSET Cell /\ at \in Places /\ Types /\ Registers(P, at, m) /\ depth \in Nat
      /\ P \subseteq Live /\ Height(Running) = depth
  BY StateFacts
<1>2. PICK p, a, d, e, r1, f, at2, P2, m2 :
        /\ p = free_cells /\ a = reg["cont"] /\ d = reg["reg4"] /\ e = reg["env"]
        /\ r1 = reg["reg1"] /\ f = Values(e, depth) /\ m2 = "fetch"
        /\ at2 = Saved(at, p) /\ P2 = P \cup {p}
  OBVIOUS
<1>3. /\ NewCell("CONTINUATION", a, d) /\ depth' = 0 /\ frame' = [frame EXCEPT ![p] = f]
      /\ pend' = [op |-> "fetch", v |-> NIL]
      /\ reg' = RegsWith([cont |-> p, reg4 |-> NIL, env |-> r1, reg1 |-> NIL, reg2 |-> NIL])
  BY <1>2 DEF SaveCont, Then
<1>4. /\ \A r \in Register \ {"env", "reg4"} : reg[r] \in P \cup Leaf
      /\ After(P, at, Running, 0, e) /\ d = at[Running][0]
  BY <1>1, <1>2 DEF Registers, Tied, Closing
<1>5. a \in P \cup Leaf /\ r1 \in P \cup Leaf
  BY <1>2, <1>4 DEF Register
<1>6. /\ f \in Seq(Value) /\ Len(f) = depth
      /\ \A i \in 1 .. depth : f[i] = car[at[Running][i]]
  <2>1. Running \in Frames(P) \cup {Running} /\ depth \in 0 .. Height(Running)
    BY <1>1
  <2>2. /\ f = [i \in 1 .. depth |-> car[at[Running][i]]]
        /\ f \in Seq(Value) /\ Len(f) = depth
    BY <1>2, <1>4, <2>1, ValuesOfFrame
  <2> QED
    BY <2>2
<1>7. m2 # "save_cont" /\ NewCell("CONTINUATION", a, at[Running][0])
  BY <1>2, <1>3, <1>4
<1>8. /\ Shape(P2, at2, m2)' /\ at2 \in Places
      /\ Own(P2, at2, m2)' \subseteq Own(P, at, m)
  <2>1. Saves(P, at, a, p, f, P2, at2)
    BY <1>2, <1>3, <1>6, <1>7 DEF Saves
  <2>2. Shape(P2, at2, m2)'
    BY <1>5, <1>7, <2>1, SavedShape
  <2>3. at2 \in Places
    BY <1>5, <1>7, <2>1, SavedShape
  <2>4. Own(P2, at2, m2)' \subseteq Own(P, at, m)
    BY <1>5, <1>7, <2>1, SavedShape
  <2> QED
    BY <2>2, <2>3, <2>4
<1>9. P2 \in SUBSET Cell /\ p \in Cell
  BY <1>1, <1>2, <1>3, FreshCell
<1>10. /\ reg'["env"] = r1
       /\ \A r \in Register \ {"env"} : reg'[r] \in P2 \cup Leaf
       /\ reg' = [r \in Register |-> reg'[r]]
  BY <1>2, <1>3, <1>4, OwnerFacts DEF RegsWith, Register
<1>11. /\ m2 \in Steps /\ m2 \notin Closing \cup {"push_clear", "save_cont", "graft_enter"}
       /\ pend'.op = m2 /\ pend'.v \in Leaf
  BY <1>2, <1>3, OwnerFacts DEF Steps, Closing
<1>12. After(P2, at2, Running, 0, reg["env"])'
  BY <1>2, <1>3, <1>5, <1>10 DEF After, Height
<1>13. Registers(P2, at2, m2)'
  BY <1>10, <1>11, <1>12, PlainRegisters
<1>14. Leaves(P2, at2, m2)
  <2>1. pend' = [op |-> pend'.op, v |-> pend'.v]
    BY <1>3
  <2> QED
    BY <1>10, <1>11, <1>13, <2>1 DEF Leaves
<1>15. a \in Live \cup Leaf /\ d \in Live \cup Leaf
  BY <1>1, <1>2, RegistersLive DEF Register
<1>16. frame' \in [Cell -> Seq(Value)]
  BY <1>1, <1>3, <1>6 DEF Types
<1>17. "CONTINUATION" \in CellType /\ P2 \subseteq P \cup {p} /\ depth' \in Nat
  BY <1>2, <1>3 DEF CellType
<1>18. Own(P2, at2, m2)' \subseteq Own(P, at, m) \cup {p}
  BY <1>8
<1> QED
  BY <1>2, <1>3, <1>8, <1>9, <1>14, <1>15, <1>16, <1>17, <1>18, AllocateStep

\* What the program does to the heap without allocating or releasing a cell.
LEMMA WriteStep ==
  ASSUME NEW P, NEW at, NEW m, State(P, at, m),
         NEW P2, NEW at2, NEW m2, P2 \in SUBSET Cell, at2 \in Places,
         Leaves(P2, at2, m2), Shape(P2, at2, m2)',
         P2 \cup Own(P2, at2, m2)' \subseteq Live,
         car' \in [Cell -> Value], cdr' \in [Cell -> Value],
         \A c \in Cell : /\ car'[c] = car[c] \/ (c \in Live /\ car'[c] \in Live \cup Leaf)
                         /\ cdr'[c] = cdr[c] \/ (c \in Live /\ cdr'[c] \in Live \cup Leaf),
         UNCHANGED <<type, free_cells, stale, frame>>, depth' \in Nat
  PROVE  Good
<1>1. Types /\ type' = type /\ free_cells' = free_cells /\ stale' = stale /\ frame' = frame
  BY StateFacts
<1>2. Types'
  <2>1. /\ type' \in [Cell -> CellType] /\ stale' \subseteq Cell
        /\ frame' \in [Cell -> Seq(Value)] /\ free_cells' \in Cell \cup {NIL}
    BY <1>1 DEF Types, HTypeOK
  <2> QED
    BY <2>1, NextTypes
<1>3. Fits(P2, at2, m2)'
  BY DEF Fits, Leaves
<1>4. reg' \in [Register -> Live \cup Leaf]
  BY <1>2, <1>3, NextRegisters
<1>5. HMutate
  <2>1. WritesLive(Live, NIL)
    BY DEF WritesLive
  <2>2. stale \subseteq stale' /\ stale' \subseteq Cell
    BY <1>1 DEF Types, HTypeOK
  <2> QED
    BY <1>1, <1>4, <2>1, <2>2 DEF HMutate
<1>6. Fitted'
  BY <1>3 DEF Fitted
<1> QED
  BY <1>2, <1>5, <1>6 DEF Good, HNext

\* CLOS: the cell of the list now holds the closure.
LEMMA StoreClosureStep ==
  ASSUME NEW P, NEW at, NEW m, State(P, at, m), m = "store_closure", StoreClosure
  PROVE  Good
<1>1. /\ P \in SUBSET Cell /\ at \in Places /\ Types /\ Registers(P, at, m) /\ depth \in Nat
      /\ Live = P \cup Own(P, at, m) /\ Height(Running) = depth
  BY StateFacts DEF State
<1>2. PICK c, v, w, m2 : c = reg["reg2"] /\ v = reg["reg1"] /\ w = reg["env"] /\ m2 = "fetch"
  OBVIOUS
<1>3. /\ cdr' = [cdr EXCEPT ![c] = w] /\ car' = [car EXCEPT ![c] = v]
      /\ reg' = RegsWith([env |-> c, reg1 |-> NIL, reg2 |-> NIL, reg3 |-> NIL])
      /\ pend' = [op |-> "fetch", v |-> NIL]
      /\ type' = type /\ free_cells' = free_cells /\ stale' = stale /\ depth' = depth
      /\ frame' = frame
  BY <1>2 DEF StoreClosure, Then
<1>4. m \in Closing /\ m # "save_cont" /\ m2 # "save_cont"
  BY <1>2 DEF Closing
<1>5. /\ depth > 0 /\ After(P, at, Running, 0, c) /\ After(P, at, Running, 1, w)
      /\ \A r \in Register \ {"env", "reg2"} : reg[r] \in P \cup Leaf
  BY <1>1, <1>2, <1>4 DEF Registers, Tied
<1>6. c = at[Running][1] /\ v \in P \cup Leaf /\ 1 \in 1 .. depth
  <2>1. 0 < Height(Running) /\ 0 + 1 = 1
    BY <1>1, <1>5
  <2> QED
    BY <1>1, <1>2, <1>5, <2>1 DEF After, Register
<1>7. c \in Cell /\ c \in Live
  BY <1>6, TemporaryIs
<1>8. Shape(P, at, m2)' /\ Own(P, at, m2)' \subseteq Own(P, at, m)
  BY <1>3, <1>4, <1>5, <1>6, RewrittenShape
<1>9. /\ reg'["env"] = c
      /\ \A r \in Register \ {"env"} : reg'[r] \in P \cup Leaf
      /\ reg' = [r \in Register |-> reg'[r]]
  BY <1>3, <1>5, OwnerFacts DEF RegsWith, Register
<1>10. /\ m2 \in Steps /\ m2 \notin Closing \cup {"push_clear", "save_cont", "graft_enter"}
       /\ pend'.op = m2 /\ pend'.v \in Leaf
  BY <1>2, <1>3, OwnerFacts DEF Steps, Closing
<1>11. After(P, at, Running, 0, reg["env"])'
  BY <1>3, <1>5, <1>9 DEF After, Height
<1>12. Registers(P, at, m2)'
  BY <1>9, <1>10, <1>11, PlainRegisters
<1>13. Leaves(P, at, m2)
  <2>1. pend' = [op |-> pend'.op, v |-> pend'.v]
    BY <1>3
  <2> QED
    BY <1>9, <1>10, <1>12, <2>1 DEF Leaves
<1>14. v \in Live \cup Leaf /\ w \in Live \cup Leaf /\ v \in Value /\ w \in Value
  BY <1>1, <1>2, RegistersLive DEF Register, Types, HTypeOK
<1>15. car' \in [Cell -> Value] /\ cdr' \in [Cell -> Value]
  BY <1>1, <1>3, <1>14 DEF Types, HTypeOK
<1>16. \A x \in Cell : /\ car'[x] = car[x] \/ (x \in Live /\ car'[x] \in Live \cup Leaf)
                       /\ cdr'[x] = cdr[x] \/ (x \in Live /\ cdr'[x] \in Live \cup Leaf)
  <2>1. car \in [Cell -> Value] /\ cdr \in [Cell -> Value]
    BY <1>1 DEF Types, HTypeOK
  <2> QED
    BY <1>3, <1>7, <1>14, <2>1
<1>17. P \cup Own(P, at, m2)' \subseteq Live /\ depth' \in Nat
  BY <1>1, <1>3, <1>8
<1> QED
  BY <1>1, <1>3, <1>8, <1>13, <1>15, <1>16, <1>17, WriteStep

(***************************************************************************)
(* A call: the cells of the arguments change hands.                        *)
(***************************************************************************)
Entered(f) ==
  /\ car' = f.car /\ cdr' = f.cdr
  /\ UNCHANGED <<type, free_cells, stale, frame>>

LEMMA FrameWrites ==
  ASSUME NEW P, NEW at, NEW m, State(P, at, m), m \notin Closing, m # "save_cont",
         NEW u \in 0 .. depth, NEW f, NEW W, MakesFrame(f, P, at, u, W), Entered(f),
         depth' \in Nat, depth' = depth - u \/ depth' = 0,
         NEW m2, m2 # "save_cont", NEW at2, at2 = Shift(at, u), NEW P2, P2 = P \cup W,
         Leaves(P2, at2, m2)
  PROVE  Good
<1>1. /\ P \in SUBSET Cell /\ at \in Places /\ Types /\ depth \in Nat
      /\ Live = P \cup Own(P, at, m)
  BY StateFacts DEF State
<1> DEFINE used == {at[Running][i] : i \in 1 .. u}
           Q == P2 \cup Leaf
<1>2. /\ W \in SUBSET used /\ f.env \in P2 \cup Leaf
      /\ f.car \in [Cell -> Value] /\ f.cdr \in [Cell -> Value]
      /\ \A c \in W : f.car[c] \in P2 \cup Leaf /\ f.cdr[c] \in P2 \cup Leaf
      /\ \A c \in Cell \ W : f.car[c] = car[c] /\ f.cdr[c] = cdr[c]
  BY DEF MakesFrame
<1>3. /\ type' = type /\ stale' = stale /\ frame' = frame /\ car' = f.car /\ cdr' = f.cdr
      /\ free_cells' = free_cells
  BY DEF Entered
<1>4. used \subseteq Live
  <2>1. \A i \in 1 .. u : i \in 1 .. depth
    BY <1>1
  <2> QED
    BY <2>1, TemporaryIs
<1>5. Writes(P, u, W, P2, at, at2)
  <2>1. at2 = [at EXCEPT ![Running] = [i \in Nat |-> at[Running][i+u]]]
    BY DEF Shift
  <2>2. \A c \in Cell \ used : car'[c] = car[c] /\ cdr'[c] = cdr[c]
    BY <1>2, <1>3
  <2>3. \A c \in W : car'[c] \in P2 \cup Leaf /\ cdr'[c] \in P2 \cup Leaf
    BY <1>2, <1>3
  <2> QED
    BY <1>2, <1>3, <2>1, <2>2, <2>3 DEF Writes
<1>6. Shape(P2, at2, m2)'
  BY <1>5, WritesShape
<1>7. P2 \in SUBSET Cell
  BY <1>1, <1>2, <1>4, LiveClosed
<1>8. at2 \in Places
  BY <1>5, WritesShape
<1>9. Own(P2, at2, m2)' \subseteq Own(P, at, m)
  BY <1>5, WritesShape
<1>10. P2 \cup Own(P2, at2, m2)' \subseteq Live
  BY <1>1, <1>2, <1>4, <1>9
<1>11. car' \in [Cell -> Value] /\ cdr' \in [Cell -> Value]
  BY <1>2, <1>3
<1>12. \A c \in Cell : /\ car'[c] = car[c] \/ (c \in Live /\ car'[c] \in Live \cup Leaf)
                       /\ cdr'[c] = cdr[c] \/ (c \in Live /\ cdr'[c] \in Live \cup Leaf)
  <2>1. W \subseteq Live /\ P2 \subseteq Live
    BY <1>2, <1>4, <1>10
  <2> QED
    BY <1>2, <1>3, <2>1
<1> QED
  BY <1>3, <1>6, <1>7, <1>8, <1>10, <1>11, <1>12, WriteStep

LEMMA EnterStep ==
  ASSUME NEW P, NEW at, NEW m, State(P, at, m), m \notin Closing \cup {"save_cont", "push_clear"},
         NEW u \in 0 .. depth, NEW f, \E W : MakesFrame(f, P, at, u, W), EnterFrame(f)
  PROVE  Good
<1>1. PICK W : MakesFrame(f, P, at, u, W)
  OBVIOUS
<1>2. PICK P2, at2, m2 : P2 = P \cup W /\ at2 = Shift(at, u) /\ m2 = "fetch"
  OBVIOUS
<1>3. /\ Entered(f) /\ depth' = 0 /\ pend' = [op |-> "fetch", v |-> NIL]
      /\ reg' = RegsWith([env |-> f.env, reg1 |-> NIL, reg2 |-> NIL])
  BY DEF EnterFrame, Entered, Then
<1>4. f.env \in P2 \cup Leaf
  BY <1>1, <1>2 DEF MakesFrame
<1>5. \A r \in Register \ {"env"} : reg[r] \in P \cup Leaf
  BY StateFacts DEF Registers, Tied
<1>6. /\ reg'["env"] = f.env
      /\ \A r \in Register \ {"env"} : reg'[r] \in P2 \cup Leaf
      /\ reg' = [r \in Register |-> reg'[r]]
  BY <1>2, <1>3, <1>5, OwnerFacts DEF RegsWith, Register
<1>7. /\ m2 \in Steps /\ m2 \notin Closing \cup {"push_clear", "save_cont", "graft_enter"}
      /\ pend'.op = m2 /\ pend'.v \in Leaf
  BY <1>2, <1>3, OwnerFacts DEF Steps, Closing
<1>8. After(P2, at2, Running, 0, reg["env"])'
  BY <1>3, <1>4, <1>6 DEF After, Height
<1>9. Registers(P2, at2, m2)'
  BY <1>6, <1>7, <1>8, PlainRegisters
<1>10. Leaves(P2, at2, m2)
  <2>1. pend' = [op |-> pend'.op, v |-> pend'.v]
    BY <1>3
  <2> QED
    BY <1>6, <1>7, <1>9, <2>1 DEF Leaves
<1>11. depth' \in Nat /\ (depth' = depth - u \/ depth' = 0) /\ m2 # "save_cont"
  BY <1>2, <1>3
<1> QED
  BY <1>1, <1>2, <1>3, <1>10, <1>11, FrameWrites

LEMMA CallStep ==
  ASSUME NEW P, NEW at, NEW m, State(P, at, m), m \notin Closing \cup {"save_cont", "push_clear"},
         NEW u \in 0 .. depth, NEW f, \E W : MakesFrame(f, P, at, u, W), CallFrame(f, u)
  PROVE  Good
<1>1. PICK W : MakesFrame(f, P, at, u, W)
  OBVIOUS
<1>2. PICK P2, at2, m2, e : P2 = P \cup W /\ at2 = Shift(at, u) /\ m2 = "save_closure"
                            /\ e = Stack[u]
  OBVIOUS
<1>3. /\ Entered(f) /\ depth' = depth - u /\ pend' = [op |-> "save_closure", v |-> NIL]
      /\ reg' = RegsWith([env |-> e, reg1 |-> f.env, reg2 |-> NIL])
  BY <1>2 DEF CallFrame, Entered, Then
<1>4. f.env \in P2 \cup Leaf
  BY <1>1, <1>2 DEF MakesFrame
<1>5. /\ \A r \in Register \ {"env"} : reg[r] \in P \cup Leaf
      /\ depth \in Nat /\ at \in Places
  BY StateFacts DEF Registers, Tied
<1>6. /\ reg'["env"] = e
      /\ \A r \in Register \ {"env"} : reg'[r] \in P2 \cup Leaf
      /\ reg' = [r \in Register |-> reg'[r]]
  BY <1>2, <1>3, <1>4, <1>5, OwnerFacts DEF RegsWith, Register
<1>7. /\ m2 \in Steps /\ m2 \notin Closing \cup {"push_clear", "save_cont", "graft_enter"}
      /\ pend'.op = m2 /\ pend'.v \in Leaf
  BY <1>2, <1>3, OwnerFacts DEF Steps, Allocations, Closing
<1>8. After(P2, at2, Running, 0, reg["env"])'
  <2>1. After(P, at, Running, u, e) /\ P \subseteq P2 /\ u \in Nat /\ depth' \in Nat
    BY <1>2, <1>3, <1>5, StackIs
  <2>2. After(P2, at2, Running, 0, e)'
    BY <1>2, <1>3, <1>5, <2>1, AfterShift
  <2> QED
    BY <1>6, <2>2 DEF After
<1>9. Registers(P2, at2, m2)'
  BY <1>6, <1>7, <1>8, PlainRegisters
<1>10. Leaves(P2, at2, m2)
  <2>1. pend' = [op |-> pend'.op, v |-> pend'.v]
    BY <1>3
  <2> QED
    BY <1>6, <1>7, <1>9, <2>1 DEF Leaves
<1>11. depth' \in Nat /\ (depth' = depth - u \/ depth' = 0) /\ m2 # "save_cont"
  BY <1>2, <1>3, <1>5
<1>12. m \notin Closing /\ m # "save_cont"
  OBVIOUS
<1> QED
  BY <1>1, <1>2, <1>3, <1>10, <1>11, <1>12, FrameWrites

\* A collection: the cells that are live keep what they hold.
LEMMA GcStep ==
  ASSUME NEW P, NEW at, NEW m, State(P, at, m), Gc
  PROVE  Good
<1> DEFINE M == Reach(Roots, Edges)
           U == Unmarked(M)
<1>1. /\ P \in SUBSET Cell /\ at \in Places /\ Types /\ Shape(P, at, m) /\ Registers(P, at, m)
      /\ depth \in Nat /\ HInv /\ P \subseteq Live /\ Live = P \cup Own(P, at, m)
      /\ Fits(P, at, m) /\ Live \subseteq Cell
  BY StateFacts, LiveClosed DEF State
<1>2. /\ type' = SweptType(type, U) /\ cdr' = SweptCdr(cdr, U) /\ stale' = stale \ U
      /\ car' = car /\ reg' = reg /\ depth' = depth
      /\ frame' = [c \in Cell |-> IF c \in M THEN frame[c] ELSE << >>]
      /\ pend' = pend \/ pend' = [op |-> "stopped", v |-> NIL]
      /\ pend.op \in Allocations /\ CollectGarbage
  BY DEF Gc, CollectGarbage, Then
<1>3. Live \subseteq M
  <2>1. M = LiveSet(Roots, type, car, cdr, {})
    <3>1. Edges = {e \in Links(type, car, cdr) : e[1] \notin {}}
      BY DEF Edges
    <3> QED
      BY <3>1 DEF LiveSet
  <2> HIDE DEF M
  <2>2. M \in SUBSET Cell /\ Roots \cap Cell \subseteq M /\ KeepsLinks(M, type, car, cdr, {})
    BY <2>1, LiveSetClosed
  <2>3. KeepsLinks(M, type, car, cdr, stale)
    BY <2>2 DEF KeepsLinks
  <2> QED
    BY <2>2, <2>3, LiveIs, LiveSetLeast
<1>4. U \cap M = {}
  BY DEF Unmarked
<1> HIDE DEF M, U
<1>5. \A c \in Live : /\ type'[c] = type[c] /\ car'[c] = car[c] /\ cdr'[c] = cdr[c]
                      /\ c \in stale' <=> c \in stale
                      /\ frame'[c] = frame[c]
  BY <1>1, <1>2, <1>3, <1>4 DEF SweptType, SweptCdr
<1>6. \A c \in stale' : type'[c] = "CONTINUATION"
  <2> SUFFICES ASSUME NEW c \in stale' PROVE type'[c] = "CONTINUATION"
    OBVIOUS
  <2>1. c \in stale /\ c \notin U /\ c \in Cell /\ type[c] = "CONTINUATION"
    BY <1>1, <1>2 DEF Shape, PublicOK, Types, HTypeOK
  <2> QED
    BY <1>2, <2>1 DEF SweptType
<1>7. Shape(P, at, m)' /\ Own(P, at, m)' = Own(P, at, m)
  BY <1>2, <1>5, <1>6, SameShape
<1>8. HTypeOK'
  BY <1>1, <1>2, CollectKeeps DEF HInv
<1>9. /\ pend' \in [op : Steps, v : Value]
      /\ pend'.v = pend.v \/ pend'.v \in Leaf
      /\ pend'.op # "stopped" => pend'.op = m
  BY <1>1, <1>2, OwnerFacts DEF Types, Steps, Fits, Allocations
<1>10. Types'
  <2>1. frame' \in [Cell -> Seq(Value)]
    BY <1>1, <1>2 DEF Types
  <2> QED
    BY <1>1, <1>2, <1>8, <1>9, <2>1 DEF Types
<1>11. Registers(P, at, m)'
  <2>1. PendingKept'
    <3>1. CASE pend'.v \in Leaf
      BY <3>1 DEF PendingKept
    <3>2. CASE pend'.v = pend.v
      <4>1. IsPair(reg["reg1"]) => IsPair(reg["reg1"])'
        <5>1. reg["reg1"] \in Cell => reg["reg1"] \in Live
          BY <1>1, RegistersLive, OwnerFacts DEF Register
        <5> QED
          BY <1>2, <1>5, <5>1 DEF IsPair
      <4> QED
        BY <1>1, <1>2, <3>2, <4>1 DEF PendingKept, Registers
    <3> QED
      BY <1>9, <3>1, <3>2
  <2>2. pend'.v \in P \cup Leaf
    BY <1>1, <1>9 DEF Registers
  <2>3. Height(Running)' = Height(Running) /\ Temps(at)' = Temps(at)
    BY <1>2 DEF Height, Temps
  <2>4. \A i, v : After(P, at, Running, i, v) => After(P, at, Running, i, v)'
    BY <2>3 DEF After
  <2> QED
    BY <1>1, <1>2, <2>1, <2>2, <2>3, <2>4 DEF Registers
<1>12. Fits(P, at, m)'
  BY <1>1, <1>7, <1>9, <1>11 DEF Fits
<1>13. Fitted'
  BY <1>12 DEF Fitted
<1> QED
  BY <1>2, <1>10, <1>13 DEF Good, HNext

-----------------------------------------------------------------------------
(***************************************************************************)
(* The actions, each of which is one of these steps.                       *)
(***************************************************************************)
LEMMA PlainState ==
  ASSUME NEW P, NEW at, NEW m, State(P, at, m), m \notin Closing \cup {"push_clear", "save_cont"}
  PROVE  \A r \in Register \ {"env"} : reg[r] \in P \cup Leaf
  BY StateFacts DEF Registers, Tied

LEMMA StepIs ==
  ASSUME NEW P, NEW at, NEW m, State(P, at, m), pend.op # "stopped"
  PROVE  m = pend.op
  BY DEF State, Fits

LEMMA PlainPop ==
  ASSUME NEW P, NEW at, NEW m, State(P, at, m), m \in {"fetch", "pop"}, PopCell,
         car' = car, stale' = stale, frame' = frame,
         reg' = [r \in Register |-> reg'[r]], reg'["env"] = PoppedEnv,
         \A r \in Register \ {"env"} : reg'[r] \in P \cup Leaf,
         NEW o \in {"fetch", "push", "pop", "cons", "graft", "stopped"},
         NEW w \in Leaf \cup {reg'["reg1"]}, pend' = [op |-> o, v |-> w]
  PROVE  Good
<1>1. ReturnToFreeList(reg["env"], cdr) /\ depth > 0 /\ depth' = depth - 1
  BY DEF PopCell
<1>2. StoresPublic(P, car', car) /\ StoresPublic(P, cdr, cdr)
  BY StateFacts DEF StoresPublic, Types, HTypeOK
<1>3. m \notin Closing /\ m # "save_cont"
  BY DEF Closing
<1> QED
  BY <1>1, <1>2, <1>3, PopStep

LEMMA DropStep ==
  ASSUME NEW P, NEW at, NEW m, State(P, at, m), Drop
  PROVE  Good
<1>1. /\ m = "fetch" /\ PopCell /\ car' = car /\ stale' = stale /\ frame' = frame
      /\ reg' = RegsWith([env |-> PoppedEnv]) /\ pend' = [op |-> "fetch", v |-> NIL]
  BY StepIs DEF Drop, Fetch, Then
<1>2. \A r \in Register \ {"env"} : reg[r] \in P \cup Leaf
  BY <1>1, PlainState DEF Closing
<1>3. /\ reg' = [r \in Register |-> reg'[r]] /\ reg'["env"] = PoppedEnv
      /\ \A r \in Register \ {"env"} : reg'[r] \in P \cup Leaf
  BY <1>1, <1>2 DEF RegsWith, Register
<1> QED
  BY <1>1, <1>3, PlainPop, OwnerFacts

LEMMA TestStep ==
  ASSUME NEW P, NEW at, NEW m, State(P, at, m), Test
  PROVE  Good
<1>1. PICK r \in Leaf : /\ m = "fetch" /\ PopCell /\ car' = car /\ stale' = stale /\ frame' = frame
                        /\ reg' = RegsWith([env |-> PoppedEnv, reg1 |-> r])
                        /\ pend' = [op |-> "push", v |-> r]
  BY StepIs DEF Test, Fetches, Fetch, ThenWith
<1>2. \A q \in Register \ {"env"} : reg[q] \in P \cup Leaf
  BY <1>1, PlainState DEF Closing
<1>3. /\ reg' = [q \in Register |-> reg'[q]] /\ reg'["env"] = PoppedEnv
      /\ \A q \in Register \ {"env"} : reg'[q] \in P \cup Leaf
  BY <1>1, <1>2 DEF RegsWith, Register
<1> QED
  BY <1>1, <1>3, PlainPop

LEMMA PopSecondStep ==
  ASSUME NEW P, NEW at, NEW m, State(P, at, m), PopSecond
  PROVE  Good
<1>1. /\ m = "fetch" /\ PopCell /\ car' = car /\ stale' = stale /\ frame' = frame /\ depth > 0
      /\ reg' = RegsWith([env |-> PoppedEnv, reg2 |-> TopValue])
      /\ pend' = [op |-> "pop", v |-> NIL]
  BY StepIs DEF PopSecond, Fetch, Then, PopCell
<1>2. TopValue \in P \cup Leaf /\ \A q \in Register \ {"env"} : reg[q] \in P \cup Leaf
  BY <1>1, PlainState, TopIs DEF Closing
<1>3. /\ reg' = [q \in Register |-> reg'[q]] /\ reg'["env"] = PoppedEnv
      /\ \A q \in Register \ {"env"} : reg'[q] \in P \cup Leaf
  BY <1>1, <1>2 DEF RegsWith, Register
<1> QED
  BY <1>1, <1>3, PlainPop, OwnerFacts

LEMMA ConsStep ==
  ASSUME NEW P, NEW at, NEW m, State(P, at, m), Cons
  PROVE  Good
<1>1. /\ m = "pop" /\ PopCell /\ car' = car /\ stale' = stale /\ frame' = frame /\ depth > 0
      /\ reg' = RegsWith([env |-> PoppedEnv, reg1 |-> TopValue])
      /\ pend' = [op |-> "cons", v |-> NIL]
  BY StepIs DEF Cons, Then, PopCell
<1>2. TopValue \in P \cup Leaf /\ \A q \in Register \ {"env"} : reg[q] \in P \cup Leaf
  BY <1>1, PlainState, TopIs DEF Closing
<1>3. /\ reg' = [q \in Register |-> reg'[q]] /\ reg'["env"] = PoppedEnv
      /\ \A q \in Register \ {"env"} : reg'[q] \in P \cup Leaf
  BY <1>1, <1>2 DEF RegsWith, Register
<1> QED
  BY <1>1, <1>3, PlainPop, OwnerFacts

LEMMA ComputeStep ==
  ASSUME NEW P, NEW at, NEW m, State(P, at, m), Compute
  PROVE  Good
<1>1. PICK r \in Leaf : /\ m = "pop" /\ PopCell /\ car' = car /\ stale' = stale /\ frame' = frame
                        /\ reg' = RegsWith([env |-> PoppedEnv, reg1 |-> r, reg2 |-> NIL])
                        /\ pend' = [op |-> "push", v |-> r]
  BY StepIs DEF Compute, ThenWith
<1>2. \A q \in Register \ {"env"} : reg[q] \in P \cup Leaf
  BY <1>1, PlainState DEF Closing
<1>3. /\ reg' = [q \in Register |-> reg'[q]] /\ reg'["env"] = PoppedEnv
      /\ \A q \in Register \ {"env"} : reg'[q] \in P \cup Leaf
  BY <1>1, <1>2, OwnerFacts DEF RegsWith, Register
<1> QED
  BY <1>1, <1>3, PlainPop

LEMMA GraftToContStep ==
  ASSUME NEW P, NEW at, NEW m, State(P, at, m), GraftToCont
  PROVE  Good
<1>1. PICK o \in {"graft", "stopped"}, q \in {reg["reg2"], TopValue} :
        /\ m = "pop" /\ PopCell /\ car' = car /\ stale' = stale /\ frame' = frame /\ depth > 0
        /\ reg' = RegsWith([env |-> PoppedEnv, cont |-> TopValue, reg1 |-> q])
        /\ pend' = [op |-> o, v |-> NIL]
  <2>1. m = "pop" /\ PopCell /\ car' = car /\ stale' = stale /\ frame' = frame /\ depth > 0
    BY StepIs DEF GraftToCont, PopCell
  <2>2. CASE IsContinuation(TopValue)
    BY <2>1, <2>2 DEF GraftToCont, Then
  <2>3. CASE ~IsContinuation(TopValue)
    BY <2>1, <2>3 DEF GraftToCont, Then
  <2> QED
    BY <2>2, <2>3
<1>2. TopValue \in P \cup Leaf /\ \A r \in Register \ {"env"} : reg[r] \in P \cup Leaf
  BY <1>1, PlainState, TopIs DEF Closing
<1>3. q \in P \cup Leaf
  BY <1>2 DEF Register
<1>4. /\ reg' = [r \in Register |-> reg'[r]] /\ reg'["env"] = PoppedEnv
      /\ \A r \in Register \ {"env"} : reg'[r] \in P \cup Leaf
  BY <1>1, <1>2, <1>3 DEF RegsWith, Register
<1> QED
  BY <1>1, <1>4, PlainPop, OwnerFacts

\* A public pair leads to public values.
LEMMA PublicPair ==
  ASSUME NEW P, NEW at, NEW m, State(P, at, m), NEW c \in P \cup Leaf, IsPair(c)
  PROVE  c \in P /\ c \in Cell /\ type[c] = "CONS" /\ car[c] \in P \cup Leaf /\ cdr[c] \in P \cup Leaf
<1>1. PublicOK(P)
  BY StateFacts DEF Shape
<1>2. c \in P /\ c \in Cell /\ type[c] = "CONS"
  BY OwnerFacts DEF IsPair
<1>3. c \notin stale
  BY <1>1, <1>2 DEF PublicOK
<1> QED
  BY <1>1, <1>2, <1>3 DEF PublicOK, HasLeftLink

\* The cell that env leaves is not public.
LEMMA EnvIsPrivate ==
  ASSUME NEW P, NEW at, NEW m, State(P, at, m), m \notin Closing, depth > 0,
         NEW d \in [Cell -> Value], ReturnToFreeList(reg["env"], d)
  PROVE  \A c \in P : type'[c] = type[c] /\ cdr'[c] = d[c]
<1>1. reg["env"] \notin P /\ P \in SUBSET Cell /\ type \in [Cell -> CellType]
  BY TopIs, TemporaryIs, StateFacts DEF Types, HTypeOK
<1> QED
  BY <1>1 DEF ReturnToFreeList

LEMMA SelectStep ==
  ASSUME NEW P, NEW at, NEW m, State(P, at, m), Select
  PROVE  Good
<1>1. /\ m = "fetch" /\ PopCell /\ car' = car /\ stale' = stale /\ frame' = frame /\ depth > 0
      /\ m \notin Closing
  BY StepIs DEF Select, Fetches, Fetch, PopCell, Closing
<1>2. TopValue \in P \cup Leaf /\ \A q \in Register \ {"env"} : reg[q] \in P \cup Leaf
  BY <1>1, PlainState, TopIs DEF Closing
<1>3. \A c \in P : type'[c] = type[c] /\ cdr'[c] = cdr[c]
  <2>1. cdr \in [Cell -> Value] /\ ReturnToFreeList(reg["env"], cdr)
    BY <1>1, StateFacts DEF Types, HTypeOK, PopCell
  <2> QED
    BY <1>1, <2>1, EnvIsPrivate
<1>4. PICK o, r, w :
        /\ o \in {"push", "stopped"} /\ r \in P \cup Leaf
        /\ w \in Leaf \cup {r}
        /\ reg' = RegsWith([env |-> PoppedEnv, reg1 |-> r])
        /\ pend' = [op |-> o, v |-> w]
  <2> DEFINE v == TopValue
             isPair == v \in Cell /\ type'[v] = "CONS"
             fields == IF isPair THEN {car[v], cdr'[v]} ELSE IF v \in Imm THEN Leaf ELSE {}
  <2>1. fields \subseteq P \cup Leaf
    <3>1. CASE isPair
      <4>1. v \in P
        BY <1>2, <3>1, OwnerFacts
      <4>2. IsPair(v)
        BY <1>3, <3>1, <4>1 DEF IsPair
      <4>3. car[v] \in P \cup Leaf /\ cdr[v] \in P \cup Leaf
        BY <4>1, <4>2, PublicPair
      <4> QED
        BY <1>3, <3>1, <4>1, <4>3
    <3>2. CASE ~isPair
      BY <3>2
    <3> QED
      BY <3>1, <3>2
  <2>2. \/ \E r \in fields : /\ reg' = RegsWith([env |-> PoppedEnv, reg1 |-> r])
                             /\ ThenWith("push", r)
        \/ /\ reg' = RegsWith([env |-> PoppedEnv, reg1 |-> v])
           /\ Then("stopped")
    BY DEF Select
  <2> HIDE DEF fields
  <2>3. CASE \E r \in fields : /\ reg' = RegsWith([env |-> PoppedEnv, reg1 |-> r])
                               /\ ThenWith("push", r)
    BY <2>1, <2>3 DEF ThenWith
  <2>4. CASE reg' = RegsWith([env |-> PoppedEnv, reg1 |-> v]) /\ Then("stopped")
    BY <1>2, <2>4, OwnerFacts DEF Then
  <2> QED
    BY <2>2, <2>3, <2>4
<1>5. /\ reg' = [q \in Register |-> reg'[q]] /\ reg'["env"] = PoppedEnv /\ reg'["reg1"] = r
      /\ \A q \in Register \ {"env"} : reg'[q] \in P \cup Leaf
  BY <1>2, <1>4 DEF RegsWith, Register
<1> QED
  BY <1>1, <1>4, <1>5, PlainPop

\* Storing into a public pair: set-car!, set-cdr!, ST.
LEMMA StoreStep ==
  ASSUME NEW P, NEW at, NEW m, State(P, at, m), m \in {"fetch", "pop"}, depth > 0,
         NEW g \in P, type[g] = "CONS", NEW x \in P \cup Leaf,
         NEW a, NEW d, a \in {car, [car EXCEPT ![g] = x]}, d \in {cdr, [cdr EXCEPT ![g] = x]},
         car' = a, ReturnToFreeList(reg["env"], d),
         depth' = depth - 1, stale' = stale, frame' = frame,
         reg' = [r \in Register |-> reg'[r]], reg'["env"] = PoppedEnv,
         \A r \in Register \ {"env"} : reg'[r] \in P \cup Leaf,
         pend' = [op |-> "fetch", v |-> NIL]
  PROVE  Good
<1>1. /\ P \in SUBSET Cell /\ car \in [Cell -> Value] /\ cdr \in [Cell -> Value]
      /\ x \in Value
  BY StateFacts, OwnerFacts DEF Types, HTypeOK
<1>2. StoresPublic(P, a, car)
  BY <1>1 DEF StoresPublic
<1>3. StoresPublic(P, d, cdr)
  BY <1>1 DEF StoresPublic
<1>4. m \notin Closing /\ m # "save_cont" /\ NIL \in Leaf
  BY OwnerFacts DEF Closing
<1>5. StoresPublic(P, car', car)
  BY <1>2
<1> QED
  BY <1>3, <1>4, <1>5, PopStep

LEMMA StoreGlobalStep ==
  ASSUME NEW P, NEW at, NEW m, State(P, at, m), StoreGlobal
  PROVE  Good
<1>1. /\ m = "fetch" /\ stale' = stale /\ frame' = frame /\ depth > 0 /\ m \notin Closing
      /\ depth' = depth - 1 /\ reg' = RegsWith([env |-> PoppedEnv])
      /\ pend' = [op |-> "fetch", v |-> NIL]
  BY StepIs DEF StoreGlobal, Fetches, Fetch, Closing, Then
<1>2. TopValue \in P \cup Leaf /\ \A q \in Register \ {"env"} : reg[q] \in P \cup Leaf
  BY <1>1, PlainState, TopIs DEF Closing
<1>3. /\ reg' = [q \in Register |-> reg'[q]] /\ reg'["env"] = PoppedEnv
      /\ \A q \in Register \ {"env"} : reg'[q] \in P \cup Leaf
  BY <1>1, <1>2 DEF RegsWith, Register
<1>4. PICK i \in Globals : \/ /\ ReturnToFreeList(reg["env"], cdr)
                              /\ car' = [car EXCEPT ![i \div 2] = TopValue]
                           \/ /\ ReturnToFreeList(reg["env"], [cdr EXCEPT ![i \div 2] = TopValue])
                              /\ car' = car
  BY DEF StoreGlobal
<1>5. PICK g, x : g = i \div 2 /\ x = TopValue
  OBVIOUS
<1>6. g \in 0 .. Reserved-1
  BY <1>5, CodeAssumption, SizesAssumption
<1>7. g \in P /\ type[g] = "CONS"
  BY <1>6, StateFacts DEF Shape, PublicOK
<1>8. CASE ReturnToFreeList(reg["env"], cdr) /\ car' = [car EXCEPT ![i \div 2] = TopValue]
  BY <1>1, <1>2, <1>3, <1>5, <1>7, <1>8, StoreStep
<1>9. CASE ReturnToFreeList(reg["env"], [cdr EXCEPT ![i \div 2] = TopValue]) /\ car' = car
  BY <1>1, <1>2, <1>3, <1>5, <1>7, <1>9, StoreStep
<1> QED
  BY <1>4, <1>8, <1>9

LEMMA SetFieldStep ==
  ASSUME NEW P, NEW at, NEW m, State(P, at, m), SetField
  PROVE  Good
<1>1. /\ m = "pop" /\ stale' = stale /\ frame' = frame /\ depth > 0 /\ m \notin Closing
      /\ depth' = depth - 1
  BY StepIs DEF SetField, Closing, PopCell
<1>2. TopValue \in P \cup Leaf /\ \A q \in Register \ {"env"} : reg[q] \in P \cup Leaf
  BY <1>1, PlainState, TopIs DEF Closing
<1>3. PICK g, x : g = TopValue /\ x = reg["reg2"]
  OBVIOUS
<1>4. x \in P \cup Leaf
  BY <1>2, <1>3 DEF Register
<1>5. CASE ~IsPair(TopValue)
  <2>1. /\ PopCell /\ pend' = [op |-> "stopped", v |-> NIL] /\ car' = car
        /\ reg' = RegsWith([env |-> PoppedEnv, reg1 |-> TopValue])
    BY <1>5 DEF SetField, Then
  <2>2. /\ reg' = [q \in Register |-> reg'[q]] /\ reg'["env"] = PoppedEnv
        /\ \A q \in Register \ {"env"} : reg'[q] \in P \cup Leaf
    BY <1>2, <2>1 DEF RegsWith, Register
  <2> QED
    BY <1>1, <2>1, <2>2, PlainPop, OwnerFacts
<1>6. CASE IsPair(TopValue)
  <2>1. /\ reg' = RegsWith([env |-> PoppedEnv, reg1 |-> NIL, reg2 |-> NIL])
        /\ pend' = [op |-> "fetch", v |-> NIL]
        /\ \/ ReturnToFreeList(reg["env"], cdr) /\ car' = [car EXCEPT ![g] = x]
           \/ ReturnToFreeList(reg["env"], [cdr EXCEPT ![g] = x]) /\ car' = car
    BY <1>3, <1>6 DEF SetField, Then, PopCell
  <2>2. /\ reg' = [q \in Register |-> reg'[q]] /\ reg'["env"] = PoppedEnv
        /\ \A q \in Register \ {"env"} : reg'[q] \in P \cup Leaf
    BY <1>2, <2>1, OwnerFacts DEF RegsWith, Register
  <2>3. g \in P /\ type[g] = "CONS"
    BY <1>2, <1>3, <1>6, PublicPair
  <2>4. CASE ReturnToFreeList(reg["env"], cdr) /\ car' = [car EXCEPT ![g] = x]
    BY <1>1, <1>4, <2>1, <2>2, <2>3, <2>4, StoreStep
  <2>5. CASE ReturnToFreeList(reg["env"], [cdr EXCEPT ![g] = x]) /\ car' = car
    BY <1>1, <1>4, <2>1, <2>2, <2>3, <2>5, StoreStep
  <2> QED
    BY <2>1, <2>4, <2>5
<1> QED
  BY <1>5, <1>6

LEMMA ReturnStep ==
  ASSUME OneShot, NEW P, NEW at, NEW m, State(P, at, m), Return
  PROVE  Good
<1>1. /\ m = "fetch" /\ car' = car /\ frame' = frame /\ depth > 0
      /\ ReturnToFreeList(reg["env"], cdr)
      /\ m \notin Closing /\ m \notin {"save_cont", "push_clear"}
  BY StepIs DEF Return, Fetches, Fetch, Closing
<1>2. TopValue \in P \cup Leaf /\ \A q \in Register \ {"env"} : reg[q] \in P \cup Leaf
  BY <1>1, PlainState, TopIs DEF Closing
<1>3. CASE IsContinuation(reg["cont"])
  <2>1. PICK k, r : k = reg["cont"] /\ r = TopValue
    OBVIOUS
  <2>2. Resume(k, r) /\ k \in P \cup Leaf /\ r \in P \cup Leaf /\ IsContinuation(k)
    BY <1>2, <1>3, <2>1 DEF Return, Register
  <2> QED
    BY <1>1, <2>2, ResumeStep
<1>4. CASE ~IsContinuation(reg["cont"])
  <2>1. /\ reg' = RegsWith([env |-> PoppedEnv, reg1 |-> TopValue])
        /\ PopCell /\ stale' = stale /\ pend' = [op |-> "stopped", v |-> NIL]
    BY <1>1, <1>4 DEF Return, PopCell, Then
  <2>2. /\ reg' = [q \in Register |-> reg'[q]] /\ reg'["env"] = PoppedEnv
        /\ \A q \in Register \ {"env"} : reg'[q] \in P \cup Leaf
    BY <1>2, <2>1 DEF RegsWith, Register
  <2> QED
    BY <1>1, <2>1, <2>2, PlainPop, OwnerFacts
<1> QED
  BY <1>3, <1>4

LEMMA ReturnToContStep ==
  ASSUME OneShot, NEW P, NEW at, NEW m, State(P, at, m), ReturnToCont
  PROVE  Good
<1>1. /\ m = "pop" /\ car' = car /\ frame' = frame /\ depth > 0
      /\ ReturnToFreeList(reg["env"], cdr)
      /\ m \notin Closing /\ m \notin {"save_cont", "push_clear"}
  BY StepIs DEF ReturnToCont, Closing
<1>2. TopValue \in P \cup Leaf /\ \A q \in Register \ {"env"} : reg[q] \in P \cup Leaf
  BY <1>1, PlainState, TopIs DEF Closing
<1>3. CASE IsContinuation(TopValue)
  <2>1. PICK k, r : k = TopValue /\ r = reg["reg2"]
    OBVIOUS
  <2>2. Resume(k, r) /\ k \in P \cup Leaf /\ r \in P \cup Leaf /\ IsContinuation(k)
    BY <1>2, <1>3, <2>1 DEF ReturnToCont, Register
  <2> QED
    BY <1>1, <2>2, ResumeStep
<1>4. CASE ~IsContinuation(TopValue)
  <2>1. /\ reg' = RegsWith([env |-> PoppedEnv, reg1 |-> TopValue, cont |-> TopValue])
        /\ PopCell /\ stale' = stale /\ pend' = [op |-> "stopped", v |-> NIL]
    BY <1>1, <1>4 DEF ReturnToCont, PopCell, Then
  <2>2. /\ reg' = [q \in Register |-> reg'[q]] /\ reg'["env"] = PoppedEnv
        /\ \A q \in Register \ {"env"} : reg'[q] \in P \cup Leaf
    BY <1>2, <2>1 DEF RegsWith, Register
  <2> QED
    BY <1>1, <2>1, <2>2, PlainPop, OwnerFacts
<1> QED
  BY <1>3, <1>4

\* The answer of an instruction is about to be pushed.
LEMMA AnswerStep ==
  ASSUME NEW P, NEW at, NEW m, State(P, at, m), m = "fetch", UNCHANGED <<heap, depth, frame>>,
         reg' = [r \in Register |-> reg'[r]], reg'["env"] = reg["env"],
         \A r \in Register \ {"env"} : reg'[r] \in P \cup Leaf,
         NEW w \in Leaf \cup {reg'["reg1"]}, pend' = [op |-> "push", v |-> w]
  PROVE  Good
<1>1. PICK m2 : m2 = "push"
  OBVIOUS
<1>2. /\ m2 \in Steps /\ m2 \notin Closing \cup {"push_clear", "save_cont", "graft_enter"}
      /\ pend'.op = m2 /\ pend'.v = w /\ ((m2 = "save_cont") <=> (m = "save_cont"))
      /\ m \notin Closing
  BY <1>1 DEF Steps, Allocations, Closing
<1>3. After(P, at, Running, 0, reg["env"])'
  <2>1. After(P, at, Running, 0, reg["env"])
    BY <1>2, StateFacts DEF Registers
  <2> QED
    BY <2>1 DEF After, Height
<1>4. Registers(P, at, m2)'
  BY <1>2, <1>3, PlainRegisters
<1>5. Leaves(P, at, m2)
  <2>1. pend' = [op |-> pend'.op, v |-> pend'.v]
    OBVIOUS
  <2> QED
    BY <1>2, <1>4, <2>1 DEF Leaves
<1> QED
  BY <1>2, <1>5, QuietStep

LEMMA PushConstantStep ==
  ASSUME NEW P, NEW at, NEW m, State(P, at, m), PushConstant
  PROVE  Good
<1>1. PICK v \in Leaf : /\ m = "fetch" /\ UNCHANGED <<heap, depth, frame>> /\ reg' = reg
                        /\ pend' = [op |-> "push", v |-> v]
  BY StepIs DEF PushConstant, Fetch, ThenWith, hvars, heap
<1>2. /\ reg' = [r \in Register |-> reg'[r]] /\ reg'["env"] = reg["env"]
      /\ \A r \in Register \ {"env"} : reg'[r] \in P \cup Leaf
  BY <1>1, PlainState, StateFacts DEF Types, HTypeOK, Closing
<1> QED
  BY <1>1, <1>2, AnswerStep

LEMMA GetContStep ==
  ASSUME NEW P, NEW at, NEW m, State(P, at, m), GetCont
  PROVE  Good
<1>1. CASE IsContinuation(reg["cont"])
  <2>1. /\ m = "fetch" /\ UNCHANGED <<heap, depth, frame>>
        /\ reg' = RegsWith([reg1 |-> reg["cont"]])
        /\ pend' = [op |-> "push", v |-> reg["cont"]]
    BY <1>1, StepIs DEF GetCont, Fetches, Fetch, ThenWith
  <2>2. /\ reg' = [r \in Register |-> reg'[r]] /\ reg'["env"] = reg["env"]
        /\ reg'["reg1"] = reg["cont"]
        /\ \A r \in Register \ {"env"} : reg'[r] \in P \cup Leaf
    BY <2>1, PlainState DEF RegsWith, Register, Closing
  <2> QED
    BY <2>1, <2>2, AnswerStep
<1> QED
  BY <1>1, FatalStep DEF GetCont

\* What LDSTK, LDS and LD read is about to be pushed: reg1 leads to it.
LEMMA ReadStep ==
  ASSUME NEW P, NEW at, NEW m, State(P, at, m), m = "fetch", UNCHANGED <<heap, depth, frame>>,
         NEW x, x \in P \cup Leaf \cup Temps(at), reg' = RegsWith([reg1 |-> x]),
         NEW v \in P \cup Leaf, v \in Leaf \cup {x} \/ (IsPair(x) /\ v = car[x]),
         pend' = [op |-> "push_clear", v |-> v]
  PROVE  Good
<1>1. PICK m2 : m2 = "push_clear"
  OBVIOUS
<1>2. /\ m2 \in Steps /\ m2 \notin Closing \cup {"save_cont", "graft_enter"}
      /\ pend'.op = m2 /\ pend'.v = v /\ ((m2 = "save_cont") <=> (m = "save_cont"))
      /\ m \notin Closing /\ Tied(m2) = {"env", "reg1"}
  BY <1>1 DEF Steps, Allocations, Closing, Tied
<1>3. /\ type' = type /\ car' = car /\ depth' = depth /\ frame' = frame
      /\ reg' = [r \in Register |-> reg'[r]] /\ reg'["env"] = reg["env"] /\ reg'["reg1"] = x
      /\ \A r \in Register \ {"env", "reg1"} : reg'[r] \in P \cup Leaf
  BY PlainState DEF RegsWith, Register, Closing, heap
<1>4. After(P, at, Running, 0, reg["env"])'
  <2>1. After(P, at, Running, 0, reg["env"])
    BY <1>2, StateFacts DEF Registers
  <2> QED
    BY <1>3, <2>1 DEF After, Height
<1>5. PendingKept'
  BY <1>2, <1>3 DEF PendingKept, IsPair
<1>6. Temps(at)' = Temps(at)
  BY <1>3 DEF Temps
<1>7. Registers(P, at, m2)'
  BY <1>2, <1>3, <1>4, <1>5, <1>6 DEF Registers
<1>8. Leaves(P, at, m2)
  <2>1. pend' = [op |-> pend'.op, v |-> pend'.v]
    OBVIOUS
  <2> QED
    BY <1>2, <1>3, <1>7, <2>1 DEF Leaves
<1> QED
  BY <1>2, <1>8, QuietStep

LEMMA PushStackStep ==
  ASSUME NEW P, NEW at, NEW m, State(P, at, m), PushStack
  PROVE  Good
<1>1. PICK n \in 0 .. N-1 :
        /\ m = "fetch" /\ UNCHANGED <<heap, depth, frame>> /\ InScope(n)
        /\ reg' = RegsWith([reg1 |-> Stack[n]])
        /\ pend' = [op |-> "push_clear",
                    v |-> IF Stack[n] = NIL THEN NIL ELSE car[Stack[n]]]
  BY StepIs DEF PushStack, Fetches, Fetch, ThenWith
<1>2. PICK x, v : x = Stack[n] /\ v = IF x = NIL THEN NIL ELSE car[x]
  OBVIOUS
<1>3. /\ x \in P \cup Leaf \cup Temps(at) /\ (x = NIL \/ IsPair(x))
      /\ IsPair(x) => car[x] \in P \cup Leaf
  <2>1. m \notin Closing
    BY <1>1 DEF Closing
  <2> QED
    BY <1>1, <1>2, <2>1, InScopeIs
<1>4. v \in P \cup Leaf /\ (v \in Leaf \cup {x} \/ (IsPair(x) /\ v = car[x]))
  BY <1>2, <1>3, OwnerFacts DEF IsPair
<1> QED
  BY <1>1, <1>2, <1>3, <1>4, ReadStep

LEMMA PushGlobalStep ==
  ASSUME NEW P, NEW at, NEW m, State(P, at, m), PushGlobal
  PROVE  Good
<1>1. PICK i, v :
        /\ i \in Globals
        /\ m = "fetch" /\ UNCHANGED <<heap, depth, frame>>
        /\ v \in {car[i \div 2], cdr[i \div 2]}
        /\ reg' = RegsWith([reg1 |-> v])
        /\ pend' = [op |-> "push_clear", v |-> v]
  BY StepIs DEF PushGlobal, Fetches, Fetch, ThenWith
<1>2. PICK g : g = i \div 2
  OBVIOUS
<1>3. g \in 0 .. Reserved-1
  BY <1>1, <1>2, CodeAssumption, SizesAssumption
<1>4. g \in P /\ type[g] = "CONS" /\ P \subseteq Cell
  BY <1>3, StateFacts DEF Shape, PublicOK
<1>5. v \in P \cup Leaf
  <2>1. IsPair(g)
    BY <1>4 DEF IsPair
  <2> QED
    BY <1>1, <1>2, <1>4, <2>1, PublicPair
<1> QED
  BY <1>1, <1>5, ReadStep

LEMMA PushedStep ==
  ASSUME NEW P, NEW at, NEW m, State(P, at, m), Push
  PROVE  Good
<1>1. PICK v : v = pend.v
  OBVIOUS
<1>2. /\ m = "push" /\ NewCell("CONS", v, reg["env"]) /\ depth' = depth + 1 /\ frame' = frame
      /\ reg' = RegsWith([env |-> free_cells])
      /\ pend' = [op |-> "fetch", v |-> NIL]
  BY <1>1, StepIs DEF Push, Then
<1>3. m \notin Closing /\ m # "save_cont" /\ v \in P \cup Leaf
  BY <1>1, <1>2, StateFacts DEF Closing, Registers
<1>4. /\ reg' = [r \in Register |-> reg'[r]] /\ reg'["env"] = free_cells
      /\ \A r \in Register \ {"env"} : reg'[r] \in P \cup Leaf
  BY <1>2, PlainState DEF RegsWith, Register, Closing
<1> QED
  BY <1>2, <1>3, <1>4, PushStep

LEMMA PushClearStep ==
  ASSUME NEW P, NEW at, NEW m, State(P, at, m), PushClear
  PROVE  Good
<1>1. PICK v : v = pend.v
  OBVIOUS
<1>2. /\ m = "push_clear" /\ NewCell("CONS", v, reg["env"]) /\ depth' = depth + 1 /\ frame' = frame
      /\ reg' = RegsWith([env |-> free_cells, reg1 |-> NIL])
      /\ pend' = [op |-> "fetch", v |-> NIL]
  BY <1>1, StepIs DEF PushClear, Then
<1>3. /\ m \notin Closing /\ m # "save_cont" /\ v \in P \cup Leaf
      /\ \A r \in Register \ {"env", "reg1"} : reg[r] \in P \cup Leaf
  BY <1>1, <1>2, StateFacts DEF Closing, Registers, Tied
<1>4. /\ reg' = [r \in Register |-> reg'[r]] /\ reg'["env"] = free_cells
      /\ \A r \in Register \ {"env"} : reg'[r] \in P \cup Leaf
  BY <1>2, <1>3, OwnerFacts DEF RegsWith, Register
<1> QED
  BY <1>2, <1>3, <1>4, PushStep

LEMMA GraftPushStep ==
  ASSUME NEW P, NEW at, NEW m, State(P, at, m), GraftPush
  PROVE  Good
<1>1. PICK v : v = reg["reg1"]
  OBVIOUS
<1>2. /\ m = "graft" /\ NewCell("CONS", v, reg["env"]) /\ depth' = depth + 1 /\ frame' = frame
      /\ reg' = RegsWith([env |-> free_cells])
      /\ pend' = [op |-> "graft_enter", v |-> NIL]
  BY <1>1, StepIs DEF GraftPush, Then
<1>3. /\ m \notin Closing /\ m # "save_cont" /\ v \in P \cup Leaf
      /\ \A r \in Register \ {"env"} : reg[r] \in P \cup Leaf
  BY <1>1, <1>2, PlainState DEF Closing, Register
<1>4. /\ reg' = [r \in Register |-> reg'[r]] /\ reg'["env"] = free_cells
      /\ \A r \in Register \ {"env"} : reg'[r] \in P \cup Leaf
  BY <1>2, <1>3 DEF RegsWith, Register
<1> QED
  BY <1>2, <1>3, <1>4, PushStep

LEMMA CloseStep ==
  ASSUME NEW P, NEW at, NEW m, State(P, at, m), Close
  PROVE  Good
<1>1. /\ m = "fetch" /\ UNCHANGED <<heap, depth, frame>> /\ depth > 0
      /\ reg' = RegsWith([reg2 |-> reg["env"], reg3 |-> TopValue, env |-> PoppedEnv])
      /\ pend' = [op |-> "closure", v |-> NIL]
  BY StepIs DEF Close, Fetches, Fetch, Then
<1>2. PICK m2, e, x, c : m2 = "closure" /\ e = PoppedEnv /\ x = TopValue /\ c = reg["env"]
  OBVIOUS
<1>3. /\ m2 \in Steps /\ m2 \in Closing /\ m2 \notin {"push_clear", "save_cont"}
      /\ pend'.op = m2 /\ pend'.v \in Leaf /\ ((m2 = "save_cont") <=> (m = "save_cont"))
      /\ m \notin Closing /\ Tied(m2) = {"env", "reg2"}
  BY <1>1, <1>2, OwnerFacts DEF Steps, Allocations, Closing, Tied
<1>4. /\ x \in P \cup Leaf /\ After(P, at, Running, 1, e) /\ After(P, at, Running, 0, c)
      /\ \A r \in Register \ {"env"} : reg[r] \in P \cup Leaf
  BY <1>1, <1>2, <1>3, TopIs, PlainState, StateFacts DEF Registers
<1>5. /\ depth' = depth /\ frame' = frame
      /\ reg' = [r \in Register |-> reg'[r]] /\ reg'["env"] = e /\ reg'["reg2"] = c
      /\ \A r \in Register \ {"env", "reg2"} : reg'[r] \in P \cup Leaf
  BY <1>1, <1>2, <1>4 DEF RegsWith, Register
<1>6. After(P, at, Running, 1, reg["env"])' /\ After(P, at, Running, 0, reg["reg2"])'
  BY <1>4, <1>5 DEF After, Height
<1>7. PendingKept'
  BY <1>3 DEF PendingKept
<1>8. Registers(P, at, m2)'
  BY <1>1, <1>3, <1>5, <1>6, <1>7 DEF Registers
<1>9. Leaves(P, at, m2)
  <2>1. pend' = [op |-> pend'.op, v |-> pend'.v]
    BY <1>1
  <2> QED
    BY <1>3, <1>5, <1>8, <2>1 DEF Leaves
<1> QED
  BY <1>1, <1>3, <1>9, QuietStep

LEMMA CallsStep ==
  ASSUME NEW P, NEW at, NEW m, State(P, at, m), Call \/ Jump
  PROVE  Good
<1>1. m = "fetch" /\ m \notin Closing \cup {"save_cont", "push_clear"} /\ m \notin Closing
  BY StepIs DEF Call, Jump, Fetches, Fetch, Closing
<1>2. PICK n, f : /\ n \in 0 .. MaxArgs /\ n <= depth /\ f = TopLevelFrame(n)
                  /\ CallFrame(f, n) \/ EnterFrame(f)
  BY DEF Call, Jump
<1>3. n \in 0 .. depth
  BY <1>2, StateFacts, CodeAssumption
<1>4. \E W : MakesFrame(f, P, at, n, W)
  BY <1>1, <1>2, <1>3, TopLevelFrameIs
<1>5. CASE CallFrame(f, n)
  BY <1>1, <1>3, <1>4, <1>5, CallStep
<1>6. CASE EnterFrame(f)
  BY <1>1, <1>3, <1>4, <1>6, EnterStep
<1> QED
  BY <1>2, <1>5, <1>6

LEMMA ClosureCallsStep ==
  ASSUME NEW P, NEW at, NEW m, State(P, at, m), CallClosure \/ JumpClosure
  PROVE  Good
<1>1. m = "fetch" /\ m \notin Closing \cup {"save_cont", "push_clear"} /\ m \notin Closing
  BY StepIs DEF CallClosure, JumpClosure, Fetches, Fetch, Closing
<1>2. CASE Fatal
  BY <1>2, FatalStep
<1>3. CASE \E n \in 0 .. MaxArgs : \E f \in ClosureFrames(n) :
             /\ n < depth /\ IsClosure(TopValue)
             /\ CallFrame(f, n + 1) \/ EnterFrame(f)
  <2>1. PICK n \in 0 .. MaxArgs : \E f \in ClosureFrames(n) :
               /\ n < depth /\ IsClosure(TopValue)
               /\ CallFrame(f, n + 1) \/ EnterFrame(f)
    BY <1>3
  <2>2. PICK f \in ClosureFrames(n) : /\ n < depth /\ IsClosure(TopValue)
                                      /\ CallFrame(f, n + 1) \/ EnterFrame(f)
    BY <2>1
  <2>3. n \in 0 .. depth - 1 /\ n + 1 \in 0 .. depth
    BY <2>2, StateFacts, CodeAssumption
  <2>4. PICK u : u = n + 1
    OBVIOUS
  <2>5. \E W : MakesFrame(f, P, at, n + 1, W)
    BY <1>1, <2>2, <2>3, ClosureFramesAre
  <2>6. \E W : MakesFrame(f, P, at, u, W)
    BY <2>4, <2>5
  <2>7. CASE CallFrame(f, n + 1)
    BY <1>1, <2>3, <2>4, <2>6, <2>7, CallStep
  <2>8. CASE EnterFrame(f)
    BY <1>1, <2>3, <2>4, <2>6, <2>8, EnterStep
  <2> QED
    BY <2>2, <2>7, <2>8
<1> QED
  BY <1>2, <1>3 DEF CallClosure, JumpClosure

LEMMA GraftEnterStep ==
  ASSUME NEW P, NEW at, NEW m, State(P, at, m), GraftEnter
  PROVE  Good
<1>1. /\ m = "graft_enter" /\ m \notin Closing \cup {"save_cont", "push_clear"}
      /\ m \notin Closing
  BY StepIs DEF GraftEnter, Closing
<1>2. depth > 0 /\ depth \in Nat
  BY <1>1, StateFacts DEF Registers
<1>3. CASE IsClosure(TopValue)
  <2>1. PICK n, u : n = 0 /\ u = 1
    OBVIOUS
  <2>2. n \in 0 .. depth - 1 /\ u \in 0 .. depth /\ n + 1 = u
    BY <1>2, <2>1
  <2>3. PICK f \in ClosureFrames(n) : EnterFrame(f)
    BY <1>3, <2>1 DEF GraftEnter
  <2>4. \E W : MakesFrame(f, P, at, n + 1, W)
    BY <1>1, <1>3, <2>2, <2>3, ClosureFramesAre
  <2>5. \E W : MakesFrame(f, P, at, u, W)
    BY <2>2, <2>4
  <2> QED
    BY <1>1, <2>2, <2>3, <2>5, EnterStep
<1> QED
  BY <1>3, FatalStep DEF GraftEnter

-----------------------------------------------------------------------------
(* The invariant.                                                          *)

LEMMA NextStep ==
  ASSUME OneShot, NEW P, NEW at, NEW m, State(P, at, m), Next
  PROVE  Good
<1>1. CASE PushConstant
  BY <1>1, PushConstantStep
<1>2. CASE PushStack
  BY <1>2, PushStackStep
<1>3. CASE PushGlobal
  BY <1>3, PushGlobalStep
<1>4. CASE StoreGlobal
  BY <1>4, StoreGlobalStep
<1>5. CASE Drop
  BY <1>5, DropStep
<1>6. CASE Push
  BY <1>6, PushedStep
<1>7. CASE PushClear
  BY <1>7, PushClearStep
<1>8. CASE Call \/ Jump
  BY <1>8, CallsStep
<1>9. CASE CallClosure \/ JumpClosure
  BY <1>9, ClosureCallsStep
<1>10. CASE SaveClosure
  BY <1>10, SaveClosureStep, StepIs DEF SaveClosure
<1>11. CASE SaveCont
  BY <1>11, SaveContStep, StepIs DEF SaveCont
<1>12. CASE Close
  BY <1>12, CloseStep
<1>13. CASE NewClosure
  BY <1>13, NewClosureStep, StepIs DEF NewClosure
<1>14. CASE StoreClosure
  BY <1>14, StoreClosureStep, StepIs DEF StoreClosure
<1>15. CASE Select
  BY <1>15, SelectStep
<1>16. CASE Test
  BY <1>16, TestStep
<1>17. CASE PopSecond
  BY <1>17, PopSecondStep
<1>18. CASE Cons
  BY <1>18, ConsStep
<1>19. CASE Compute
  BY <1>19, ComputeStep
<1>20. CASE NewPair
  BY <1>20, NewPairStep, StepIs DEF NewPair
<1>21. CASE SetField
  BY <1>21, SetFieldStep
<1>22. CASE Return
  BY <1>22, ReturnStep
<1>23. CASE ReturnToCont
  BY <1>23, ReturnToContStep
<1>24. CASE GetCont
  BY <1>24, GetContStep
<1>25. CASE GraftToCont
  BY <1>25, GraftToContStep
<1>26. CASE GraftPush
  BY <1>26, GraftPushStep
<1>27. CASE GraftEnter
  BY <1>27, GraftEnterStep
<1>28. CASE Gc
  BY <1>28, GcStep
<1> QED
  BY <1>1, <1>2, <1>3, <1>4, <1>5, <1>6, <1>7, <1>8, <1>9, <1>10, <1>11, <1>12, <1>13, <1>14,
     <1>15, <1>16, <1>17, <1>18, <1>19, <1>20, <1>21, <1>22, <1>23, <1>24, <1>25, <1>26, <1>27,
     <1>28 DEF Next

LEMMA StutterStep ==
  ASSUME NEW P, NEW at, NEW m, State(P, at, m), UNCHANGED vars
  PROVE  Good
<1>1. /\ pend' = pend /\ reg' = reg /\ depth' = depth /\ type' = type /\ car' = car
      /\ UNCHANGED <<heap, depth, frame>>
  BY DEF vars, heap
<1>2. /\ Registers(P, at, m) /\ m \in Steps /\ Types /\ (pend.op # "stopped" => m = pend.op)
  BY StateFacts DEF State, Fits
<1>3. Registers(P, at, m)'
  <2>1. PendingKept'
    BY <1>1, <1>2 DEF PendingKept, IsPair, Registers
  <2>2. Height(Running)' = Height(Running) /\ Temps(at)' = Temps(at)
    BY <1>1 DEF Height, Temps
  <2>3. \A i, v : After(P, at, Running, i, v) => After(P, at, Running, i, v)'
    BY <2>2 DEF After
  <2> QED
    BY <1>1, <1>2, <2>1, <2>2, <2>3 DEF Registers
<1>4. /\ reg' = [r \in Register |-> reg'[r]]
      /\ pend'.op \in Steps /\ pend' = [op |-> pend'.op, v |-> pend'.v]
  BY <1>1, <1>2 DEF Types, HTypeOK
<1>5. Leaves(P, at, m)
  BY <1>1, <1>2, <1>3, <1>4 DEF Leaves
<1> QED
  BY <1>1, <1>5, QuietStep

\* At first only the globals are live, and no frame has anything.
LEMMA InitFits == Init => VInv
<1> SUFFICES ASSUME Init PROVE VInv
  OBVIOUS
<1>1. HInv /\ HInit
  BY InitEstablishes DEF Init
<1>2. /\ pend = [op |-> "fetch", v |-> NIL] /\ depth = 0 /\ frame = [c \in Cell |-> << >>]
      /\ stale = {} /\ reg = [r \in Register |-> NIL]
      /\ \A c \in Cell : type[c] = "CONS"
      /\ \A c \in 0 .. Reserved-1 : c \in Cell /\ car[c] = NIL /\ cdr[c] = NIL
  <2>1. \A c \in 0 .. Reserved-1 : c \in Cell /\ c \notin Reserved .. N-1
    BY SizesAssumption DEF Cell
  <2> QED
    BY <1>1, <2>1 DEF Init, HInit
<1>3. Types
  <2>1. "fetch" \in Steps /\ NIL \in Value /\ 0 \in Nat
    BY OwnerFacts DEF Steps
  <2>2. << >> \in Seq(Value)
    OBVIOUS
  <2> QED
    BY <1>1, <1>2, <2>1, <2>2 DEF Types, HInv
<1>4. PICK P, at, m : /\ P = 0 .. Reserved-1 /\ m = "fetch"
                      /\ at = [o \in Owner |-> [i \in Nat |-> 0]]
  OBVIOUS
<1>5. P \in SUBSET Cell /\ at \in Places /\ m \in Steps /\ m # "save_cont" /\ m = pend.op
  BY <1>2, <1>4, OwnerFacts DEF Places, Steps, Cell
<1>6. Frames(P) = {}
  BY <1>2, <1>5 DEF Frames
<1>7. \A o, i : ~Slot(P, m, o, i)
  BY <1>2, <1>5, <1>6 DEF Slot, Height
<1>8. PublicOK(P)
  BY <1>2, <1>4, OwnerFacts DEF PublicOK
<1>9. Shape(P, at, m)
  BY <1>6, <1>7, <1>8 DEF Shape, Apart
<1>10. Registers(P, at, m)
  <2>1. PendingKept
    BY <1>2, OwnerFacts DEF PendingKept
  <2>2. m \notin Closing /\ m # "push_clear" /\ m # "graft_enter" /\ m # "save_cont"
    BY <1>4 DEF Closing
  <2>3. \A r \in Register : reg[r] \in Leaf
    BY <1>2, OwnerFacts
  <2>4. After(P, at, Running, 0, reg["env"])
    BY <1>2, <2>3 DEF After, Height, Register
  <2> QED
    BY <1>2, <2>1, <2>2, <2>3, <2>4, OwnerFacts DEF Registers
<1>11. Fits(P, at, m)
  BY <1>5, <1>9, <1>10 DEF Fits
<1> QED
  BY <1>1, <1>3, <1>11 DEF VInv

\* The frames and public cells of a state, the public cells being the live ones.
LEMMA InvState ==
  ASSUME VInv
  PROVE  \E P, at, m : State(P, at, m)
<1>1. PICK P, at, m : Fits(P, at, m)
  BY DEF VInv
<1>2. Types /\ HInv
  BY DEF VInv
<1>3. State(P \cap Live, at, m)
  BY <1>1, <1>2, PublicIsLive DEF State
<1> QED
  BY <1>3

LEMMA StepKeeps == OneShot /\ VInv /\ [Next]_vars => VInv' /\ [HNext]_hvars
<1> SUFFICES ASSUME OneShot, VInv, [Next]_vars PROVE VInv' /\ [HNext]_hvars
  OBVIOUS
<1>1. PICK P, at, m : State(P, at, m)
  BY InvState
<1>2. Good
  BY <1>1, NextStep, StutterStep
<1>3. HInv'
  BY <1>2, NextKeeps DEF Good, VInv
<1> QED
  BY <1>2, <1>3 DEF Good, VInv, Fitted

-----------------------------------------------------------------------------
(* What the instructions guarantee.                                        *)

LEMMA InvAlways == ASSUME OneShot PROVE Spec => []VInv /\ [][HNext]_hvars
<1>1. VInv /\ [Next]_vars => VInv' /\ [HNext]_hvars
  BY StepKeeps
<1> QED
  BY <1>1, InitFits, PTL DEF Spec

(***************************************************************************)
(* Every instruction keeps the golden rules of vm_arch.h:653-675: what it  *)
(* allocates, links, moves and pops is a step of the contract, for a heap  *)
(* of any size, any number of arguments and any program that resumes no    *)
(* continuation twice.                                                     *)
(***************************************************************************)
THEOREM VMKeepsContract == ASSUME OneShot PROVE Spec => HSpec
<1>1. Init => HInit
  BY DEF Init
<1> QED
  BY <1>1, InvAlways, PTL DEF Spec, HSpec

(***************************************************************************)
(* pop() and the collector never put on the free list a cell that the      *)
(* program can still reach, so no allocation overwrites one.               *)
(***************************************************************************)
THEOREM VMLiveNotFree == ASSUME OneShot PROVE Spec => []LiveNotFree
<1>1. VInv => LiveNotFree
  BY DEF VInv, HInv
<1> QED
  BY <1>1, InvAlways, PTL

(***************************************************************************)
(* pop(), which puts a cell on the free list without asking where it comes *)
(* from, never frees a global and never makes the list loop.               *)
(***************************************************************************)
THEOREM VMFreeListSound == ASSUME OneShot PROVE Spec => []FreeListSound
<1>1. VInv => FreeListSound
  BY InvImpliesSound DEF VInv
<1> QED
  BY <1>1, InvAlways, PTL

(***************************************************************************)
(* Every register, field and pending value is a cell, an immediate or NIL, *)
(* and no frame has more temporaries than there are cells.                 *)
(***************************************************************************)
THEOREM VMTypeOK == ASSUME OneShot PROVE Spec => []TypeOK
<1>1. VInv => TypeOK
  <2> SUFFICES ASSUME VInv PROVE TypeOK
    OBVIOUS
  <2>1. PICK P, at, m : State(P, at, m)
    BY InvState
  <2>2. depth \in 0 .. N
    BY <2>1, HeightBound, StateFacts
  <2> QED
    BY <2>2 DEF VInv, Types, TypeOK
<1> QED
  BY <1>1, InvAlways, PTL

LEMMA FramesAreIntact == VInv => FramesIntact
<1> SUFFICES ASSUME VInv, NEW k \in Suspended
             PROVE  Values(car[cdr[k]], Len(frame[k])) = frame[k]
  BY DEF FramesIntact
<1>1. PICK P, at, m : State(P, at, m)
  BY InvState
<1>2. /\ P \in SUBSET Cell /\ at \in Places /\ Types /\ Shape(P, at, m)
      /\ Live = P \cup Own(P, at, m)
  BY <1>1, StateFacts DEF State
<1>3. k \in Live /\ k \in Cell /\ type[k] = "CONTINUATION" /\ k \notin stale
  BY DEF Suspended, IsContinuation
<1>4. k \in P
  <2> SUFFICES ASSUME k \in Own(P, at, m) PROVE FALSE
    BY <1>2, <1>3
  <2>1. PICK o \in Owner, i \in Nat : Slot(P, m, o, i) /\ k = at[o][i]
    BY DEF Own
  <2>2. CASE i = 0
    BY <1>2, <1>3, <2>1, <2>2 DEF Shape, ClosureOK
  <2>3. CASE i > 0
    BY <1>2, <1>3, <2>1, <2>3 DEF Shape, TempOK
  <2> QED
    BY <2>2, <2>3
<1>5. k \in Frames(P) /\ k \in Owner /\ k # Running
  BY <1>3, <1>4, OwnerFacts DEF Frames
<1>6. /\ Height(k) = Len(frame[k]) /\ Height(k) \in Nat /\ frame[k] \in Seq(Value)
  BY <1>2, <1>3, HeightIs DEF Types
<1>7. PutAside(at, k) /\ ClosureOK(P, at, k)
  <2>1. Slot(P, m, k, 0)
    BY <1>5, <1>6 DEF Slot
  <2> QED
    BY <1>2, <1>5, <2>1 DEF Shape
<1>8. PICK v, n : v = car[cdr[k]] /\ n = Len(frame[k])
  OBVIOUS
<1>9. After(P, at, k, 0, v) /\ n \in 0 .. Height(k) /\ k \in Frames(P) \cup {Running}
  BY <1>5, <1>6, <1>7, <1>8 DEF PutAside, ClosureOK
<1>10. Values(v, n) = [i \in 1 .. n |-> car[at[k][i]]]
  BY <1>1, <1>9, ValuesOfFrame
<1>11. frame[k] = [i \in 1 .. n |-> frame[k][i]]
  BY <1>6, <1>8
<1>12. \A i \in 1 .. n : car[at[k][i]] = frame[k][i]
  BY <1>6, <1>7, <1>8 DEF PutAside
<1> QED
  BY <1>8, <1>10, <1>11, <1>12

(***************************************************************************)
(* A frame that a call put aside has, when it is resumed, the temporaries  *)
(* it had: whatever the callee popped, relinked and collected.             *)
(***************************************************************************)
THEOREM VMFramesIntact == ASSUME OneShot PROVE Spec => []FramesIntact
  BY FramesAreIntact, InvAlways, PTL

\* Who leads to a temporary of the running frame.
LEMMA OnlyLink ==
  ASSUME NEW P, NEW at, NEW m, State(P, at, m), m = "fetch",
         NEW i \in 1 .. depth, NEW c \in Live \ stale,
         \/ HasLeftLink(type[c]) /\ car[c] = at[Running][i]
         \/ HasRightLink(type[c]) /\ cdr[c] = at[Running][i]
  PROVE  i > 1 /\ c = at[Running][i-1]
<1>1. /\ P \in SUBSET Cell /\ at \in Places /\ Types /\ Shape(P, at, m)
      /\ Live = P \cup Own(P, at, m) /\ depth \in Nat /\ Height(Running) = depth
  BY StateFacts DEF State
<1>2. PICK t : t = at[Running][i]
  OBVIOUS
<1>3. /\ i \in Nat /\ Slot(P, m, Running, i) /\ t \in Cell /\ t \notin P /\ Running \in Owner
      /\ t \notin P \cup Leaf
  BY <1>2, TemporaryIs, OwnerFacts
<1>4. \A o \in Owner, j \in Nat : Slot(P, m, o, j) /\ at[o][j] = t => o = Running /\ i = j
  BY <1>1, <1>2, <1>3 DEF Shape, Apart
<1>5. c \notin P
  <2> SUFFICES ASSUME c \in P PROVE FALSE
    OBVIOUS
  <2>1. PublicOK(P)
    BY <1>1 DEF Shape
  <2>2. HasRightLink(type[c]) /\ cdr[c] = t
    BY <1>2, <1>3, <2>1 DEF PublicOK
  <2>3. type[c] = "CONTINUATION"
    BY <1>3, <2>1, <2>2 DEF PublicOK, HasRightLink
  <2>4. c \in Frames(P) /\ c \in Owner /\ c # Running
    BY <1>1, <2>3, OwnerFacts DEF Frames
  <2>5. cdr[c] = at[c][0]
    BY <1>1, <2>4 DEF Shape, PutAside
  <2>6. Slot(P, m, c, 0)
    BY <1>1, <2>4, HeightIs DEF Slot
  <2> QED
    BY <1>4, <2>2, <2>4, <2>5, <2>6
<1>6. PICK o \in Owner, j \in Nat : Slot(P, m, o, j) /\ c = at[o][j]
  BY <1>1, <1>5 DEF Own
<1>7. ASSUME NEW v, v = t, After(P, at, o, j, v)
      PROVE  o = Running /\ i = j + 1
  <2>1. j < Height(o) /\ at[o][j+1] = t
    BY <1>3, <1>7 DEF After
  <2>2. Slot(P, m, o, j+1) /\ j + 1 \in Nat
    <3>1. Height(o) \in Nat
      BY <1>1, <1>6, SlotIsNat
    <3>2. j + 1 \in 0 .. Height(o) /\ j + 1 \in Nat /\ j + 1 # 0
      BY <2>1, <3>1
    <3> QED
      BY <1>6, <3>2 DEF Slot
  <2> QED
    BY <1>4, <2>1, <2>2
<1>8. j > 0
  <2> SUFFICES ASSUME j = 0 PROVE FALSE
    OBVIOUS
  <2>1. ClosureOK(P, at, o) /\ o # Running
    BY <1>1, <1>6 DEF Shape, Slot
  <2>2. type[c] = "CLOSURE" /\ After(P, at, o, 0, car[c])
    BY <1>6, <2>1 DEF ClosureOK
  <2>3. car[c] = t
    BY <1>2, <2>2 DEF HasLeftLink, HasRightLink
  <2> QED
    BY <1>7, <2>1, <2>2, <2>3
<1>9. TempOK(P, at, o, j)
  BY <1>1, <1>6, <1>8 DEF Shape
<1>10. cdr[c] = t /\ After(P, at, o, j, cdr[c])
  BY <1>2, <1>3, <1>6, <1>9 DEF TempOK
<1>11. o = Running /\ i = j + 1
  BY <1>7, <1>10
<1> QED
  BY <1>6, <1>8, <1>11

LEMMA TemporariesArePrivate == VInv => TemporariesPrivate
<1> SUFFICES ASSUME VInv, Fetch, NEW i \in 0 .. depth - 1
             PROVE  /\ {r \in Register : reg[r] = Stack[i]} = IF i = 0 THEN {"env"} ELSE {}
                    /\ {e[1] : e \in {e \in LiveEdges : e[1] \in Live /\ e[2] = Stack[i]}}
                         = IF i = 0 THEN {} ELSE {Stack[i-1]}
  BY DEF TemporariesPrivate
<1>1. PICK P, at, m : State(P, at, m)
  BY InvState
<1>2. /\ P \in SUBSET Cell /\ Types /\ depth \in Nat
      /\ m = "fetch" /\ m \notin Closing \cup {"push_clear", "save_cont"} /\ m \notin Closing
  BY <1>1, StateFacts, StepIs DEF Fetch, Closing
<1>3. PICK j, t, S : j = i + 1 /\ t = at[Running][j] /\ S = Stack
  OBVIOUS
<1>4. j \in 1 .. depth /\ 1 \in 1 .. depth /\ j - 1 = i /\ i \in Nat
  BY <1>2, <1>3
<1>5. \A l \in 0 .. depth - 1 : S[l] = at[Running][l+1]
  BY <1>1, <1>2, <1>3, StackIs
<1>6. S[i] = t /\ t \in Cell /\ t \notin P /\ t \notin P \cup Leaf
      /\ \A l \in 1 .. depth : t = at[Running][l] => j = l
  BY <1>1, <1>3, <1>4, <1>5, TemporaryIs, OwnerFacts
<1>7. \A r \in Register : reg[r] = t <=> r = "env" /\ i = 0
  <2>1. \A r \in Register \ {"env"} : reg[r] # t
    BY <1>1, <1>2, <1>6, PlainState
  <2>2. reg["env"] = at[Running][1]
    BY <1>1, <1>2, <1>4, TopIs
  <2>3. reg["env"] = t <=> j = 1
    BY <1>3, <1>4, <1>6, <2>2
  <2>4. j = 1 <=> i = 0
    BY <1>3, <1>4
  <2> QED
    BY <2>1, <2>3, <2>4 DEF Register
<1>8. {r \in Register : reg[r] = t} = IF i = 0 THEN {"env"} ELSE {}
  BY <1>7 DEF Register
<1> DEFINE E == {e[1] : e \in {e \in LiveEdges : e[1] \in Live /\ e[2] = t}}
<1>9. ASSUME NEW c \in E PROVE i # 0 /\ c = S[i-1]
  <2>1. PICK e \in LiveEdges : e[1] \in Live /\ e[2] = t /\ c = e[1]
    OBVIOUS
  <2>2. /\ c \in Live \ stale
        /\ \/ HasLeftLink(type[c]) /\ car[c] = t
           \/ HasRightLink(type[c]) /\ cdr[c] = t
    BY <2>1 DEF LiveEdges, Edges, Links
  <2>3. j > 1 /\ c = at[Running][j-1]
    BY <1>1, <1>2, <1>3, <1>4, <2>2, OnlyLink
  <2>4. i - 1 \in 0 .. depth - 1 /\ (i - 1) + 1 = j - 1 /\ i # 0
    BY <1>2, <1>3, <1>4, <2>3
  <2> QED
    BY <1>5, <2>3, <2>4
<1>10. ASSUME i # 0 PROVE S[i-1] \in E
  <2>1. /\ i - 1 \in 0 .. depth - 1 /\ (i - 1) + 1 = i /\ i \in 1 .. depth /\ i < depth
    BY <1>2, <1>4, <1>10
  <2>2. PICK c : c = at[Running][i]
    OBVIOUS
  <2>3. S[i-1] = c
    BY <1>5, <2>1, <2>2
  <2>4. /\ c \in Cell /\ c \in Live /\ type[c] = "CONS" /\ c \notin stale
        /\ After(P, at, Running, i, cdr[c])
    BY <1>1, <2>1, <2>2, TemporaryIs
  <2>5. cdr[c] = t
    <3>1. Height(Running) = depth
      BY <1>1, StateFacts
    <3> QED
      BY <1>3, <2>1, <2>4, <3>1 DEF After
  <2>6. <<c, t>> \in LiveEdges
    BY <1>6, <2>4, <2>5 DEF LiveEdges, Edges, Links, HasRightLink
  <2> QED
    BY <2>3, <2>4, <2>6
<1>11. E = IF i = 0 THEN {} ELSE {S[i-1]}
  <2> HIDE DEF E
  <2> QED
    BY <1>9, <1>10
<1> QED
  BY <1>3, <1>6, <1>8, <1>11

(***************************************************************************)
(* Between two instructions nothing but the stack itself leads to a        *)
(* temporary of the running frame: this is what allows pop() to free its   *)
(* cell at once, without a collection.                                     *)
(***************************************************************************)
THEOREM VMTemporariesPrivate == ASSUME OneShot PROVE Spec => []TemporariesPrivate
  BY TemporariesArePrivate, InvAlways, PTL

LEMMA PopIsOk == VInv => PopOk
<1> SUFFICES ASSUME VInv, Fetch, depth > 0
             PROVE  {reg["env"], TopValue} \cap OnFreeList = {}
  BY DEF PopOk
<1>1. PICK P, at, m : State(P, at, m)
  BY InvState
<1>2. m \notin Closing /\ P \subseteq Live
  BY <1>1, StepIs, StateFacts DEF Fetch, Closing
<1>3. reg["env"] \in Live /\ TopValue \in Live \cup Leaf
  BY <1>1, <1>2, TopIs, TemporaryIs
<1>4. OnFreeList \in SUBSET Cell /\ Live \cap OnFreeList = {}
  BY OnFreeListClosed DEF VInv, HInv, LiveNotFree
<1> QED
  BY <1>3, <1>4, OwnerFacts

(***************************************************************************)
(* What pop() asserts of the cell it frees and of the value in it holds    *)
(* unless a continuation is resumed twice, which the run vm_reentry needs  *)
(* to break it.                                                            *)
(***************************************************************************)
THEOREM VMPopOk == ASSUME OneShot PROVE Spec => []PopOk
  BY PopIsOk, InvAlways, PTL

=============================================================================
