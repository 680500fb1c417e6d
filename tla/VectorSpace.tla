---------------------------- MODULE VectorSpace ----------------------------
(***************************************************************************)
(* The vector space of src/main/mm.c: the array in which the bytes of the  *)
(* u8vectors lie, one block per vector, its header in front of its data.   *)
(* A block is allocated at the end of the used part.  When no room is left *)
(* there, the garbage is collected and mm_compact_vector_space moves the   *)
(* blocks in use down, one block per step here.                            *)
(*                                                                         *)
(* A vector also has a cell in the RAM heap, which leads to its block; the *)
(* header of the block leads back.  Header and data are cells of the same  *)
(* format, and the compaction tells them apart by walking from header to   *)
(* header.  A cell is three bytes here, one for each field of a header.    *)
(***************************************************************************)
EXTENDS Naturals, FiniteSets, Sequences

CONSTANTS
  V,         \* vector_heap_size
  Object,    \* the cells of the RAM heap that are used for vectors
  Nothing,   \* NIL
  Lengths,   \* the lengths of the vectors that the program makes
  Bytes,     \* the bytes it stores in them
  MaxHeld    \* how many vectors it holds at a time

ASSUME VectorAssumption ==
  /\ V \in Nat \ {0} /\ MaxHeld \in Nat
  /\ Lengths \subseteq Nat /\ Bytes \subseteq Nat
  /\ Nothing \notin Object \cup (0 .. V-1)

VARIABLES
  isVector,           \* the objects of type VECTOR
  start, length,      \* of each object: vector.start_p, vector.length
  vector_heap,        \* the cells of the vector space
  vector_free_cells,  \* the first cell that was never used, or is free again
  held,               \* the vectors that the program can reach
  pc,                 \* where new_vector is
  want, reg4,         \* its argument, and the object it has allocated
  cur, prev           \* the locals of mm_compact_vector_space

vars == <<isVector, start, length, vector_heap, vector_free_cells, held, pc,
          want, reg4, cur, prev>>

CellBytes == 3
Address   == 0 .. V-1

\* The fields of a header, as bytes of the cell: start_p, length, gc_mark.
Header(object, size, used) == <<object, size, used>>
Size(h, c) == h[c][2]
Used(h, c) == h[c][3] = 1
SetFree(h, c) == [h EXCEPT ![c][3] = 0]

\* VECTOR_GET_BYTE and VECTOR_SET_BYTE, i counting from the cell s.
GetByte(h, s, i) == h[s + (i \div CellBytes)][(i % CellBytes) + 1]
WithByte(h, s, i, b) == [h EXCEPT ![s + (i \div CellBytes)][(i % CellBytes) + 1] = b]

\* Mutant: the header has no cell of its own.
BlockSizeNoHeader(l) == (l + CellBytes - 1) \div CellBytes

\* The cells of a vector of l bytes and of its header.
BlockSize(l) == ((l + CellBytes - 1) \div CellBytes) + 1

HasRoom(l) == V - vector_free_cells >= BlockSize(l)

Blocks(o) == start[o]-1 .. start[o] + BlockSize(length[o]) - 2

-----------------------------------------------------------------------------
Init ==
  /\ isVector = {}
  /\ start = [o \in Object |-> 0] /\ length = [o \in Object |-> 0]
  /\ vector_heap = [c \in Address |-> Header(0, 0, 0)]
  /\ vector_free_cells = 0
  /\ held = {}
  /\ pc = "run"
  /\ want = 0 /\ reg4 = Nothing
  /\ cur = 0 /\ prev = Nothing

allocator == <<isVector, start, length, vector_heap, vector_free_cells>>
locals    == <<cur, prev>>

\* u8vector-set! with a valid index.
SetByte ==
  /\ pc = "run"
  /\ \E v \in held, b \in Bytes : \E i \in 0 .. length[v]-1 :
       vector_heap' = WithByte(vector_heap, start[v], i, b)
  /\ UNCHANGED <<isVector, start, length, vector_free_cells, held, pc, want, reg4, locals>>

\* The program loses its last reference to a vector.
Forget ==
  /\ pc = "run"
  /\ \E v \in held : held' = held \ {v}
  /\ UNCHANGED <<allocator, pc, want, reg4, locals>>

\* #%make-u8vector is called.
MakeVector ==
  /\ pc = "run" /\ Cardinality(held) < MaxHeld
  /\ want' \in Lengths
  /\ pc' = "new_cell"
  /\ UNCHANGED <<allocator, held, reg4, locals>>

-----------------------------------------------------------------------------
\* mm_sweep: the vectors that nothing reaches are pairs again, their blocks
\* are free.
Garbage == isVector \ (held \cup {reg4})

\* Mutant: a vector under construction is not kept.
CollectLosingReg4 ==
  /\ isVector' = isVector \cap held
  /\ vector_heap' = [c \in Address |->
       IF c \in {start[o]-1 : o \in isVector \ held} THEN SetFree(vector_heap, c)[c]
       ELSE vector_heap[c]]

Collect ==
  /\ isVector' = isVector \ Garbage
  /\ vector_heap' = [c \in Address |->
       IF c \in {start[o]-1 : o \in Garbage} THEN SetFree(vector_heap, c)[c]
       ELSE vector_heap[c]]

\* reg4 = mm_new_ram_cell(), its type set to VECTOR: the free list has a cell,
\* or a collection is needed to make one.
NewObject ==
  /\ pc = "new_cell" /\ isVector # Object
  /\ reg4' \in Object \ isVector
  /\ isVector' = isVector \cup {reg4'}
  /\ pc' = "new_block"
  /\ UNCHANGED <<start, length, vector_heap, vector_free_cells, held, want, locals>>

CollectForObject ==
  /\ pc = "new_cell" /\ isVector = Object
  /\ Collect
  /\ pc' = IF isVector' = Object THEN "stopped" ELSE pc
  /\ UNCHANGED <<start, length, vector_free_cells, held, want, reg4, locals>>

\* mm_new_vector_cell finds room, before or after a compaction; new_vector
\* completes the object.
NewBlock ==
  /\ pc \in {"new_block", "compacted"} /\ HasRoom(want)
  /\ vector_heap' = [vector_heap EXCEPT ![vector_free_cells] = Header(reg4, BlockSize(want), 1)]
  /\ vector_free_cells' = vector_free_cells + BlockSize(want)
  /\ start' = [start EXCEPT ![reg4] = vector_free_cells + 1]
  /\ length' = [length EXCEPT ![reg4] = want]
  /\ held' = held \cup {reg4}
  /\ reg4' = Nothing
  /\ pc' = "run"
  /\ want' = 0
  /\ UNCHANGED <<isVector, locals>>

NoRoom ==
  /\ pc = "new_block" /\ ~HasRoom(want)
  /\ Collect
  /\ cur' = 0 /\ prev' = Nothing
  /\ pc' = "compact"
  /\ UNCHANGED <<start, length, vector_free_cells, held, want, reg4>>

-----------------------------------------------------------------------------
(* mm_compact_vector_space: one round of its loop, by what it finds.       *)

AtBlock == pc = "compact" /\ cur < vector_free_cells
CurSize == Size(vector_heap, cur)
PrevIsFree == prev # Nothing /\ ~Used(vector_heap, prev)

\* Mutant: of two free blocks in a row only the second is remembered.
MergeFreeForgetting ==
  /\ AtBlock /\ CurSize # 0 /\ PrevIsFree /\ ~Used(vector_heap, cur)
  /\ prev' = cur
  /\ cur' = cur + CurSize
  /\ UNCHANGED <<allocator, held, pc, want, reg4>>

MergeFree ==
  /\ AtBlock /\ CurSize # 0 /\ PrevIsFree /\ ~Used(vector_heap, cur)
  /\ cur' = cur + CurSize
  /\ UNCHANGED <<allocator, held, pc, want, reg4, prev>>

\* memcpy of n cells, and what it may do when the two areas overlap: the
\* order in which the cells are copied is not defined.
Forward(to, from, n) ==
  [c \in Address |-> IF c \in to .. to+n-1 THEN vector_heap[from + c - to] ELSE vector_heap[c]]
Backward(to, from, n) ==
  LET last(c) == CHOOSE d \in from .. from+n-1 : d % (from-to) = c % (from-to) /\ d + (from-to) > from+n-1
  IN  [c \in Address |-> IF c \in to .. to+n-1 THEN vector_heap[last(c)] ELSE vector_heap[c]]

\* Mutant: the object is not told where its vector has gone.
MoveBlockSilently ==
  /\ AtBlock /\ CurSize # 0 /\ PrevIsFree /\ Used(vector_heap, cur)
  /\ vector_heap' = SetFree(Forward(prev, cur, CurSize), cur)
  /\ prev' = prev + CurSize
  /\ cur' = cur + CurSize
  /\ UNCHANGED <<isVector, start, length, vector_free_cells, held, pc, want, reg4>>

MoveBlock ==
  /\ AtBlock /\ CurSize # 0 /\ PrevIsFree /\ Used(vector_heap, cur)
  /\ start' = [start EXCEPT ![vector_heap[cur][1]] = prev + 1]
  /\ \E h \in {Forward(prev, cur, CurSize), Backward(prev, cur, CurSize)} :
       vector_heap' = SetFree(h, cur)
  /\ prev' = prev + CurSize
  /\ cur' = cur + CurSize
  /\ UNCHANGED <<isVector, length, vector_free_cells, held, pc, want, reg4>>

\* Mutant: a block that stays where it is has no end.
NextBlockStuck ==
  /\ AtBlock /\ CurSize # 0 /\ ~PrevIsFree
  /\ prev' = cur
  /\ UNCHANGED <<allocator, held, pc, want, reg4, cur>>

NextBlock ==
  /\ AtBlock /\ CurSize # 0 /\ ~PrevIsFree
  /\ prev' = cur
  /\ cur' = cur + CurSize
  /\ UNCHANGED <<allocator, held, pc, want, reg4>>

\* The loop has passed the last block, or met one of no size, which is FATAL.
\* mm_new_vector_cell then looks again whether there is room: FATAL if not.
EndCompaction ==
  /\ pc = "compact" /\ (AtBlock => CurSize = 0)
  /\ vector_free_cells' = IF AtBlock THEN vector_free_cells
                          ELSE IF prev = Nothing THEN 0 ELSE prev
  /\ pc' = IF AtBlock \/ V - vector_free_cells' < BlockSize(want)
           THEN "stopped" ELSE "compacted"
  /\ cur' = 0 /\ prev' = Nothing
  /\ UNCHANGED <<isVector, start, length, vector_heap, held, want, reg4>>

Compact == MergeFree \/ MoveBlock \/ NextBlock \/ EndCompaction

NewVector == NewObject \/ CollectForObject \/ NewBlock \/ NoRoom \/ Compact

Next == SetByte \/ Forget \/ MakeVector \/ NewVector

\* new_vector runs in the interpreter's thread and is never interrupted.
Spec == Init /\ [][Next]_vars /\ WF_vars(NewVector)

-----------------------------------------------------------------------------
\* What the program holds and what new_vector has in reg4 stays a vector, and
\* the walk of the compaction stays in the vector space.
TypeOK ==
  /\ isVector \subseteq Object /\ held \subseteq isVector
  /\ start \in [Object -> 0 .. V] /\ length \in [Object -> {0} \cup Lengths]
  /\ DOMAIN vector_heap = Address
  /\ vector_free_cells \in 0 .. V
  /\ pc \in {"run", "new_cell", "new_block", "compact", "compacted", "stopped"}
  /\ want \in {0} \cup Lengths
  /\ reg4 \in Object \cup {Nothing}
  /\ cur \in 0 .. V /\ prev \in Address \cup {Nothing}

(***************************************************************************)
(* Between two calls every vector that the program holds has a block of    *)
(* its own, in the used part of the space, and the header in front of its  *)
(* data gives its size and leads back to it.                               *)
(***************************************************************************)
BlocksSound ==
  pc = "run" =>
    \A v \in held :
      /\ Blocks(v) \subseteq 0 .. vector_free_cells-1
      /\ vector_heap[start[v]-1] = Header(v, BlockSize(length[v]), 1)
      /\ \A w \in held \ {v} : Blocks(v) \cap Blocks(w) = {}

(***************************************************************************)
(* A vector keeps its bytes: allocation, collection and compaction change  *)
(* none of them, at none of their steps.                                   *)
(***************************************************************************)
Content(v) == [i \in 0 .. length[v]-1 |-> GetByte(vector_heap, start[v], i)]

Contents == [v \in held |-> Content(v)]

Store == INSTANCE ByteVectors WITH
  Vector   <- Object,
  Length   <- Lengths,
  Byte     <- Bytes,
  contents <- Contents

KeepsContents == Store!Spec

(***************************************************************************)
(* A compaction meets no block of size 0, and gives back every cell that   *)
(* no vector of the program lies in: new_vector stops the program for want *)
(* of room only when the vectors that it holds leave none.                 *)
(***************************************************************************)
SpaceReclaimed ==
  [][EndCompaction =>
       /\ ~AtBlock
       /\ \A c \in 0 .. vector_free_cells'-1 : \E v \in held : c \in Blocks(v)]_vars

\* new_vector comes to an end: the walk over the blocks does not go round.
NewVectorReturns == pc = "new_cell" ~> pc \in {"run", "stopped"}

(***************************************************************************)
(* "All allocated spaces are pushed to the start of the vector heap"       *)
(* (mm.c:305), "free space is now all at the end" (mm.c:355): after a      *)
(* compaction no vector that the program holds lies in the free part.      *)
(***************************************************************************)
FreeSpaceAtEnd ==
  pc \in {"compacted", "stopped"} =>
    \A v \in held : start[v] + BlockSize(length[v]) - 1 <= vector_free_cells

=============================================================================
