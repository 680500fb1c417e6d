# A TLA+ model of PICOBIT

PICOBIT is a Scheme system for small devices: a compiler in Racket that turns a
program into a file of byte code, and a virtual machine in C (workstation and
ESP32) that loads the file and runs it. Its hard part is memory: everything,
the stack included, lives in one heap of five byte cells that is partly managed
by hand and partly by a garbage collector that runs in the middle of
instructions.

The modules here are translated from the source, from the parser of the compiler
to the sweep of the collector. TLC checks them on small instances; TLAPS proves
for every value of the constants what matters most of the collector, of the memory
contract and the interpreter that keeps it, of the threads, of the digit arithmetic and of
the assembler.

## 1. The system

Paths are relative to `src/`.

| part | state | operations | what makes it hard |
|---|---|---|---|
| collector, `main/mm.c` | cells with mark and flip bits | `mm_gc`, `mm_mark`, `mm_sweep` | links are reversed during marking; unsigned loops that count down |
| cells and free list, `main/mm.c`, `main/vm_arch.c` | free list threaded through cdr | `mm_init`, `mm_new_ram_cell`, `return_to_free_list`, `pop` | cells are recycled without looking for other references |
| vector space, `main/mm.c`, `main/vm_arch.c` | blocks with headers | `new_vector`, `mm_new_vector_cell`, `mm_compact_vector_space` | blocks move; headers and data look alike |
| interpreter, `main/interpreter.c` and the dispatch of primitives | env, cont, reg1..reg4, pc | instructions | collections between the two allocations of one instruction; argument cells relinked in place |
| primitives, `main/primitives_*.c` | none of their own | pairs, control, numbers, vectors, strings, I/O | registers left set or cleared decide what a collection keeps |
| integers, `main/bignum.c`, `compiler/library.scm` | bignum_tmp1..5 | sums, order, products, bits | carries told from wrapped sums; sign and length edges |
| cooperative threads, `compiler/library.scm` | readyq, a circular list of continuations | `start-first-process`, `spawn`, `yield`, `exit` | a continuation may be resumed once |
| instruction set, `compiler/assembler.rkt`, `main/vm_arch.h` | none | encoding, decoding | written twice, by hand |
| assembler, `compiler/assembler.rkt`, `compiler/asm.rkt` | constants, globals, code stream | `add-constant`, `sort-constants`, `assemble-constant`, `asm-assemble` | forms and positions depend on each other |
| program file and loader, `compiler/asm.rkt`, `main/hexfile.c`, `main/main.c` | file, program memory | `asm-write-hex`, `read_hex_file` | truncated or damaged files |
| compiler, front end: `compiler/parser.rkt`, `front-end.rkt`, `ast.rkt`, `env.rkt`, `analysis.rkt` | a tree whose links go both ways, variables with their uses | parsing, then passes that rewrite the tree in place | a pass walks over what it rewrites; uses by nodes that are gone; effects that are moved |
| compiler, back end: `compiler/comp.rkt`, `code-gen.rkt`, `ir.rkt`, `back-end.rkt`, `tree-shaker.rkt`, `scheduling.rkt` | basic blocks, compile-time stack | code generation, shaking, ordering, linearising | the stack at every way into a block; falling through to the next one |
| ESP32 and console primitives | `wifi_ready`, terminal mode | calls of libraries | not modelled: input and output |

How they interact: the compiler parses the library and the program into one tree,
rewrites it and makes basic blocks of it, whose instructions the assembler encodes. It writes a file, the loader puts it in program
memory, `mm_init` reserves cells for as many globals as its header says, and
the interpreter reads constants and instructions from it. Interpreter and
primitives allocate through `mm_new_ram_cell`, which calls `mm_gc` when the
free list is empty; the collector sees the registers and the globals and
nothing else. `new_vector` allocates a RAM cell and a block; the collector frees
blocks and the compaction rewrites the RAM cells. Threads are a library over
`get-cont` and `return-to-cont`. There is one thread of control, except for the
event handler of the ESP32 network code.

What makes each part correct is what the properties of section 3 say;
`PROJECT.json` lists under `hazards` where it could go wrong.

## 2. Modules

| module | models | kind |
|---|---|---|
| `Cells` | cell format, reachability, the effect of a sweep | operators |
| `Collector` | a collection in one step | abstract specification |
| `MarkSweep` | `mm_gc`, one loop iteration per step | refines `Collector` |
| `Heap` | cells, registers and free list between calls; the contract `HSpec` | abstract specification |
| `VM` | the instructions that shape the heap | refines `Heap` |
| `CellsProofs` | reachability, swept and free lists | lemmas |
| `MarkSweepProofs` | theorems of `MarkSweep` | proofs |
| `HeapProofs` | theorems of `Heap` | proofs |
| `VMProofs` | theorems of `VM`: the instructions keep the contract | proofs |
| `ByteVectors` | vectors that keep their bytes | abstract specification |
| `VectorSpace` | the vector space and its compaction, block by block | refines `ByteVectors` |
| `VectorSpaceProofs` | theorems of `VectorSpace` | proofs |
| `Digits`, `Numerals` | one round of the digit loops; all integer operations, as recursive functions | operators |
| `Bignum` | the integer primitives on two operands, against the integers of TLA+ | one action per primitive |
| `BignumCells` | the same operations in the cells of a heap with its collector | operators on a memory; `CNext` is a primitive in both |
| `BignumProofs` | theorems of `Bignum`: the arithmetic is exact | proofs |
| `ReadyQueue` | a queue of threads | abstract specification |
| `Threads` | the circular list of `library.scm` | refines `ReadyQueue` |
| `ThreadsProofs` | theorems of `Threads` | proofs |
| `Instructions` | encoders and decoder of instructions | operators |
| `Constants` | collection, order and ROM layout of constants | operators |
| `Asm` | `assemble` and `asm-assemble` | one action per pass or object |
| `AsmProofs` | theorems of `Instructions`, `Asm` and `Loader` | proofs |
| `RomReader` | how the machine reads the constants in ROM | operators |
| `Loader` | the HEX file and `read_hex_file`, after `Asm` | one action per line |
| `Source` | the language and what a program means, by an interpreter | abstract specification of `Compiler` and `Machine` |
| `Tree` | tree, environments, parser, analyses | operators |
| `FrontEnd` | the passes over the tree | operators |
| `CodeGen` | the code generator | operators |
| `Blocks` | labels, tree shaking, order of blocks, linearising | operators |
| `Compiler` | the passes in order, in front of `Asm` and `Loader` | one action per pass |
| `Machine` | the interpreter on the bytes of a compiled program | one action per instruction |
| `SchemeLibrary` | procedures of `library.scm` on lists, `call/cc` and threads, as programs; what threads that take turns print | operators |
| `MCAsm` | instructions, data, distances and programs for the runs of `Machine` | model checking |

### How state and actions correspond to the code

**MarkSweep.** `type car cdr mark flip` are the cells, `current prev p` the locals
of `mm_mark` and `mm_sweep`, `pc` the place in `mm_gc`. Init chooses any heap and
any roots; a vector cell holds raw numbers that look like links, since the
collector must not follow them.

**Heap and VM.** `Heap` has what the memory manager sees. `HSpec` is the contract
its callers keep (the golden rules, `vm_arch.h:653-675`): a new cell holds live
values, links are written into live cells only, a cell is released only when
nothing leads to it. `VM` adds `pend`, a value that the C code holds in a local
between two steps of an instruction, so that a collection can come in between.
The interpreter and its primitives become about thirty actions; a program is
any sequence that the compiler could emit. The groups of instructions a run uses
are in its constant `Program`. Code addresses and the direction of branches are
abstracted: `Test` pops its operand and either branch may follow. `Compute`
stands for comparisons and arithmetic on small integers. A procedure's number of
parameters is chosen when it is called. The model is that of the DEBUGGING
build, in which a wrong type stops the machine (`Fatal`). `stale` marks
continuations that were resumed, `depth` and `frame` are ghosts for the
properties.

**VectorSpace.** Cells of the space have three bytes, one for each field of a
header, so that a header can be overwritten by data and the other way round. `pc`
is the place in `new_vector`; each iteration of the compaction is a step. The RAM
heap is reduced to the objects used for vectors, and its collection to a sweep
that frees the blocks of unreachable ones.

**Bignum.** An integer is the sequence of its digits and a small integer at the
end. The loops of `bignum.c` become recursive functions (`Numerals`) of the variables of the
loop. The width of a digit and the largest small integer are constants. The bits of two digits
are combined by a table of the operator (`BitByBit`).

**BignumCells.** A memory has the digits and high parts of its cells, the free list and
the registers `reg1..4`, `bignum_tmp1..5` and two cells of `env` for the variables of the
program. Each loop of `bignum.c` is an operator from memory to memory that allocates
(`NewBignum`) where the code does; an empty free list is a collection there and then,
which overwrites the digit of every cell no register leads to, as the link of the free list
does. A step of `CNext` is a step of `Bignum` together with the same primitive in the cells.

**Threads.** A thread stands for the continuation `get-cont` returns. Init is the
empty list; `start-first-process` may be called again when the program is back in
`root-k`.

**Asm, Constants, Loader.** A program is a sequence of instructions, labels and
blocks of straight code. `Collect` adds one object of the constants
(`add-constant` is followed part by part through `pending`), `Layout` sorts and
assembles them into `rom`, `Pass1` makes the first approximation of the labels,
`Size` and `Place` are the two passes of `asm-assemble`, `Emit` its last loop.
`Write` is `asm-write-hex`; `ReadSound`, `ReadAltered` and `ReadEnd` are one round
of `read_hex_file` on the line that was written, on one with a byte altered,
and on a file that ends there. Data are tuples with their kind in front; names
and characters are tokens or numbers. The constants of a program that are not
pushed by an instruction of the model are only counted (`others`).

**Source.** The meaning of a program is what it prints, by a direct interpreter
with a store. It knows nothing of trees, boxes, closures or stacks. Where Scheme leaves
the order open, it has the order of `comp-call`: arguments from left to right, the operator
last. `let`, `letrec`, `let*` and named `let` stand for what the parser makes of them;
`and`, `or` and `cond` have a meaning of their own, which the expansions
in `Tree` are checked against. A program with a type error, a wrong number of arguments
or an undefined variable is `wrong`, and nothing is claimed of it.

**Tree, FrontEnd.** A tree is a record of two sequences, of nodes and of variables. It
is changed as the code changes it: a node that is replaced keeps its number, and is
discarded with its references; what is not discarded (the copy of a procedure that
`beta!` leaves behind) still counts as a use, so that the conditions on the number of
uses are those of the code and not those of the program. A clause that gives up (`=> fail!`)
goes on with the next one, children walked again included.

**CodeGen, Blocks.** A context is the one of `ir.rkt`: blocks, the last label, the
environment that says what each slot of the stack holds, and the second environment
that `comp-test` leaves for the branch compiled last. `tighten-jump-cascades!` is in the code but
does nothing: it loops over the blocks with `in-indexed` of their number
(`tree-shaker.rkt:47`), and no number matches a block. So it is not in `TreeShaken`.

**Compiler, Machine.** `phase` names the pass that comes next; the phases of `Asm`
follow. `Machine` reads every opcode and operand from the memory that `Loader` filled,
and has the values of `Source` in its stack: a datum, a pair made at run time, a
closure, a continuation (the suspended calls at that moment). How cells hold these, and
what collections do meanwhile, is `VM`. `StartMachine` keeps the memory and forgets the
variables of the passes before, so that the same code runs once.

**SchemeLibrary.** The procedures are forms of `Source`, word by word those of
`library.scm`, and are compiled with the program that uses them, as `picobit.rkt` does
(which loads the whole library; `tree-shaker.rkt` and the passes drop what is not used).
`Source` has no continuations, so a program that uses them has no meaning there. What it must print is a
promise: of `call/cc` around an expression, what the program prints that has the value in
its place; of threads, what their scripts print when they take turns (`Turns`), in the
order that `ReadyQueue` has.

## 3. Runs

Twelve runs; times are with two workers. Deadlock is checked in `vector` only:
elsewhere a program may end, or the machine stop, by design.

| run | bounds | what it shows |
|---|---|---|
| `gc` | all heaps of 3 cells of 3 types, 1 reserved, 1 register | `GraphRecoverable`: at every step of the marking the original heap can be rebuilt. `MarkExact`: exactly the reachable cells are marked. `CollectsAtomically`: it refines `Collector`. `Terminates` |
| `vm_control` | 5 cells, 1 reserved, calls of up to 2 arguments, closures, continuations, 1 global | `LiveNotFree`, `FreeListSound`, `FramesIntact`, `TemporariesPrivate`; `HSpec`: the contract is kept |
| `vm_data` | 4 cells, pairs mutated at will, a value that is not a link | `LiveNotFree`, `FramesIntact`, `HSpec` |
| `vm_reentry` | 5 cells, 1 global, calls without arguments, continuations resumed more than once | finding 1 |
| `vector` | 6 cells, 3 objects, blocks of one size | `BlocksSound`, `KeepsContents` (refines `ByteVectors`), `SpaceReclaimed`: a compaction gives back every cell that is not in use, so the program is stopped only when its vectors leave no room. `NewVectorReturns` |
| `vector_compact` | blocks of two sizes | finding 2 |
| `bignum` | digits of 2 bits, operands of up to 3 digits, both signs; in cells, operands of up to 2 digits that share high parts or not, 7 or 10 other cells, 0 to 3 of them free | `SumsExact`, `OrderExact`, `ProductsExact`, `AndExact`, `NotExact`, `CellsAsValues`, `OperandsKept` |
| `bignum_ior` | up to 2 digits | finding 3 |
| `threads` | 4 threads, 5 pairs | `ResumedOnce`, `InTurn` (refines `ReadyQueue`), `EveryoneRuns` |
| `asm` | below | `MeaningKept`: every pass over the tree keeps what the program prints. `CodeIsWhole`: the assembler gets all that it takes for granted. `RunsAsMeant`, `Halts`: the machine prints what is meant, nothing else, and comes to `#%halt`. `LibraryKeepsPromise`: with procedures of the library, it prints what they promise. `PlainDecoded`, `ConstantsRead`, `ReferencesReach`, `LoadsTheProgram`, `Assembles`: the assembler, the file and the decoder, whatever code comes |
| `asm_globals` | all 256 globals | finding 5 |
| `asm_trailing` | 2 labels, 4 references, 2 of them after the last label | finding 4 |

Why the bounds are enough, and what they leave out:

- `gc`: three cells hold every shape on which pointer reversal differs locally
  (both links, one, none; shared, cyclic, to itself), and reach the edges of
  the sweep. Not reached: paths of more than three cells.
- `vm_control` needs 5 cells for a frame with a closure, a continuation and
  temporaries at the same time, and to run out of cells in each allocation.
  `OneShot = TRUE` excludes the second resumption of a continuation, which is
  finding 1: the properties are those of programs that, as the library's threads,
  resume each continuation once.
- `VIEW Observable` (both passing runs of `VM`): states that differ only in the
  contents of unreachable cells which are not on the free list are one. No
  action and no property reads those contents, and the next collection
  puts such a cell on the free list whatever it holds, so the reduction is sound
  for the invariants and for `HSpec`, whose actions constrain them in no way that
  depends on what they were.
- `vector`: with one size, and as many objects as blocks fit, RAM objects run
  out no later than the space, so a compaction always finds a free block. This
  leaves out, deliberately, the defect that `vector_compact` shows; what is
  checked is the rest of the allocator. Blocks of different sizes move past
  each other in no passing run: what holds of them is proved (section 5).
  A program that was stopped for want of room would be a deadlock, for which TLC looks too.
- `bignum`: carries, borrows and comparisons depend on digits one at a time,
  and three digits have a first, a middle and a last one. `BignumProofs`
  has the values for every width and length; what is only checked is what happens in the cells. In cells, what the free list has at the
  start decides at which allocation the first collection falls, and 0 to 3 puts it at any
  digit of any step of a product or a quotient of two digits; the number of the other cells
  decides whether there is a second one. 7 are so few that a few products and quotients run
  out of memory (which stops the machine), 10 are enough for all.
- `threads`: four threads give the list a middle, and one pair more than threads
  is always free.
- `asm`, code that `Asm` starts with: every plain instruction with its operand up to
  past every edge of its encoding (`FewGlobals` stops at global 15, since global 16 is
  finding 5); every reference at the distances 0 to 20, 110 to 135 and 250 to 260 in both
  directions (around 15, 127 and 255), with 0 and 255 constants in front; mixed
  programs of two labels and three references with gaps that put the references at
  the edges of their forms, at most one of them after the last label (two are finding 4);
  one to three pushes of 13 data of every kind which share parts. Files are written
  for the programs with constants (up to two pushes) or one reference whose lengths are
  0 to 52 and 252 to 262: all remainders modulo 16 and the step to a two byte address.
- `asm`, programs that are compiled: 688, none of them `wrong`, in three families. In
  `InContext` an expression (a branch, a derived form, a call, an assignment, an effect)
  stands in each context that the code generator tells apart, in a procedure that is
  called with two values, so that tests go both ways. In `Called` a procedure with and
  without a rest, boxes or closed variables is called from the top, by another name, as an
  argument, in place, in tail position and in a loop. In `Globals` one global is defined
  by another and either is used and assigned later. The programs are small, so that
  the whole of the tree fits in every pass; what a pass does depends on a node, its
  parent, its variable and the uses of that, which the families vary.
  Three programs that the code gets wrong are kept out of the families and in `MCAsm`: see
  section 4.
- `asm`, programs with the library: 66. `OnLists` uses every list procedure on lists of 0, 1
  and 3 elements, constant and built at run time, and at every index. `Escapes` has
  `call/cc` used and not used, nested, leaving the inner one, the outer one and a loop, in
  the contexts of `InContext`. `Scripts` has a first thread that spawns two children of
  four kinds each (that print, yield at the start or the end, and spawn again), and either
  returns first or last; then the program goes on and starts threads once more. Each
  procedure of continuations has two uses on purpose (section 4).

In `Loader` an altered byte may be an address, the type, a data byte or the
checksum. An altered length is left out: it can make a data byte stand where the
checksum should be, which only chance detects. A file may end at any line; one cut
within a line is left out (it can be accepted, see the hazard at `hexfile.c:77`).

### Fairness

- `MarkSweep`: weak fairness of the next step. `mm_gc` is one C function in the
  interpreter's thread; nothing suspends it.
- `VectorSpace`: weak fairness of `NewVector`, the steps of a call in progress, for
  the same reason; the program itself need not make one.
- `Threads`: weak fairness of `Yield \/ Exit`. The threads cooperate: this is the
  assumption that the running one sooner or later yields or ends, without which
  the library promises nothing. Spawning alone cannot satisfy it.
- `Asm`, `Loader`: weak fairness of the next step of a sequential program.
- `Compiler`, `Machine`: the same, for two programs that run one after the other. In
  `MSpec` it is written out as `[]<>AtRest \/ []<><<FromSource>>_allvars`: forever, either
  the system is at rest or it goes on. ENABLED of the passes, which WF would have TLC
  evaluate, computes each pass once more in every state.

### Mutants

Every property of a passing run has a mutant in `PROJECT.json`: a definition of
the model replaced by one with a plausible slip (`PartsTruncated` cuts a negative
integer towards 0, `RootsButReg4` forgets a register, `PlaceOnce` does not repeat
the rounds, `MovableEffectLess` moves what reads a variable past an assignment, `ToEndOver` lets a pointer to the end of a list
stay behind, ...), which TLC then finds to violate the property. The mutated
forms stand in the modules in front of the definitions they mutate, marked
"Mutant".

## 4. Findings

1. `vm_arch.c:48` (`vm_reentry`). A continuation that is resumed hands its
   environment to the frame that runs on, which pops it cell by cell; resumed
   again, it pops cells that are free. The assertions that would tell are compiled
   out.
2. `mm.c:356` (`vector_compact`). When the last block of the walk was not moved,
   the free part begins at that block instead of behind it.
3. `bignum.c:545` (`bignum_ior`). `bitwise-ior` ends when the first operand does
   and drops the rest of the second.
4. `asm.rkt:238` (`asm_trailing`). References after the last label move no label,
   so the rounds can stop with a relative form that no longer reaches.
5. `assembler.rkt:230` (`asm_globals`). The long forms of `push-global` and
   `set-global` have opcodes that the machine reads as jumps.

Also met while modelling, and listed as hazards: `integer_length` does not return
from a negative integer (`bignum.c:147`), `bitwise_xor` with -1 (`bignum.c:628`),
`decode_int` adds the high part instead of shifting it (`vm_arch.c:168`), the
limit of 257 constants (`assembler.rkt:138`). The empty vector `#()` as a constant
stops the compiler (`assembler.rkt:336` takes its first element).

Three programs that the compiler gets wrong are in `MCAsm`, outside of the families of the
passing run; put in place of `Compiled` (the last one, of `Promises`) in `Asm.cfg`, each makes
TLC show the error:

- `Renamed`, `(define u 1) (define v u) (set! u 2) (print v)`: `copy-propagate!` puts
  `u` in place of `v`, which is defined once, although `u` is assigned
  (`front-end.rkt:216`). It refutes `MeaningKept`: 2 is printed.
- `Unneeded`, `(define u (cons 1 2)) (define v u) (print v) (set! v 5)`: `v` is needed, but
  `var-val` of a variable that is assigned is not known, and
  `mark-needed-global-vars!` does not look into a definition without an effect
  (`analysis.rkt:17-27`), so nothing marks `u` and it is never stored. It refutes
  `RunsAsMeant`: `()` is printed.
- `SingleUse`, `(define (f x) (cons 1 (call/cc (lambda (k) (k x)))))` with no other use of
  `call/cc`: `copy-propagate!` moves a procedure with a single use to it, as any value
  without an effect (`front-end.rkt:204-211`), and `beta!` puts its body in place. `get-cont`
  is then executed by `f` and captures what comes after `f`, so `(f 2)` is 2 and not
  `(1 . 2)`. It refutes `LibraryKeepsPromise`. The comment in `library.scm:200`, "rest of the
  program, after call to start-first-process", is about a procedure of which programs
  have one use: moved to the top, its `get-cont` finds no continuation. The tests
  (`tests/succeed/callcc.scm`, `tests/succeed/procs.scm`) have two uses of each or more.

## 5. Proofs

### The collector

`MarkSweepProofs` proves, for every heap and all roots,

- `MarkSweepTypeOK`: the locals of `mm_mark` and `mm_sweep` stay in range, though the loops
  count down in unsigned variables;
- `LinksNeverLost`: `GraphRecoverable`, at every step the links that are reversed can be put
  back, and give the heap that the collection began with;
- `MarksWhatIsReachable`: `MarkExact`, when the marking ends the marked cells are the reachable
  ones;
- `MarkSweepCollects`: `Spec => CollectsAtomically`, the loops do what `Collector` does in
  one step.

Assumptions: those of `Cells`, and that the heap at the start is any heap whose fields have
the right types (`TypesAssumption`). None of the properties is inductive. The invariant of the
marking, `MarkInv`, says that there is a way `w` of `n` cells, all different and marked, from
the root being marked to the cell before `current`; that each has one link reversed, the left or, if
it is flipped, the right, which leads to the cell before it on the way; that all other fields are
those of the start. That is what makes `prev` mean something, and `GraphRecoverable` follows from it.
For `MarkExact` it must say besides what the marking has left to do: every link of a marked cell
leads to a marked cell, or is the one followed now, or is the right link of a cell of the
way that is not flipped yet (`LinksVisited`); the roots done are marked (`RootsVisited`); and what is marked is
reachable (`OnlyReachable`). When the way is empty and the roots are done, the marked cells
are closed under links, so `ReachLeast` applies. `SweepInv` has the cells above the one being
swept in the state that `SweptCdr` of `Cells` gives them. In the refinement, the last step of the sweep is
`Collect` and every other step stutters.

### The heap

`HeapProofs` proves, for every number of cells and of globals,

- `HeapTypeOK`: cells, registers and free list hold values of the right kind;
- `HeapLiveNotFree`: nothing the program can reach is on the free list;
- `HeapFreeListSound`: no global is on the free list, and it does not loop.

They are theorems of `HSpec`, the contract, which the interpreter keeps (below).

Assumptions: those of `Cells` (there is a cell, the reserved ones are fewer than
all, NIL and the immediates are not cells). Inductive invariant:
`HInv == HTypeOK /\ IsFreeList(free_cells, cdr) /\ LiveNotFree`. `LiveNotFree`
alone is not inductive: it says nothing of a list that loops, whose next
allocation would leave the cell just allocated on the list. `IsFreeList` says
that every cell of the list lies outside the globals, is followed by a cell or by
NIL, and is not on the list that starts behind it.
`Reach` is defined as the intersection of the sets that contain the roots and are
closed under links. Two lemmas of `CellsProofs`, that it is the least of them (`ReachLeast`) and is
one of them (`ReachClosed`), replace induction along paths: what is live after a
step is within any set that contains the new roots and that the new links do not
leave. There is one lemma per action (`NewKeeps`, `MutateKeeps`, `ReleaseKeeps`,
`CollectKeeps`), each with one step per conjunct.

### The interpreter

`VMProofs` proves, for every number of cells, globals and arguments, and any sequence of
instructions,

- `VMKeepsContract`: `Spec => HSpec`, each instruction, collections in the middle of it included,
  is a step of the contract;
- `VMLiveNotFree`, `VMFreeListSound`: what the contract guarantees;
- `VMTypeOK`, `VMFramesIntact`, `VMTemporariesPrivate`: the properties that `vm_control` checks;
- `VMPopOk`: the assertion of `pop()`, which `vm_reentry` refutes for programs that resume a
  continuation twice.

Each has the hypothesis `OneShot`: no continuation is resumed twice. Without it they are
false (finding 1). The other assumptions are `CodeAssumption` (code addresses are not cells, the
globals fit in the reserved cells) and those of `Cells`.

The difficulty is `pop()`, which frees a cell without knowing who leads to it; the contract asks
that nobody does (`f \notin Live'`). No property of the runs is inductive: that a temporary is private says
nothing of the temporaries of the suspended frames, which the next return makes those of
the running one. The invariant `VInv` says of all live cells who may lead to them. There are
`P`, a set of public cells, and `at`, which gives every frame its places: `at[o][i]` is the cell of
the `i`-th temporary of frame `o`, and `at[o][0]` the closure that `save_cont` made for it, where `o` is
the running frame or a continuation of `P` that is not resumed yet.
- `Apart`: all places are different cells, and none is public;
- `PublicOK`: what a public cell holds is public, but for the closure of a continuation;
- `TempOK`, `ClosureOK`: a place holds a public value and leads to the next place, the last one to a
  public value (the parameters and what is below);
- `PutAside`: a continuation leads to its closure, and its temporaries are those of `frame`;
- `Registers`: registers hold public values, but for `env`, and in the middle of an instruction
  one more (`Tied`).

What is live is then within `P` and the places (`LiveWithin`), so that a cell that is neither can be freed.
A lemma per way to change the heap shows that these facts are kept (`PushShape`, `SavedShape`,
`WritesShape`, `ResumedShape`, ...), and `PublicIsLive` that `P` can be taken within the live cells, which the contract
asks of what is stored. Arguments of a call are temporaries of the caller that become public; the
relinking of `build_environment` is shown to touch no other cell (`MakesFrame`). The heights of the frames
are bounded by the number of cells (`HeightBound`) because a frame's places are different.

Proving it showed one action that was too wide: `PushStack` could read any slot, and in states where
the stack led to a closure, which no compiled program asks for, it followed its fields as if it were a pair.
The guard `InScope` says what the compiler guarantees: the cells up to the slot are pairs.

### The vector space

`VectorSpaceProofs` proves, for a space of any size, any objects and vectors of any lengths, whether
or not they all fit,

- `VectorTypeOK`, `VectorBlocksSound`: invariants that `vector` checks;
- `VectorKeepsContents`: vectors keep their bytes through each step of a compaction (the refinement);
- `VectorSpaceReclaimed`: a compaction meets no block of size 0 and leaves no cell unused in front of the free part.

The code does not guarantee this of all programs. Each theorem has the form `Spec /\ UntilHarm => ...`:
it holds of what a program does as long as no step is taken from a state of `Harm`, that is one in which

- `MovesOntoItself` (`mm.c:340`): a block is about to move by less than its size. `memcpy` is
  undefined for areas that overlap, and in any order of copying the old header that is then marked free
  (`mm.c:342`) lies in the data that was moved;
- `TakesDataForHeader` (`mm.c:322`): a block smaller than the gap has moved into it. `prev` is then at a
  cell of old data, and the walk takes its mark for that of a block;
- `DropsLastBlock` (`mm.c:356`): the walk ends with `prev` at a block in use (finding 2).

With one length the first two never happen, and the third does not as long as there is room for each
object: so it is in the run `vector`. With lengths 1 and 4 in 6 cells, or 1 and 6 in 7, TLC reaches each of
the three, and when any of them is allowed it finds a vector without a sound block or a cell that is not given back: none can be
left out of `Harm`. The condition is on the states in which the code acts, not on constants, so
the theorems cover what programs with several lengths do, blocks that move past gaps of other sizes included.
`BlocksSound` speaks of the vectors held between two calls and says nothing of the blocks that the
compaction walks over. The inductive invariant `IInv` says which cells are headers (`Shape`): outside of the
compaction a set `H` that fills the used part from header to header (`Filled`); in it (`Walk`) the blocks in
use `A` before a gap that begins at `g`, and those from `cur` on, `B`. A header in use leads to the vector
that leads to it (`HeaderOK`, `VectorOK`), and every vector has its header among them, so
that headers and data, which look alike, are told apart by where they are. The sizes in the headers chain each to the next
(`Chain`). Three arguments carry the proof. `Covered`: every cell before `g` is in the block whose header is the
nearest at or below it; the nearest one exists because a set of natural numbers has a smallest
member, so no cell is lost. `CopyOrder`: unless the block moves onto itself its two areas do not
overlap, and any order of copying gives the same. A vector whose cells have moved together has the
same bytes (`SameVector`), and a vector that stays is outside of the area written, because blocks that
chain do not overlap. The bytes of a new vector are whatever its cells held, fields of old headers included, so
`ByteVectors` says nothing of them (`Make`).

### The threads

`ThreadsProofs` proves, for any finite number of threads and any number of pairs that
exceeds it,

- `ThreadsTypeOK`, `ThreadsResumedOnce`: a continuation that is resumed was not resumed before;
- `ThreadsInTurn`: `Spec => InTurn`, the circular list is a queue.

Assumptions: `ThreadAssumption`, which says that the threads are finitely many and fewer than the
pairs: the model stops no program for want of memory. Inductive invariant `IInv`: the ring is a sequence of
different pairs, each of which has the next in its cdr and the last the first, `readyq` is the
last, and the cars are different threads that neither run nor have ended (`RingInv`); the
running thread has not ended; there is a ring if anyone but the main program runs.
`ResumedOnce` alone says nothing of a list whose link skips a pair. The queue that a list
stands for is defined by following cdrs. That it is the sequence of the ring is shown by the smallest
index at which they would differ (`Smallest`), instead of by induction. A new pair exists since the
ring has no more pairs than there are threads.

### The integers

`BignumProofs` proves, for every width of a digit and operands of any length and either sign,
what the run `bignum` checks of values:

- `SumsAreExact`: `add` and `sub`;
- `OrderIsExact`: `cmp`, and with it `=`, `<` and `>`;
- `ProductsAreExact`: `mulnonneg` and `divnonneg`, what the library makes of them for negative
  operands, and the remainder;
- `AndIsExact`, `NotIsExact`: `bitwise_and` on every bit, `bitwise_not`.

Each result is besides in the shortest form (`Canonical`), which `obj_eq` needs to recognise 0 and -1.
Assumptions: a digit has `Width` bits, at least one, and the small integers go from -1 to
`MaxSmall`, which is 1 or more and below `B` (`DigitAssumption`, `WidthAssumption`). `divnonneg` adds `POS1`,
so without 1 among the small integers its results would not be in the shortest form. The excluded
cases are those of the model: a quotient by 0, and negative operands where the code does not return.

The registers make a small invariant (`Exact`); the work is in the loops. They are recursive functions, and the
library's induction theorems take an operator as a parameter, which the provers cannot instantiate.
Two lemmas do without one, since their parameters are sets and functions. `Recursion`: over any set with a measure in `Nat` which `next`
decreases there is a function that computes as the body says; it is built up measure by measure, from the
well-foundedness of `<` on `Nat` (`Smallest`). `Induction`: a subset that
contains each element when it contains those of smaller measure is the whole set. Each loop then has three lemmas.
`...GoesOn` gives its measure: the length of the operand up to its sign, for `add`, `sub` and `shl` with one round
more to make the carry that sign too (`SumRank`). `...Is` unfolds the function. `...Exact` says what it computes *from any round on*,
which is the invariant of the loop:

- `AddFromExact`, `SubFromExact`: the sum (difference) of what is left of the operands and the carry. Digit by digit it
  is `AddDigitExact`, whose point is that the carry, told from the wrapped sum by `<` or
  `<=`, is the true one; `ScaleDigitExact` and `ShlDigitExact` are the like for products and shifts;
- `CmpFromExact`: the order of the high parts decides, or else what was found so far;
- `ScaleFromExact`, with the carry below the factor; `MulFromExact`: what was added up, and the rest of `x` times `y`;
- `LengthExact`: `integer_length` counts the bits (`HasBits`), so `divnonneg` aligns the divisor above half the
  dividend (`DivNonnegExact`);
- `DivFromExact`: a round adds a bit to the quotient and leaves a remainder below the divisor, which is then
  halved without loss because it is still a multiple of a power of 2;
- `AndFromExact`: bit `i` of a number is bit `i` of its digit or bit `i - Width` of the rest (`BitLow`, `BitHigh`).

`Unique` says that a number has one shortest form, so that equality of values is equality of results.

### The assembler

`AsmProofs` proves first of single instructions that assembler and interpreter agree:

- `PlainDecodes`: for an instruction without a label, every argument that the encoding has
  room for (`Fits`), on both sides of the limit between the short and the long form;
- `ReferenceDecodes`: for a reference in any of the forms that apply, from every position to every
  position below 65536; no distance is cut off and none changes its sign;
- `ConstantsApart`: `ToRomIndex` is injective, so `push-constant` never confuses two constants.

`Fits` stops at 15 for global variables: from 16 on the long form is wrong (finding 5,
run `asm_globals`). The proofs go by the kind of an opcode (`Only`, `Kind`): its ranges do not overlap, so
`Decode` has one choice.

Then of whole programs, of any length, with any number of labels, references and constants:

- `EveryReferenceReaches`, and `ReferencesReachTheirLabels` for the programs of the specification: what is emitted for a reference,
  decoded at the position where it ended up, leads to its label;
- `EveryInstructionIsMeant`, and `InstructionsAreMeant`: any other instruction, with the number its constant or
  global was given, is decoded as the compiler meant it, and the consistency check of the last loop
  (`asm.rkt:275-277`) never fails.

The first of each pair starts from any well-formed program (`Given`), one that the compiler made or not. `WellFormed`
is what the assembler takes for granted: every reference has a label and no label is there twice. That the compiler
keeps to it is `CodeIsWhole`, which is checked, not proved. The conclusions have these hypotheses:

- `Room`: the labels come to rest below 65536, the width of an absolute address;
- `Small`: no more than 255 constants and 16 globals, and operands within their encoding, beyond which
  the code is wrong (finding 5, and the hazard at `assembler.rkt:138`) or gives up;
- at most one reference after the last label (`OneTrails`, `Trailing <= 1`): with two, finding 4 refutes it.

In the run `asm` every state satisfies `Room`, `Small` and `WellFormed`. `OneTrails` holds for the
programs that `Asm` starts with, but not for all compiled ones. Those with more references
after their last label are model-checked only.

*The forms.* The form of a reference is chosen by the positions of the round before,
so a form that fits there need not fit in the end: that is the hazard. The inductive invariant `Rounds` says that each form
chosen applies to positions that no label and no reference was beyond, and that the sizes only grow. Larger sizes push all
that follows further away, never nearer. So if no label moved in the last
round, no reference in front of a label became larger in it: the label would have moved with it. Then these references are
where they were when their forms were chosen (`Settled`), and so is the one that follows the last label. A second one might
have been pushed on by the first without any label to show it, which is finding 4.

*The rest.* The invariant `Laid` says that every datum the code pushes is among the constants or still queued,
that adding and sorting lose none, that a global which is named is numbered, and that labels are at rest when the code is emitted.

The positions, and the passes over the code that collect data and globals, are recursive functions and folds. What they
compute is shown by the smallest counterexample (`WellFoundedInduction` on the naturals), as for the loops of the integers.

### The loader

The same module follows the program through the file: `EveryProgramLoads`, and `ProgramsLoad` for the programs of the
specification. A file with an altered byte or without its end is rejected and the sound one is not; when it
is accepted, the memory has the program and nothing else, and `mm_init` finds each constant where it is looked up.
The first starts from any well-formed program, as above. The hypothesis is `Loadable`: at most 255 constants, whose cells
have two fields of 16 bits and a byte, bytes that are bytes, and fewer than 65536 of them. All programs that the run `asm` loads
satisfy it. A program of 65536 bytes is left out, since the address that `read_hex_file` goes
by has 16 bits: `max_addr` would not be its length.

The inductive invariant is `Loading`: after `m` sound lines the memory has what is in them (`Halfway`), and after a bad one
the file has been rejected. Its steps are

- `LinesIs`, `NextLine`: line `m` has the next 16 bytes or what is left of them, with their address (`Upto` counts
  the bytes before it), and the last has none;
- `LineIs`, `AlteredIs`: the sum of a line is 0 modulo 256, and not when one byte has become another;
  `SumIs` says that the fold over a line is the last of its partial sums, `SumChanged` what one byte does to it;
- `ReadsOn`, `Refuses`: what `read_hex_file` does with the one and the other;
- `StreamIs`: the header and the cells of the constants are where `mm_init` looks for them (`FlattenIs`,
  `FlatCells`), and `CellIs`: a field is the one its two bytes came from.

### Model-checked only

Liveness (`Terminates`, `NewVectorReturns`, `EveryoneRuns`, `Assembles`, `Halts`), which needs
fairness and ENABLED. Whatever a RECURSIVE operator computes, since the provers do not take modules that
declare one: `CellsAsValues` and `OperandsKept` (`BignumCells`), `ConstantsRead` (`RomReader`), `CodeIsWhole` and
`MeaningKept` (the compiler), `RunsAsMeant` and `LibraryKeepsPromise` (`Machine`). `ReferencesReach` for
compiled programs in which several references follow the last label.

## 6. Not modelled, and the plan

In order:

1. Integers: `encode_int`, `decode_int`, `xor` against its definition, negative
   remainders; constants in ROM as operands.
2. Composition of `VectorSpace` with `Heap`.
3. The rest of the loader: files cut within a line, the start of the machine after a
   failure; the limits of 256 constants and globals.
4. Library procedures on strings and byte vectors, `equal?`, the signs of products and
   quotients: `Machine` has neither strings nor bignums at run time.

Left out for good: the reader and its macros, console and ESP32 primitives (input and
output), the build scripts, tests and examples. `Machine` stops at the first error the machine
reports: what it does after ERROR is not claimed.
