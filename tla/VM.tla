--------------------------------- MODULE VM ---------------------------------
(***************************************************************************)
(* The instructions of the PICOBIT virtual machine that shape the heap:    *)
(* src/main/interpreter.c, gen.dispatch.h, primitives_control.c and        *)
(* primitives_list.c, in the DEBUGGING build (EXPECT stops the machine).   *)
(*                                                                         *)
(* The stack is a list: env leads to the temporaries of the running frame, *)
(* then to its parameters, then to the environment of its closure.  Stack  *)
(* cells are recycled by hand: pop() puts the cell it leaves on the free   *)
(* list, the calls turn argument cells into the frame of the callee.  The  *)
(* garbage collector runs in the middle of an instruction, whenever an     *)
(* allocation finds the free list empty; it sees the registers only, never *)
(* the locals of the C functions (pend).                                   *)
(*                                                                         *)
(* An instruction is therefore a chain of steps that ends back in "fetch": *)
(* pend.op is what it does next, pend.v a value already read for it.  The  *)
(* program is any sequence of instructions that the compiler could emit:   *)
(* it pops no more temporaries than its frame has pushed (depth).          *)
(***************************************************************************)
EXTENDS Heap, Sequences

CONSTANTS
  Code,      \* a code address: the entry point of a procedure
  Globals,   \* the global variables in use
  MaxArgs,   \* bound on the arguments of a call
  OneShot,   \* the program resumes no continuation twice
  Program    \* the groups of instructions that the program is made of

ASSUME CodeAssumption ==
  /\ Code \in Leaf
  /\ Globals \subseteq 0 .. 2 * Reserved - 1
  /\ MaxArgs \in Nat
  /\ OneShot \in BOOLEAN
  /\ Program \subseteq {"variables", "calls", "jumps", "closures", "closure_calls",
                        "pairs", "continuations"}

VARIABLES
  pend,    \* what the current instruction does next
  depth,   \* ghost: temporaries of the running frame
  frame    \* ghost: the temporaries that each continuation has put aside

vars == <<type, car, cdr, free_cells, reg, stale, pend, depth, frame>>

Allocations == {"push", "push_clear", "cons", "closure", "save_closure",
                "save_cont", "graft"}
Steps == Allocations \cup {"fetch", "pop", "store_closure", "graft_enter", "stopped"}

Fetch == pend.op = "fetch"
Fetches(group) == Fetch /\ group \in Program
Then(op)       == pend' = [op |-> op, v |-> NIL]
ThenWith(op,v) == pend' = [op |-> op, v |-> v]

heap == <<type, car, cdr, free_cells, stale>>

\* FATAL: the machine stops.
Fatal == Then("stopped") /\ UNCHANGED <<hvars, depth, frame>>

-----------------------------------------------------------------------------
(* The stack.                                                              *)

\* The cells of the list that starts at v, Cells(v)[0] being the first.
ListCells(v) ==
  LET f[i \in 0 .. N] == IF i = 0 THEN v
                         ELSE IF f[i-1] \in Cell THEN cdr[f[i-1]] ELSE NIL
  IN  f

Stack == ListCells(reg["env"])

\* The values of the first n cells of a list.
Values(v, n) == LET s == ListCells(v)
                IN  [i \in 1 .. n |-> IF s[i-1] \in Cell THEN car[s[i-1]] ELSE NIL]

TopValue == car[reg["env"]]

\* Mutant: parameters are popped as if they were temporaries.
PopAnyCell ==
  /\ reg["env"] \in Cell
  /\ ReturnToFreeList(reg["env"], cdr)
  /\ depth' = depth - 1

\* pop(): the cell that env leaves goes to the free list.
PopCell ==
  /\ depth > 0
  /\ ReturnToFreeList(reg["env"], cdr)
  /\ depth' = depth - 1

PoppedEnv == cdr[reg["env"]]

\* The registers after dispatch has popped the argument(s) of a primitive.
RegsWith(r) == [x \in Register |-> IF x \in DOMAIN r THEN r[x] ELSE reg[x]]

-----------------------------------------------------------------------------
(* Constants, variables, branches.                                         *)

\* LDCS, LDC: the value is FALSE, TRUE, NIL, a small integer or a ROM address.
PushConstant ==
  /\ Fetch
  /\ \E v \in Leaf : ThenWith("push", v)
  /\ UNCHANGED <<hvars, depth, frame>>

IsPair(v) == v \in Cell /\ type[v] = "CONS"

\* Slot n of the environment, whose cells are pairs.  The compiler emits no
\* index past the variables in scope; the walk stops at NIL.
InScope(n) == /\ \A m \in 0 .. n-1 : IsPair(Stack[m])
              /\ Stack[n] = NIL \/ IsPair(Stack[n])

\* Mutant: the cell is pushed, not what it holds.
PushStackCell ==
  /\ Fetches("variables")
  /\ \E n \in 0 .. N-1 :
       /\ InScope(n)
       /\ reg' = RegsWith([reg1 |-> Stack[n]])
       /\ ThenWith("push_clear", Stack[n])
  /\ UNCHANGED <<heap, depth, frame>>

\* LDSTK n.
PushStack ==
  /\ Fetches("variables")
  /\ \E n \in 0 .. N-1 :
       /\ InScope(n)
       /\ reg' = RegsWith([reg1 |-> Stack[n]])
       /\ ThenWith("push_clear", IF Stack[n] = NIL THEN NIL ELSE car[Stack[n]])
  /\ UNCHANGED <<heap, depth, frame>>

\* LDS, LD: global i is in the car of cell i >> 1 when i is odd, else its cdr.
PushGlobal ==
  /\ Fetches("variables")
  /\ \E i \in Globals :
       LET v == IF i % 2 = 1 THEN car[i \div 2] ELSE cdr[i \div 2]
       IN  reg' = RegsWith([reg1 |-> v]) /\ ThenWith("push_clear", v)
  /\ UNCHANGED <<heap, depth, frame>>

\* Mutant: the cell that is freed is stored, not what it held.
StoreFreedCell ==
  /\ Fetches("variables")
  /\ depth > 0
  /\ \E i \in Globals :
       /\ ReturnToFreeList(reg["env"], cdr)
       /\ car' = [car EXCEPT ![i \div 2] = reg["env"]]
  /\ depth' = depth - 1
  /\ reg' = RegsWith([env |-> PoppedEnv])
  /\ UNCHANGED <<stale, pend, frame>>

\* STS, ST.
StoreGlobal ==
  /\ Fetches("variables")
  /\ depth > 0
  /\ \E i \in Globals :
       IF i % 2 = 1
       THEN /\ ReturnToFreeList(reg["env"], cdr)
            /\ car' = [car EXCEPT ![i \div 2] = TopValue]
       ELSE /\ ReturnToFreeList(reg["env"], [cdr EXCEPT ![i \div 2] = TopValue])
            /\ car' = car
  /\ depth' = depth - 1
  /\ reg' = RegsWith([env |-> PoppedEnv])
  /\ Then("fetch")
  /\ UNCHANGED <<stale, frame>>

\* Mutant: env stays on the cell that is freed.
DropInPlace ==
  /\ Fetch
  /\ PopCell
  /\ UNCHANGED <<car, reg, stale, pend, frame>>

\* The pop primitive, and BRF, BRSF, BRRF, which pop what they test.
Drop ==
  /\ Fetch
  /\ PopCell
  /\ reg' = RegsWith([env |-> PoppedEnv])
  /\ Then("fetch")
  /\ UNCHANGED <<car, stale, frame>>

\* env = new_pair(v, env), v being a constant or the reg1 of a primitive.
Push ==
  /\ pend.op = "push"
  /\ NewCell("CONS", pend.v, reg["env"])
  /\ reg' = RegsWith([env |-> free_cells])
  /\ depth' = depth + 1
  /\ Then("fetch")
  /\ UNCHANGED frame

\* The same, reg1 being cleared afterwards (LDSTK, LDS, LD).
PushClear ==
  /\ pend.op = "push_clear"
  /\ NewCell("CONS", pend.v, reg["env"])
  /\ reg' = RegsWith([env |-> free_cells, reg1 |-> NIL])
  /\ depth' = depth + 1
  /\ Then("fetch")
  /\ UNCHANGED frame

-----------------------------------------------------------------------------
(* Calls.  build_environment relinks the cells of the arguments, from the  *)
(* top of the stack (the last argument) down, in front of a base.          *)

Relinked(d, first, last, base) ==
  [c \in Cell |->
    LET at == {m \in first .. last : Stack[m] = c}
    IN  IF at = {} THEN d[c]
        ELSE IF first \in at THEN base ELSE Stack[Least(at) - 1]]

Front(first, last, base) == IF last < first THEN base ELSE Stack[last]

(***************************************************************************)
(* What prepare_arguments and build_environment make of the stack: the new *)
(* car and cdr fields and the environment of the callee.  A top-level      *)
(* procedure has no closure on the stack.  A closure that takes k fixed    *)
(* parameters and a rest list gets the others in a list, which the cell    *)
(* that held the closure puts in front of its environment.                 *)
(***************************************************************************)
TopLevelFrame(n) ==
  [car |-> car, cdr |-> Relinked(cdr, 0, n-1, NIL), env |-> Front(0, n-1, NIL)]

FixedFrame(n) ==
  LET base == car[Stack[0]]
      e    == car[base]
  IN  [car |-> car, cdr |-> Relinked(cdr, 1, n, e), env |-> Front(1, n, e)]

RestFrame(n, k) ==
  LET top  == Stack[0]
      e    == car[car[top]]
      rest == Relinked(cdr, 1, n-k, NIL)
  IN  [car |-> [car EXCEPT ![top] = Front(1, n-k, NIL)],
       cdr |-> Relinked([rest EXCEPT ![top] = e], n-k+1, n, top),
       env |-> Front(n-k+1, n, top)]

ClosureFrames(n) == {FixedFrame(n)} \cup {RestFrame(n, k) : k \in 0 .. n}

\* The callee replaces the caller: JUMP, JUMPS, JUMPR, JUMPC, graft-to-cont.
EnterFrame(f) ==
  /\ car' = f.car /\ cdr' = f.cdr
  /\ reg' = RegsWith([env |-> f.env, reg1 |-> NIL, reg2 |-> NIL])
  /\ depth' = 0
  /\ Then("fetch")
  /\ UNCHANGED <<type, free_cells, stale, frame>>

\* The caller is put aside first: CALL, CALLR, CALLC.  used cells have left
\* its stack.
CallFrame(f, used) ==
  /\ car' = f.car /\ cdr' = f.cdr
  /\ reg' = RegsWith([env |-> Stack[used], reg1 |-> f.env, reg2 |-> NIL])
  /\ depth' = depth - used
  /\ Then("save_closure")
  /\ UNCHANGED <<type, free_cells, stale, frame>>

IsClosure(v) == v \in Cell /\ type[v] = "CLOSURE"
IsContinuation(v) == v \in Cell /\ type[v] = "CONTINUATION"

\* CALL, CALLR.
Call ==
  /\ Fetches("calls")
  /\ \E n \in 0 .. MaxArgs : n <= depth /\ CallFrame(TopLevelFrame(n), n)

\* JUMP, JUMPS, JUMPR.
Jump ==
  /\ Fetches("jumps")
  /\ \E n \in 0 .. MaxArgs : n <= depth /\ EnterFrame(TopLevelFrame(n))

\* CALLC.
CallClosure ==
  /\ Fetches("closure_calls")
  /\ \E n \in 0 .. MaxArgs :
       /\ n < depth
       /\ IF IsClosure(TopValue)
          THEN \E f \in ClosureFrames(n) : CallFrame(f, n + 1)
          ELSE Fatal

\* JUMPC.
JumpClosure ==
  /\ Fetches("closure_calls")
  /\ \E n \in 0 .. MaxArgs :
       /\ n < depth
       /\ IF IsClosure(TopValue)
          THEN \E f \in ClosureFrames(n) : EnterFrame(f)
          ELSE Fatal

\* Mutant: the environment of the callee is saved.
SaveCallee ==
  /\ pend.op = "save_closure"
  /\ NewCell("CLOSURE", reg["reg1"], Code)
  /\ reg' = RegsWith([reg4 |-> free_cells])
  /\ Then("save_cont")
  /\ UNCHANGED <<depth, frame>>

\* save_cont, first allocation: reg4 = new_closure(env, pc).
SaveClosure ==
  /\ pend.op = "save_closure"
  /\ NewCell("CLOSURE", reg["env"], Code)
  /\ reg' = RegsWith([reg4 |-> free_cells])
  /\ Then("save_cont")
  /\ UNCHANGED <<depth, frame>>

\* save_cont, second allocation: cont = new_cont(cont, reg4); env = reg1.
SaveCont ==
  /\ pend.op = "save_cont"
  /\ NewCell("CONTINUATION", reg["cont"], reg["reg4"])
  /\ reg' = RegsWith([cont |-> free_cells, reg4 |-> NIL, env |-> reg["reg1"],
                      reg1 |-> NIL, reg2 |-> NIL])
  /\ frame' = [frame EXCEPT ![free_cells] = Values(reg["env"], depth)]
  /\ depth' = 0
  /\ Then("fetch")

-----------------------------------------------------------------------------
(* Closures.                                                               *)

\* CLOS, CLOSR: the captured variables are a list on top of the stack.
Close ==
  /\ Fetches("closures")
  /\ depth > 0
  /\ TopValue = NIL \/ (TopValue \in Cell /\ type[TopValue] = "CONS")
  /\ reg' = RegsWith([reg2 |-> reg["env"], reg3 |-> TopValue, env |-> PoppedEnv])
  /\ Then("closure")
  /\ UNCHANGED <<heap, depth, frame>>

\* Mutant: the closure captures the cell of the stack, not the list it holds.
NewClosureOnStack ==
  /\ pend.op = "closure"
  /\ NewCell("CLOSURE", reg["reg2"], Code)
  /\ reg' = RegsWith([reg1 |-> free_cells])
  /\ Then("store_closure")
  /\ UNCHANGED <<depth, frame>>

\* reg1 = new_closure(reg3, entry).
NewClosure ==
  /\ pend.op = "closure"
  /\ NewCell("CLOSURE", reg["reg3"], Code)
  /\ reg' = RegsWith([reg1 |-> free_cells])
  /\ Then("store_closure")
  /\ UNCHANGED <<depth, frame>>

\* The cell of the list now holds the closure.
StoreClosure ==
  /\ pend.op = "store_closure"
  /\ cdr' = [cdr EXCEPT ![reg["reg2"]] = reg["env"]]
  /\ car' = [car EXCEPT ![reg["reg2"]] = reg["reg1"]]
  /\ reg' = RegsWith([env |-> reg["reg2"], reg1 |-> NIL, reg2 |-> NIL, reg3 |-> NIL])
  /\ Then("fetch")
  /\ UNCHANGED <<type, free_cells, stale, depth, frame>>

-----------------------------------------------------------------------------
(* Primitives of one argument: reg1 = pop(), the primitive, push reg1.     *)

\* Mutant: the field is read from the cell that was popped.
SelectFreed ==
  /\ Fetches("pairs")
  /\ PopCell
  /\ LET r == cdr'[reg["env"]]
     IN  reg' = RegsWith([env |-> PoppedEnv, reg1 |-> r]) /\ ThenWith("push", r)
  /\ UNCHANGED <<car, stale, frame>>

\* car and cdr of a pair in RAM, or of a constant in ROM; EXPECT otherwise.
Select ==
  /\ Fetches("pairs")
  /\ PopCell
  /\ LET v == TopValue
         isPair == v \in Cell /\ type'[v] = "CONS"
         fields == IF isPair THEN {car[v], cdr'[v]} ELSE IF v \in Imm THEN Leaf ELSE {}
     IN  \/ \E r \in fields : /\ reg' = RegsWith([env |-> PoppedEnv, reg1 |-> r])
                              /\ ThenWith("push", r)
         \/ /\ ~isPair
            /\ reg' = RegsWith([env |-> PoppedEnv, reg1 |-> v])
            /\ Then("stopped")
  /\ UNCHANGED <<car, stale, frame>>

\* pair?, null?: the answer is an immediate.
Test ==
  /\ Fetches("pairs")
  /\ PopCell
  /\ \E r \in Leaf : /\ reg' = RegsWith([env |-> PoppedEnv, reg1 |-> r])
                    /\ ThenWith("push", r)
  /\ UNCHANGED <<car, stale, frame>>

-----------------------------------------------------------------------------
(* Primitives of two arguments: reg2 = pop(); reg1 = pop().                *)

PopSecond ==
  /\ Fetch
  /\ depth > 1
  /\ PopCell
  /\ reg' = RegsWith([env |-> PoppedEnv, reg2 |-> TopValue])
  /\ Then("pop")
  /\ UNCHANGED <<car, stale, frame>>

Cons ==
  /\ pend.op = "pop" /\ "pairs" \in Program
  /\ PopCell
  /\ reg' = RegsWith([env |-> PoppedEnv, reg1 |-> TopValue])
  /\ Then("cons")
  /\ UNCHANGED <<car, stale, frame>>

\* Comparisons, and arithmetic on small integers: nothing is allocated but
\* the stack cell of the answer.
Compute ==
  /\ pend.op = "pop" /\ "pairs" \in Program
  /\ PopCell
  /\ \E r \in Leaf : /\ reg' = RegsWith([env |-> PoppedEnv, reg1 |-> r, reg2 |-> NIL])
                    /\ ThenWith("push", r)
  /\ UNCHANGED <<car, stale, frame>>

\* Mutant: only a local of the C function holds the new pair.
NewPairInLocal ==
  /\ pend.op = "cons"
  /\ NewCell("CONS", reg["reg1"], reg["reg2"])
  /\ reg' = RegsWith([reg1 |-> NIL, reg2 |-> NIL])
  /\ ThenWith("push", free_cells)
  /\ UNCHANGED <<depth, frame>>

\* reg1 = new_pair(reg1, reg2); reg2 = NIL.
NewPair ==
  /\ pend.op = "cons"
  /\ NewCell("CONS", reg["reg1"], reg["reg2"])
  /\ reg' = RegsWith([reg1 |-> free_cells, reg2 |-> NIL])
  /\ ThenWith("push", free_cells)
  /\ UNCHANGED <<depth, frame>>

\* set-car!, set-cdr!: nothing is pushed.
SetField ==
  /\ pend.op = "pop" /\ "pairs" \in Program
  /\ LET v == TopValue
         isPair == IsPair(v)
     IN  \/ /\ isPair
            /\ PopCell
            /\ car' = [car EXCEPT ![v] = reg["reg2"]]
            /\ reg' = RegsWith([env |-> PoppedEnv, reg1 |-> NIL, reg2 |-> NIL])
            /\ Then("fetch")
         \/ /\ isPair
            /\ depth > 0 /\ depth' = depth - 1
            /\ ReturnToFreeList(reg["env"], [cdr EXCEPT ![v] = reg["reg2"]])
            /\ car' = car
            /\ reg' = RegsWith([env |-> PoppedEnv, reg1 |-> NIL, reg2 |-> NIL])
            /\ Then("fetch")
         \/ /\ ~isPair
            /\ PopCell /\ Then("stopped")
            /\ reg' = RegsWith([env |-> PoppedEnv, reg1 |-> v])
            /\ car' = car
  /\ UNCHANGED <<stale, frame>>

-----------------------------------------------------------------------------
(* Continuations.  A continuation is resumed by handing its environment to *)
(* the running frame, which then pops the cells of it one by one.          *)

Resume(k, r) ==
  LET closure == cdr[k]
  IN  /\ OneShot => k \notin stale
      /\ reg' = RegsWith([env |-> car[closure], cont |-> car[k], reg1 |-> r, reg2 |-> NIL])
      /\ stale' = stale \cup {k}
      /\ depth' = Len(frame[k])
      /\ ThenWith("push", r)

\* return: reg1 = pop(), the continuation in cont is resumed with it.
Return ==
  /\ Fetches("calls")
  /\ depth > 0
  /\ ReturnToFreeList(reg["env"], cdr)
  /\ IF IsContinuation(reg["cont"])
     THEN Resume(reg["cont"], TopValue)
     ELSE /\ reg' = RegsWith([env |-> PoppedEnv, reg1 |-> TopValue])
          /\ depth' = depth - 1
          /\ Then("stopped")
          /\ stale' = stale
  /\ UNCHANGED <<car, frame>>

\* return-to-cont: reg1 is the continuation, reg2 the value.
ReturnToCont ==
  /\ pend.op = "pop" /\ "continuations" \in Program
  /\ depth > 0
  /\ ReturnToFreeList(reg["env"], cdr)
  /\ IF IsContinuation(TopValue)
     THEN Resume(TopValue, reg["reg2"])
     ELSE /\ reg' = RegsWith([env |-> PoppedEnv, reg1 |-> TopValue, cont |-> TopValue])
          /\ depth' = depth - 1
          /\ Then("stopped")
          /\ stale' = stale
  /\ UNCHANGED <<car, frame>>

\* get-cont: EXPECT stops the machine at top level.
GetCont ==
  /\ Fetches("continuations")
  /\ IF IsContinuation(reg["cont"])
     THEN /\ reg' = RegsWith([reg1 |-> reg["cont"]])
          /\ ThenWith("push", reg["cont"])
          /\ UNCHANGED <<heap, depth, frame>>
     ELSE Fatal

\* graft-to-cont: reg1 is the continuation, reg2 a thunk that is called with it.
GraftToCont ==
  /\ pend.op = "pop" /\ "continuations" \in Program
  /\ PopCell
  /\ LET k == TopValue
     IN  IF IsContinuation(k)
         THEN /\ reg' = RegsWith([env |-> PoppedEnv, cont |-> k, reg1 |-> reg["reg2"]])
              /\ Then("graft")
         ELSE /\ reg' = RegsWith([env |-> PoppedEnv, cont |-> k, reg1 |-> k])
              /\ Then("stopped")
  /\ UNCHANGED <<car, stale, frame>>

\* env = new_pair(reg1, env).
GraftPush ==
  /\ pend.op = "graft"
  /\ NewCell("CONS", reg["reg1"], reg["env"])
  /\ reg' = RegsWith([env |-> free_cells])
  /\ depth' = depth + 1
  /\ Then("graft_enter")
  /\ UNCHANGED frame

GraftEnter ==
  /\ pend.op = "graft_enter"
  /\ IF IsClosure(TopValue)
     THEN \E f \in ClosureFrames(0) : EnterFrame(f)
     ELSE Fatal

-----------------------------------------------------------------------------
\* mm_new_ram_cell finds no free cell: it collects, and gives up when that
\* does not help.
Gc ==
  /\ pend.op \in Allocations /\ free_cells = NIL
  /\ CollectGarbage
  /\ \E kept \in {Reach(Roots, Edges)} :
       frame' = [c \in Cell |-> IF c \in kept THEN frame[c] ELSE << >>]
  /\ IF free_cells' = NIL THEN Then("stopped") ELSE UNCHANGED pend
  /\ UNCHANGED depth

Init ==
  /\ HInit
  /\ pend = [op |-> "fetch", v |-> NIL]
  /\ depth = 0
  /\ frame = [c \in Cell |-> << >>]

Next ==
  \/ PushConstant \/ PushStack \/ PushGlobal \/ StoreGlobal \/ Drop
  \/ Push \/ PushClear
  \/ Call \/ Jump \/ CallClosure \/ JumpClosure \/ SaveClosure \/ SaveCont
  \/ Close \/ NewClosure \/ StoreClosure
  \/ Select \/ Test \/ PopSecond \/ Cons \/ Compute \/ NewPair
  \/ SetField
  \/ Return \/ ReturnToCont \/ GetCont \/ GraftToCont \/ GraftPush \/ GraftEnter
  \/ Gc

Spec == Init /\ [][Next]_vars

(***************************************************************************)
(* What TLC tells states apart by.  The contents of a cell that neither    *)
(* the roots nor the free list lead to are never read again: the next      *)
(* collection puts the cell on the free list whatever it holds.            *)
(***************************************************************************)
Observable ==
  {<<[c \in Cell |-> IF c \in kept
                     THEN <<type[c], car[c], cdr[c], c \in stale, frame[c]>>
                     ELSE IF c \in free THEN <<cdr[c]>> ELSE << >>],
     free_cells, reg, pend, depth>> :
       kept \in {Reach(Roots, Edges)}, free \in {OnFreeList}}

-----------------------------------------------------------------------------
\* Every field and register holds a cell, an immediate or NIL, and a program
\* that pops what it has pushed never pops more than there is (depth).
TypeOK ==
  /\ HTypeOK
  /\ pend \in [op : Steps, v : Value]
  /\ depth \in 0 .. N
  /\ frame \in [Cell -> Seq(Value)]

(***************************************************************************)
(* A frame that was put aside by a call is, until it is resumed, exactly   *)
(* as it was: no collection, no pop and no relinking of arguments by the   *)
(* procedures called since has touched its temporaries.                    *)
(***************************************************************************)
Suspended == {k \in Live : IsContinuation(k) /\ k \notin stale}

FramesIntact ==
  \A k \in Suspended : Values(car[cdr[k]], Len(frame[k])) = frame[k]

(***************************************************************************)
(* The temporaries that pop() recycles are private: nothing that is live   *)
(* leads to one of them but the stack itself (golden rule 1,               *)
(* vm_arch.h:656).                                                         *)
(***************************************************************************)
TemporariesPrivate ==
  Fetch =>
    LET S == Stack
        L == Live
        E == LiveEdges
    IN  \A i \in 0 .. depth - 1 :
          /\ {r \in Register : reg[r] = S[i]} = IF i = 0 THEN {"env"} ELSE {}
          /\ {e[1] : e \in {e \in E : e[1] \in L /\ e[2] = S[i]}} = IF i = 0 THEN {} ELSE {S[i-1]}

(***************************************************************************)
(* What pop() asserts in the code that is compiled out (vm_arch.c:48-55):  *)
(* neither the cell it is about to free nor the value in it is free.       *)
(***************************************************************************)
PopOk ==
  Fetch /\ depth > 0 => {reg["env"], TopValue} \cap OnFreeList = {}

=============================================================================
