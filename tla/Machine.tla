------------------------------ MODULE Machine ------------------------------
(***************************************************************************)
(* A compiled program on the virtual machine: the interpreter              *)
(* (src/main/interpreter.c, gen.dispatch.h) on the bytes that the loader   *)
(* has put in its memory.                                                  *)
(*                                                                         *)
(* A value is a datum, a pair made at run time, a closure with its entry   *)
(* point and its environment, or a continuation: the suspended calls.  How *)
(* cells hold these is the matter of module VM.  A machine that reports an *)
(* error is not followed further.                                          *)
(***************************************************************************)
EXTENDS Compiler, RomReader

VARIABLES
  pc,
  env,   \* the stack: temporaries, arguments and closed variables
  cont,  \* the suspended calls, the last one first
  st     \* the store of pairs, the globals, what was printed, halted, wrong

mvars == <<pc, env, cont, st>>
allvars == <<vars, lvars, cvars, mvars>>

Stopped == st.halted \/ st.wrong

-----------------------------------------------------------------------------
(* What the instructions refer to.                                         *)

Opcode == Byte(pc)
After  == pc + LengthOf(Opcode)
Instr  == Decode([k \in 1 .. LengthOf(Opcode) |-> Byte(pc + k - 1)], pc)

\* What an object of the program stands for.
RECURSIVE DatumAt(_, _)
DatumAt(h, v) ==
  CASE v = 65533 -> False
    [] v = 65534 -> True
    [] v = 65535 -> Null
    [] v \in 65024 .. 65280 \/ Is(5, h, v) -> Integer(IntegerAt(h, v))
    [] Is(0, h, v) -> Pair(DatumAt(h, RomCell(h, v).car), DatumAt(h, RomCell(h, v).cdr))
    [] OTHER -> <<"object", v>>

\* Below the end of the stack and in a global that was never set, NIL is found.
Slot(n)      == IF n < Len(env) THEN env[n + 1] ELSE Null
GlobalGet(n) == IF n \in DOMAIN st.global THEN st.global[n] ELSE Null

\* pop() for each of n, in the order they were pushed; what is left.
Popped(n) == Reverse(SubSeq(env, 1, n))
Below(n)  == SubSeq(env, n + 1, Len(env))

\* The elements of a list made at run time.
RECURSIVE ListAt(_)
ListAt(v) == IF v = Null THEN << >> ELSE <<st.store[v[2]][1]>> \o ListAt(st.store[v[2]][2])

Wrong == st' = [st EXCEPT !.wrong = TRUE] /\ UNCHANGED <<pc, env, cont>>

-----------------------------------------------------------------------------
Does(op) == loading = "running" /\ ~Stopped /\ Instr.op = op

Pushes1(op, v) ==
  /\ Does(op)
  /\ env' = <<v>> \o env /\ pc' = After
  /\ UNCHANGED <<cont, st>>

PushConst  == Pushes1("push-constant", DatumAt(RomHeap, Instr.v))
PushSlot   == Pushes1("push-stack", Slot(Instr.v))
PushStored == Pushes1("push-global", GlobalGet(Instr.v))

StoreGlobal ==
  /\ Does("set-global")
  /\ st' = [st EXCEPT !.global = (Instr.v :> Slot(0)) @@ @]
  /\ env' = Below(1) /\ pc' = After
  /\ UNCHANGED cont

Goto ==
  /\ Does("goto")
  /\ pc' = Instr.v
  /\ UNCHANGED <<env, cont, st>>

BranchIfFalse ==
  /\ Does("goto-if-false")
  /\ pc' = IF Slot(0) = False THEN Instr.v ELSE After
  /\ env' = Below(1)
  /\ UNCHANGED <<cont, st>>

\* The list on the stack becomes the environment of the closure.
MakeClosure ==
  /\ Does("closure")
  /\ env' = <<<<"closure", Instr.v, ListAt(Slot(0))>>>> \o Below(1)
  /\ pc' = After
  /\ UNCHANGED <<cont, st>>

\* save_cont
Saved(rest) == <<[env |-> rest, pc |-> After]>> \o cont

\* The first byte of a procedure is the number of its parameters.
EnterToplevel ==
  LET n == Byte(Instr.v)
  IN  /\ env' = Popped(n) /\ pc' = Instr.v + 1
      /\ UNCHANGED st

CallToplevel == Does("call-toplevel") /\ cont' = Saved(Below(Byte(Instr.v))) /\ EnterToplevel
JumpToplevel == Does("jump-toplevel") /\ UNCHANGED cont /\ EnterToplevel

(***************************************************************************)
(* prepare_arguments and build_environment.  A procedure with a rest       *)
(* parameter has the complement of the number of the others, and the list  *)
(* of the rest is made of the cells of the stack.                          *)
(***************************************************************************)
EnterClosure(n, after) ==
  LET c     == Slot(0)
      np    == Byte(c[2])
      fixed == IF np < 128 THEN np ELSE 255 - np
      args  == SubSeq(Popped(n + 1), 1, n)
      rest  == SubSeq(args, fixed + 1, n)
      len   == Len(st.store)
      cells == [k \in DOMAIN rest |-> <<rest[k], IF k = Len(rest) THEN Null ELSE Cell(len + k + 1)>>]
      list  == IF np < 128 THEN << >> ELSE IF rest = << >> THEN <<Null>> ELSE <<Cell(len + 1)>>
  IN  IF Kind(c) # "closure" \/ n < fixed \/ (np < 128 /\ n # np) THEN Wrong
      ELSE /\ env' = SubSeq(args, 1, fixed) \o list \o c[3]
           /\ pc' = c[2] + 1
           /\ st' = IF np < 128 THEN st ELSE [st EXCEPT !.store = @ \o cells]
           /\ cont' = after

CallClosure == Does("call") /\ EnterClosure(Instr.v, Saved(Below(Instr.v + 1)))
JumpClosure == Does("jump") /\ EnterClosure(Instr.v, cont)

\* The primitives of control, by their codes.
IsControl == Instr.v \in 1 .. 5
Controls(n) == Does("prim") /\ Instr.v = n

\* Value v is what the suspended call at the head of k waits for.
Resume(k, v) ==
  IF k = << >> THEN Wrong
  ELSE /\ env' = <<v>> \o Head(k).env /\ pc' = Head(k).pc
       /\ cont' = Tail(k)
       /\ UNCHANGED st

Return == Controls(1) /\ Resume(cont, Slot(0))

GetCont ==
  /\ Controls(3)
  /\ IF cont = << >> THEN Wrong
     ELSE /\ env' = <<<<"continuation", cont>>>> \o env /\ pc' = After
          /\ UNCHANGED <<cont, st>>

\* The continuation is below the procedure, or the value, on the stack.
GraftToCont ==
  /\ Controls(4)
  /\ IF Kind(Slot(1)) # "continuation" THEN Wrong ELSE EnterClosure(0, Slot(1)[2])

ReturnToCont ==
  /\ Controls(5)
  /\ IF Kind(Slot(1)) # "continuation" THEN Wrong ELSE Resume(Slot(1)[2], Slot(0))

PopValue ==
  /\ Controls(2)
  /\ env' = Below(1) /\ pc' = After
  /\ UNCHANGED <<cont, st>>

Primitive ==
  /\ Does("prim") /\ ~IsControl
  /\ LET p == CHOOSE p \in DOMAIN Primitives : Primitives[p].code = Instr.v
         n == Primitives[p].nargs
         r == Applied(p[1], Popped(n), st)
     IN  /\ st' = r.state
         /\ env' = (IF Primitives[p].unspecified \/ r.state.halted THEN << >> ELSE <<r.value>>) \o Below(n)
  /\ pc' = After
  /\ UNCHANGED cont

Run ==
  \/ PushConst \/ PushSlot \/ PushStored \/ StoreGlobal \/ Goto \/ BranchIfFalse \/ MakeClosure
  \/ CallToplevel \/ JumpToplevel \/ CallClosure \/ JumpClosure \/ Return \/ PopValue \/ Primitive
  \/ GetCont \/ GraftToCont \/ ReturnToCont

-----------------------------------------------------------------------------
(* Everything together: programs of module Asm, and those that are         *)
(* compiled, whose file the machine sees as it was written, and run.       *)

MInit ==
  /\ (LInit /\ source = << >> /\ meant = MeantByNone /\ tree = EmptyTree /\ bbs = << >>) \/ CInit
  /\ pc = 0 /\ env = << >> /\ cont = << >> /\ st = Started

Translate == Compile /\ UNCHANGED mvars

LoadAsm      == ~FromSource /\ LNext /\ UNCHANGED <<cvars, mvars>>
LoadCompiled == FromSource /\ (AssembleStep \/ WriteFile \/ ReadSound) /\ UNCHANGED <<cvars, mvars>>

\* interpreter() starts after the constants.  Only the memory counts from now
\* on, and what led to it is forgotten.
StartMachine ==
  /\ FromSource /\ loading = "accepted"
  /\ loading' = "running" /\ phase' = "running"
  /\ pc' = 4 + 5 * Byte(2)
  /\ others' = 0 /\ code' = << >> /\ constants' = << >> /\ globals' = << >>
  /\ rom' = << >> /\ size' = << >> /\ label' = << >> /\ image' = << >>
  /\ UNCHANGED <<pending, file, buffer, max_addr, damaged, cvars, env, cont, st>>

Execute == Run /\ UNCHANGED <<vars, lvars, cvars>>

MNext == Translate \/ LoadAsm \/ LoadCompiled \/ StartMachine \/ Execute

\* A compiled program that can go no further.
AtRest ==
  FromSource =>
    Stopped \/ phase \in {"failed", "inconsistent"} \/ loading = "rejected"

(***************************************************************************)
(* Nothing waits: what can go on does.  For the compiled programs this is  *)
(* weak fairness of MNext, with what enables it written out.               *)
(***************************************************************************)
MSpec ==
  /\ MInit /\ [][MNext]_allvars
  /\ WF_allvars(LoadAsm)
  /\ []<>AtRest \/ []<><<FromSource>>_allvars

-----------------------------------------------------------------------------
(***************************************************************************)
(* A program with a meaning prints what it should, in that order, and      *)
(* nothing else, when its compiled form runs, and the machine reports no   *)
(* error.                                                                  *)
(***************************************************************************)
PrintsWhatIsMeant ==
  /\ ~st.wrong
  /\ IsPrefix(st.out, meant.out)
  /\ st.halted => st.out = meant.out

RunsAsMeant == ~meant.wrong /\ meant.by = "source" => PrintsWhatIsMeant

(***************************************************************************)
(* Procedures of the library, compiled into a program together with their  *)
(* uses, do what they promise: lists are built as they should, an exit     *)
(* through call/cc gives its value there and nothing else, and threads     *)
(* take turns, each resumed where it was.                                  *)
(***************************************************************************)
LibraryKeepsPromise == meant.by = "library" => PrintsWhatIsMeant

(***************************************************************************)
(* Such a program is compiled, loaded, and comes to its #%halt.            *)
(***************************************************************************)
Halts == (FromSource /\ ~meant.wrong) ~> st.halted

=============================================================================
