---------------------------- MODULE Instructions ----------------------------
(***************************************************************************)
(* The encoding of instructions: what the assembler of the compiler emits  *)
(* (src/compiler/assembler.rkt) and what the virtual machine reads back    *)
(* (src/main/interpreter.c, vm_arch.h:379-477).                            *)
(*                                                                         *)
(* An instruction is a record: its name in the assembler, and a number n   *)
(* or the label "to" that it refers to.  Positions are in bytes.           *)
(***************************************************************************)
EXTENDS Integers, Sequences

\* The instructions that refer to a label, in the order of their opcodes.
Referring == <<"call-toplevel", "jump-toplevel", "goto", "goto-if-false", "closure">>

Refers(i) == i.op \in {Referring[k] : k \in DOMAIN Referring}
Rank(i)   == CHOOSE k \in DOMAIN Referring : Referring[k] = i.op

FirstRom == 260   \* min-rom-encoding

\* to_rom_index; the virtual machine has it in LDCS and in LDC.
ToRomIndex(x) ==
  IF x < 3 THEN x + 65533
  ELSE IF x < FirstRom THEN x - 3 + 65024
  ELSE x - FirstRom + 57344

-----------------------------------------------------------------------------
(* The assembler.                                                          *)

\* Mutant: the short form has room for one constant more.
PushConstantPast(n) ==
  IF n <= 32 THEN <<n>> ELSE <<160 + ((n \div 256) % 16), n % 256>>

PushConstant(n) ==
  IF n <= 31 THEN <<n>> ELSE <<160 + ((n \div 256) % 16), n % 256>>

Global(short, long, n) ==
  IF n <= 15 THEN <<short + n>> ELSE <<long, n % 256>>

PlainOps == {"push-constant", "push-stack", "push-global", "set-global", "call", "jump", "prim"}

\* The bytes of an instruction that refers to no label.
PlainBytes(i) ==
  CASE i.op = "push-constant" -> PushConstant(i.n)
    [] i.op = "push-stack"    -> <<32 + i.n>>
    [] i.op = "push-global"   -> Global(64, 142, i.n)
    [] i.op = "set-global"    -> Global(80, 143, i.n)
    [] i.op = "call"          -> <<96 + i.n>>
    [] i.op = "jump"          -> <<112 + i.n>>
    [] i.op = "prim"          -> <<192 + i.n>>

\* The first byte of a procedure of n parameters.
EntryByte(n, rest) == <<IF rest THEN (-n) % 256 ELSE n>>

\* Those the assembler has no error for (push-stack, call, jump).
Encodable(i) ==
  /\ i.op = "push-stack" => i.n <= 31
  /\ i.op \in {"call", "jump"} => i.n <= 15

(***************************************************************************)
(* label-instr: the forms of a reference at position self to a label at    *)
(* position pos.  Form 1 is one byte, for a target up to 15 bytes ahead,   *)
(* form 2 two bytes, for one less than 128 bytes away, form 3 holds an     *)
(* absolute address.  (No instruction has the 12 bit form.)                *)
(***************************************************************************)
HasForm1(i) == i.op \in {"jump-toplevel", "goto-if-false"}
Opcode1(i)  == IF i.op = "jump-toplevel" THEN 128 ELSE 144

Applies(i, form, self, pos) ==
  CASE form = 1 -> HasForm1(i) /\ pos - (self + 1) \in 0 .. 15
    [] form = 2 -> pos - (self + 2) + 128 \in 0 .. 255
    [] form = 3 -> TRUE

\* asm-8 keeps the low byte; asm-16 is little endian.
ReferenceBytes(i, form, self, pos) ==
  CASE form = 1 -> <<(Opcode1(i) + pos - (self + 1)) % 256>>
    [] form = 2 -> <<180 + Rank(i), (pos - (self + 2) + 128) % 256>>
    [] form = 3 -> <<175 + Rank(i), pos % 256, (pos \div 256) % 256>>

-----------------------------------------------------------------------------
(* The virtual machine.                                                    *)

\* The number of bytes of the instruction that starts with opcode b.
LengthOf(b) ==
  CASE b \div 16 = 10            -> 2
    [] b \in 176 .. 180          -> 3
    [] b \in 181 .. 185          -> 2
    [] b \in {190, 191}          -> 2
    [] OTHER                     -> 1

\* What the instruction in the given bytes, at position pc, does.
Decode(bytes, pc) ==
  LET b  == bytes[1]
      hi == b \div 16
      lo == b % 16
      Does(name, v) == [op |-> name, v |-> v]
  IN  IF LengthOf(b) # Len(bytes) THEN Does("out of step", b)
      ELSE CASE hi \in {0, 1}  -> Does("push-constant", ToRomIndex(b % 32))
             [] hi \in {2, 3}  -> Does("push-stack", b % 32)
             [] hi = 4         -> Does("push-global", lo)
             [] hi = 5         -> Does("set-global", lo)
             [] hi = 6         -> Does("call", lo)
             [] hi = 7         -> Does("jump", lo)
             [] hi = 8         -> Does("jump-toplevel", pc + 1 + lo)
             [] hi = 9         -> Does("goto-if-false", pc + 1 + lo)
             [] hi = 10        -> Does("push-constant", ToRomIndex(lo * 256 + bytes[2]))
             [] b \in 176 .. 180 -> Does(Referring[b - 175], bytes[2] + 256 * bytes[3])
             [] b \in 181 .. 185 -> Does(Referring[b - 180], pc + 2 + bytes[2] - 128)
             [] b = 190        -> Does("push-global", bytes[2])
             [] b = 191        -> Does("set-global", bytes[2])
             [] hi >= 12       -> Does("prim", b - 192)
             [] OTHER          -> Does("no such instruction", b)

=============================================================================
