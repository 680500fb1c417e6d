----------------------------- MODULE RomReader ------------------------------
(***************************************************************************)
(* The constants of an assembled program as the virtual machine reads them *)
(* in ROM (vm_arch.h, bignum.c, primitives): h is rom_heap, v a value.     *)
(***************************************************************************)
EXTENDS Asm

InRom(v)      == v \in 57344 .. 65023
RomCell(h, v) == h[(v % 8192) + 1]
RomType(h, v) == (RomCell(h, v).bits \div 4) % 16
Is(type, h, v) == InRom(v) /\ RomType(h, v) = type

\* What the digits of an integer stand for; ENCODE_SMALL_INT at the end.
RECURSIVE IntegerAt(_, _)
IntegerAt(h, v) ==
  IF v \in 65024 .. 65280 THEN v - 65025
  ELSE RomCell(h, v).cdr + 65536 * IntegerAt(h, RomCell(h, v).car)

(***************************************************************************)
(* What the accessors of the virtual machine find at v is the datum d.     *)
(* A character is an integer there and a vector is a list.                 *)
(***************************************************************************)
RECURSIVE ReadsAs(_, _, _)
ReadsAs(h, v, d) ==
  CASE Kind(d) = "#f" -> v = 65533
    [] Kind(d) = "#t" -> v = 65534
    [] Kind(d) = "()" -> v = 65535
    [] Kind(d) \in {"integer", "character"} ->
         (v \in 65024 .. 65280 \/ Is(5, h, v)) /\ IntegerAt(h, v) = d[2]
    [] Kind(d) = "pair" ->
         Is(0, h, v) /\ ReadsAs(h, RomCell(h, v).car, d[2]) /\ ReadsAs(h, RomCell(h, v).cdr, d[3])
    [] Kind(d) = "symbol" -> Is(13, h, v)
    [] Kind(d) = "string" -> Is(6, h, v) /\ ReadsAs(h, RomCell(h, v).car, IntList(d[2]))
    [] Kind(d) = "vector" -> ReadsAs(h, v, ListOf(d[2]))
    [] Kind(d) = "u8vector" ->
         /\ Is(12, h, v) /\ RomCell(h, v).car = Len(d[2])
         /\ ReadsAs(h, RomCell(h, v).cdr, IntList(d[2]))

-----------------------------------------------------------------------------
(***************************************************************************)
(* What the virtual machine pushes for a constant is, cell by cell through *)
(* the ROM, the datum of the program; and two are the same object only if  *)
(* they are the same datum, since a symbol is known by its address         *)
(* (vm_arch.h:147).                                                        *)
(***************************************************************************)
ConstantsRead ==
  phase = "done" =>
    \A ks \in {Pushed} : \A v \in {[k \in ks |-> Decode(image[k], 0).v]} :
      \A k \in ks :
        /\ ReadsAs(rom, v[k], code[k].datum)
        /\ \A j \in ks : v[j] = v[k] <=> Translated(code[j].datum) = Translated(code[k].datum)

=============================================================================
